------------------------------ MODULE Request ------------------------------
(***************************************************************************)
(* The life of requests in worker_thread (src/src/threadpool.c): taking a  *)
(* header from the connection (process_ingress; HttpParse has the bytes),  *)
(* validate_request, the handlers of handler_static.c, the response and    *)
(* its Content-Length, send_response, should_keep_alive, and the closing   *)
(* of the connection. Clients may send requests ahead of the responses,    *)
(* descriptor numbers are used again, and all workers share the buffer of  *)
(* int_to_string.                                                          *)
(*                                                                         *)
(* The socket buffer of a connection holds tokens: text up to an end mark, *)
(* which the code takes for a request whatever it was sent as, or text     *)
(* without an end mark. How connections wait and travel between the threads*)
(* is the subject of ThreadPool.                                           *)
(***************************************************************************)
EXTENDS Integers, Sequences, SequencesExt, FiniteSets, FiniteSetsExt

CONSTANTS
  Conns, TlsConns,  \* connections, and those accepted on the HTTPS port
  Fds, Workers,     \* descriptor numbers, of which accept() takes the lowest
  Menu,         \* Menu[c]: the requests the client of c may send
  Bodies,       \* Bodies[c]: the pieces of text it may send as their bodies:
                \* up to an end mark or not, and what a header that begins so
                \* is parsed as
  MaxSent,      \* MaxSent[c]: how many end marks it sends
  Size,         \* Size[p]: st_size of what path p names
  Missing, Traversal, Directories,  \* paths stat fails on, with "..", no files
  ErrorSize,    \* length of an error page
  IntLimit,     \* 2^31: from here on (int)st_size is something else
  Refusals,     \* the statuses of process_ingress: 101, 431, 500, 505
  Faults,       \* "ingress", "mmap", "short", "write"
  None, Torn    \* no value; a number read while another is written

(* What parse_http1 makes of a header with other text in front of it.      *)
Garbled == [method |-> "INVALID", version |-> None, host |-> FALSE,
            connection |-> None, path |-> None]

ASSUME RequestAssumption ==
  /\ TlsConns \subseteq Conns /\ IntLimit \in Nat /\ ErrorSize \in 1 .. IntLimit - 1
  /\ \A c \in Conns : MaxSent[c] \in Nat
  /\ \A c \in Conns : Bodies[c] \subseteq [head : BOOLEAN, req : Menu[c] \cup {Garbled}]
  /\ Faults \subseteq {"ingress", "mmap", "short", "write"}
  /\ Fds \subseteq Nat /\ Refusals \subseteq Nat
  /\ \A c \in Conns : \A req \in Menu[c] :
       req.method \in {"GET", "HEAD"} /\ req.path \notin Missing \cup Traversal =>
         Size[req.path] \in Nat
  /\ None \notin Conns \cup Int /\ Torn \notin Int /\ None # Torn

VARIABLES
  sent,           \* sent[c]: how many end marks the client has sent ...
  bodies,         \* bodies[c]: ... and which of them in bodies of requests
  inbox,          \* inbox[c]: tokens in the socket buffer
  where,          \* where[c]: "new", "queued", "served", "kept", "closed"
  fd,             \* fd[c]: the descriptor in its conn_t, also once closed
  protocol,       \* protocol[c] of its conn_t
  wire,           \* wire[c]: what is written to its client
  skipped,        \* skipped[c]: end marks cut off behind an earlier header
  kept,           \* kept[c]: the requests after which it was kept alive
  pc, conn, ctx,  \* of each worker
  digits,         \* the static buffer of int_to_string
  contexts,       \* request_ctx_t that are allocated: <<connection, id>>
  ending,         \* what the wait room has closed and not yet shut down
  shutting_down

client == <<sent, bodies, inbox>>
connection == <<where, fd, protocol>>
history == <<wire, skipped, kept>>
worker == <<pc, conn, ctx>>
vars == <<client, connection, history, worker, digits, contexts, ending, shutting_down>>

(* What request_ctx_t holds of a request and of the response to it.        *)
NoCtx == [id |-> 0, req |-> None, status |-> 0, announce |-> None, declared |-> None,
          size |-> 0, body |-> FALSE, flaws |-> {}, failed |-> FALSE]

Set(w, r, to) == ctx' = [ctx EXCEPT ![w] = r] /\ pc' = [pc EXCEPT ![w] = to]

(* Worker w is done with its connection.                                   *)
Done(w) ==
  /\ Set(w, NoCtx, "pop")
  /\ conn' = [conn EXCEPT ![w] = None]

Open(c) == where[c] \notin {"new", "closed"}

(* write() to the descriptor number of c: it reaches the connection that   *)
(* has this number now, if there is one.                                   *)
Write(c, what) ==
  wire' = [d \in Conns |-> IF Open(d) /\ fd[d] = fd[c] THEN Append(wire[d], what) ELSE wire[d]]

AsInt(n) == IF n < IntLimit THEN n ELSE n - 2 * IntLimit      \* (int)st_size

-----------------------------------------------------------------------------
(***************************************************************************)
(* Mistakes this code could have.                                          *)
(***************************************************************************)

(* should_keep_alive does not look at the headers of the response.         *)
KeepsAliveAfterErrors(c, r) == r.req.connection # "close" /\ protocol[c] = "HTTP11"

(* The header stays in the socket buffer (MSG_PEEK).                       *)
PeekHeader(w) ==
  LET in == inbox[conn[w]] IN
  /\ pc[w] = "ingress" /\ in # << >> /\ in[1].head
  /\ Set(w, [NoCtx EXCEPT !.id = in[1].id, !.req = in[1].req], "validate")
  /\ contexts' = contexts \cup {<<conn[w], in[1].id>>}
  /\ UNCHANGED <<client, connection, history, conn, digits, ending, shutting_down>>

(* Closing the connection does not free the context.                       *)
ReleaseLeaks(w) ==
  /\ pc[w] = "release" /\ Done(w)
  /\ UNCHANGED <<client, connection, history, digits, contexts, ending, shutting_down>>

(* SSL_shutdown for every connection that is closed.                       *)
UsesTlsAlways(c) == TRUE

(* The connection stays in the queue for another worker to pop.            *)
PopLeavesQueued(w, c) ==
  /\ pc[w] = "pop" /\ where[c] = "queued"
  /\ protocol' = [protocol EXCEPT ![c] = IF @ = "UNKNOWN" THEN "HTTP11" ELSE @]
  /\ pc' = [pc EXCEPT ![w] = "ingress"] /\ conn' = [conn EXCEPT ![w] = c]
  /\ UNCHANGED <<client, where, history, ctx, fd, digits, contexts, ending, shutting_down>>

-----------------------------------------------------------------------------
Init ==
  /\ sent = [c \in Conns |-> 0] /\ bodies = [c \in Conns |-> {}]
  /\ inbox = [c \in Conns |-> << >>]
  /\ where = [c \in Conns |-> "new"] /\ fd = [c \in Conns |-> None]
  /\ protocol = [c \in Conns |-> "UNKNOWN"]
  /\ wire = [c \in Conns |-> << >>]
  /\ skipped = [c \in Conns |-> {}] /\ kept = [c \in Conns |-> {}]
  /\ pc = [w \in Workers |-> "pop"] /\ conn = [w \in Workers |-> None]
  /\ ctx = [w \in Workers |-> NoCtx]
  /\ digits = None /\ contexts = {} /\ ending = None /\ shutting_down = FALSE

(* Clients, listeners, the wait room and the signal handler.               *)
Accept(c) ==
  /\ where[c] = "new" /\ ~shutting_down
  /\ LET free == Fds \ {fd[d] : d \in {x \in Conns : Open(x)}}
     IN  free # {} /\ fd' = [fd EXCEPT ![c] = Min(free)]
  /\ where' = [where EXCEPT ![c] = "queued"]
  /\ UNCHANGED <<client, protocol, history, worker, digits, contexts, ending, shutting_down>>

(* One more token; those with an end mark are numbered.                    *)
Arrives(c, head, req) ==
  /\ sent[c] < MaxSent[c] /\ Open(c)
  /\ sent' = IF head THEN [sent EXCEPT ![c] = @ + 1] ELSE sent
  /\ inbox' = [inbox EXCEPT ![c] = Append(@, [head |-> head, id |-> sent'[c], req |-> req])]
  /\ UNCHANGED <<connection, history, worker, digits, contexts, ending, shutting_down>>

SendRequest(c, req) == Arrives(c, TRUE, req) /\ UNCHANGED bodies

EndsInText(tokens) == tokens # << >> /\ ~Last(tokens).head

(* More of the body of the last request, whatever it was: nothing in the   *)
(* code reads a body as one. (Text behind text without a mark is one text.)*)
SendBody(c, text) ==
  /\ sent[c] > 0 /\ (EndsInText(inbox[c]) => text.head)
  /\ Arrives(c, text.head, text.req)
  /\ bodies' = IF text.head THEN [bodies EXCEPT ![c] = @ \cup {sent'[c]}] ELSE bodies

(* Input brings a connection back to the workers.                          *)
WaitRoom(c) ==
  /\ where[c] = "kept" /\ ending = None /\ inbox[c] # << >>
  /\ where' = [where EXCEPT ![c] = "queued"]
  /\ UNCHANGED <<client, fd, protocol, history, worker, digits, contexts, ending, shutting_down>>

(* The wait room closes a connection (it expired, has an event with an     *)
(* error, or there is no room for it): close() ...                         *)
WaitRoomCloses(c) ==
  /\ where[c] = "kept" /\ ending = None
  /\ where' = [where EXCEPT ![c] = "closed"] /\ inbox' = [inbox EXCEPT ![c] = << >>]
  /\ ending' = c
  /\ UNCHANGED <<sent, bodies, fd, protocol, history, worker, digits, contexts,
                 shutting_down>>

SigTerm ==
  /\ ~shutting_down /\ shutting_down' = TRUE
  /\ UNCHANGED <<client, connection, history, worker, digits, contexts, ending>>

-----------------------------------------------------------------------------
(* queue_pop; demux_protocol on a new connection.                          *)
Pop(w, c) ==
  /\ pc[w] = "pop" /\ where[c] = "queued"
  /\ where' = [where EXCEPT ![c] = "served"]
  /\ protocol' = [protocol EXCEPT ![c] = IF @ = "UNKNOWN" THEN "HTTP11" ELSE @]
  /\ pc' = [pc EXCEPT ![w] = "ingress"] /\ conn' = [conn EXCEPT ![w] = c]
  /\ UNCHANGED <<client, fd, history, ctx, digits, contexts, ending, shutting_down>>

Response(c, r, whole, n, flaws) ==
  [of |-> c, id |-> r.id, req |-> r.req, status |-> r.status, declared |-> r.declared,
   whole |-> whole, body |-> n, announce |-> r.announce, flaws |-> flaws]

(* The handshake fails, or the client is gone or says nothing for too long,*)
(* or process_ingress fails: the connection is closed, silently or behind  *)
(* a status line without headers.                                          *)
IngressFails(w) ==
  /\ pc[w] = "ingress"
  /\ contexts' = contexts \cup {<<conn[w], 0>>}
  /\ \/ Set(w, NoCtx, "close") /\ UNCHANGED wire
     \/ /\ "ingress" \in Faults
        /\ \E s \in Refusals :
             LET r == [NoCtx EXCEPT !.status = s]
             IN  Set(w, r, "close") /\ Write(conn[w], Response(conn[w], r, TRUE, 0, {}))
  /\ UNCHANGED <<client, connection, skipped, kept, conn, digits, ending, shutting_down>>

(* What is left of a token when the reading of an earlier one has taken its*)
(* beginning: a header garbled, or text without an end mark.               *)
Rests(t) == {[t EXCEPT !.req = Garbled], [t EXCEPT !.head = FALSE, !.req = Garbled]}

(* process_ingress reads up to an end mark and maybe beyond: what is beyond*)
(* is counted in body_overshoot_bytes and lost. A header is what its first *)
(* bytes make it.                                                          *)
ReadHeader(w) ==
  LET c == conn[w]
      in == inbox[c]
      heads == {i \in DOMAIN in : in[i].head}
      h == Min(heads)
      Beyond(last) == {in[i].id : i \in {j \in heads : h < j /\ j <= last}}
      req == in[1].req
  IN
  /\ pc[w] = "ingress" /\ heads # {}
  /\ \E last \in h .. Len(in) :
       LET rest == SubSeq(in, last + 1, Len(in))
       IN  \/ /\ inbox' = [inbox EXCEPT ![c] = rest]
              /\ skipped' = [skipped EXCEPT ![c] = @ \cup Beyond(last)]
           \/ /\ rest # << >> /\ Head(rest).head
              /\ \E t \in Rests(Head(rest)) : inbox' = [inbox EXCEPT ![c] = <<t>> \o Tail(rest)]
              /\ skipped' = [skipped EXCEPT ![c] = @ \cup Beyond(last + 1)]
  /\ Set(w, [NoCtx EXCEPT !.id = in[h].id, !.req = req], "validate")
  /\ contexts' = contexts \cup {<<c, in[h].id>>}
  /\ protocol' = IF req.version = "HTTP/1.0" THEN [protocol EXCEPT ![c] = "HTTP10"] ELSE protocol
  /\ UNCHANGED <<sent, bodies, where, fd, wire, kept, conn, digits, ending, shutting_down>>

(* validate_request                                                        *)
Verdict(c, req) ==
  CASE req.method = "INVALID"               -> 400
    [] protocol[c] # "HTTP10" /\ ~req.host  -> 400
    [] req.path \in Traversal               -> 403
    [] req.method \notin {"GET", "HEAD", "OPTIONS", "PUT"} -> 405
    [] OTHER                                -> 200

(* validate_request, route_request and the handler up to int_to_string;    *)
(* handle_put does nothing.                                                *)
Handle(w) ==
  LET r == ctx[w]
      v == Verdict(conn[w], r.req)
      file == r.req.method \in {"GET", "HEAD"}
      status == IF v = 200 /\ file /\ r.req.path \in Missing THEN 404 ELSE v
  IN
  /\ pc[w] = "validate"
  /\ CASE status # 200 ->           \* handle_error
            Set(w, [r EXCEPT !.status = status, !.announce = "close", !.size = ErrorSize,
                             !.body = TRUE], "format")
       [] status = 200 /\ r.req.method = "PUT" ->
            Set(w, [r EXCEPT !.status = 200], "send")
       [] OTHER ->                  \* handle_get_head, handle_options
            Set(w, [r EXCEPT !.status = 200, !.announce = "keep-alive",
                             !.size = IF file THEN Size[r.req.path] ELSE 0], "format")
  /\ UNCHANGED <<client, connection, history, conn, digits, contexts, ending, shutting_down>>

(* int_to_string fills its static buffer, over what another worker has put *)
(* there and not yet copied ...                                            *)
Format(w) ==
  /\ pc[w] = "format"
  /\ digits' = AsInt(ctx[w].size)
  /\ pc' = [pc EXCEPT ![w] = "copy"]
  /\ ctx' = [v \in Workers |->
               IF v # w /\ pc[v] = "copy" THEN [ctx[v] EXCEPT !.flaws = @ \cup {"raced"}]
               ELSE ctx[v]]
  /\ UNCHANGED <<client, connection, history, conn, contexts, ending, shutting_down>>

(* ... and resp_add_header copies it, perhaps while another worker fills   *)
(* it. For GET the file is then opened and mapped, or is not.              *)
Copy(w) ==
  LET r == ctx[w]
      maps == r.status = 200 /\ r.req.method = "GET" /\ r.size > 0
      can == maps /\ r.req.path \notin Directories
      Flaws(torn, mapped) ==
        (IF torn THEN {"raced"} ELSE {}) \cup (IF maps /\ ~mapped THEN {"unmapped"} ELSE {})
  IN
  /\ pc[w] = "copy"
  /\ \E mapped \in {can} \cup {FALSE : x \in Faults \cap {"mmap"}},
        torn \in {FALSE} \cup {TRUE : v \in {v \in Workers \ {w} : pc[v] = "format"}} :
       Set(w, [r EXCEPT !.declared = IF torn THEN Torn ELSE digits, !.body = @ \/ mapped,
                        !.flaws = @ \cup Flaws(torn, mapped)], "send")
  /\ UNCHANGED <<client, connection, history, conn, digits, contexts, ending, shutting_down>>

BodySize(r) == IF r.req.method = "GET" /\ r.body THEN r.size ELSE 0

(* How a write of n bytes ends: one of IntLimit bytes or more takes fewer. *)
Writes(n) ==
  {x \in {"whole", "cut", "failed"} :
     CASE x = "whole"  -> n < IntLimit
       [] x = "cut"    -> n > 0 /\ ("short" \in Faults \/ n >= IntLimit)
       [] x = "failed" -> n > 0 /\ "write" \in Faults}

(* send_response: the header, then the body. A write that fails ends it; a *)
(* short one is only logged, that of the header too.                       *)
Send(w) ==
  LET r == ctx[w] IN
  /\ pc[w] = "send"
  /\ \E head \in Writes(1), body \in Writes(BodySize(r)) :
       LET n == IF body = "whole" THEN BodySize(r) ELSE 0
           flaws == r.flaws \cup (IF "cut" \in {head, body} THEN {"short"} ELSE {})
       IN  /\ IF head = "failed" THEN UNCHANGED wire
              ELSE Write(conn[w], Response(conn[w], r, head = "whole", n, flaws))
           /\ Set(w, [r EXCEPT !.failed = "failed" \in {head, body}], "finish")
  /\ UNCHANGED <<client, connection, skipped, kept, conn, digits, contexts, ending, shutting_down>>

KeepsAlive(c, r) ==
  /\ r.req.connection # "close"       \* as the client spells it
  /\ r.announce # "close"
  /\ protocol[c] = "HTTP11"

(* Kept alive: "continue" frees neither the context nor the body.          *)
Keep(w) ==
  /\ pc[w] = "finish" /\ ~ctx[w].failed /\ KeepsAlive(conn[w], ctx[w])
  /\ where' = [where EXCEPT ![conn[w]] = "kept"]
  /\ kept' = [kept EXCEPT ![conn[w]] = @ \cup {ctx[w].id}]
  /\ Done(w)
  /\ UNCHANGED <<client, fd, protocol, wire, skipped, digits, contexts, ending, shutting_down>>

Drop(w) ==
  /\ pc[w] = "finish" /\ (ctx[w].failed \/ ~KeepsAlive(conn[w], ctx[w]))
  /\ pc' = [pc EXCEPT ![w] = IF shutting_down THEN "closeAndBreak" ELSE "close"]
  /\ UNCHANGED <<client, connection, history, conn, ctx, digits, contexts, ending, shutting_down>>

UsesTls(c) == c \in TlsConns

(* close_connection: close() ...                                           *)
Close(w) ==
  /\ pc[w] \in {"close", "closeAndBreak"}
  /\ where' = [where EXCEPT ![conn[w]] = "closed"]
  /\ inbox' = [inbox EXCEPT ![conn[w]] = << >>]
  /\ pc' = [pc EXCEPT ![w] = IF pc[w] = "close" THEN "notify" ELSE "notifyAndBreak"]
  /\ UNCHANGED <<sent, bodies, fd, protocol, history, conn, ctx, digits, contexts, ending, shutting_down>>

(* ... then SSL_shutdown, which writes an alert to the descriptor number.  *)
Shutdown(c) ==
  IF UsesTls(c) THEN Write(c, [of |-> c, id |-> 0, alert |-> TRUE]) ELSE UNCHANGED wire

Notify(w) ==
  /\ pc[w] \in {"notify", "notifyAndBreak"}
  /\ Shutdown(conn[w])
  /\ pc' = [pc EXCEPT ![w] = IF pc[w] = "notify" THEN "release" ELSE "exit"]
  /\ UNCHANGED <<client, connection, skipped, kept, conn, ctx, digits, contexts, ending, shutting_down>>

(* The same in the wait room.                                              *)
WaitRoomNotifies ==
  /\ ending # None /\ Shutdown(ending)
  /\ ending' = None
  /\ UNCHANGED <<client, connection, skipped, kept, worker, digits, contexts, shutting_down>>

(* cleanup_request_resources and free(ctx)                                 *)
Release(w) ==
  /\ pc[w] = "release" /\ Done(w)
  /\ contexts' = contexts \ {<<conn[w], ctx[w].id>>}
  /\ UNCHANGED <<client, connection, history, digits, ending, shutting_down>>

-----------------------------------------------------------------------------
WorkerStep(w) ==
  \/ \E c \in Conns : Pop(w, c)
  \/ IngressFails(w) \/ ReadHeader(w) \/ Handle(w) \/ Format(w) \/ Copy(w) \/ Send(w)
  \/ Keep(w) \/ Drop(w) \/ Close(w) \/ Notify(w) \/ Release(w)

Next ==
  \/ \E w \in Workers : WorkerStep(w)
  \/ \E c \in Conns :
       \/ Accept(c) \/ WaitRoom(c) \/ WaitRoomCloses(c)
       \/ \E req \in Menu[c] : SendRequest(c, req)
       \/ \E text \in Bodies[c] : SendBody(c, text)
  \/ WaitRoomNotifies \/ SigTerm

Spec == Init /\ [][Next]_vars

-----------------------------------------------------------------------------
(* Every variable has its type, and a connection is with a worker exactly  *)
(* while it is served.                                                     *)
Responses(c) == {i \in DOMAIN wire[c] : "alert" \notin DOMAIN wire[c][i]}

TypeOK ==
  /\ where \in [Conns -> {"new", "queued", "served", "kept", "closed"}]
  /\ fd \in [Conns -> Fds \cup {None}]
  /\ protocol \in [Conns -> {"UNKNOWN", "HTTP10", "HTTP11"}]
  /\ pc \in [Workers -> {"pop", "ingress", "validate", "format", "copy", "send", "finish",
                         "close", "closeAndBreak", "notify", "notifyAndBreak", "release", "exit"}]
  /\ conn \in [Workers -> Conns \cup {None}]
  /\ ending \in Conns \cup {None} /\ (ending # None => where[ending] = "closed")
  /\ \A c \in Conns : /\ sent[c] \in 0 .. MaxSent[c]
                      /\ bodies[c] \cup skipped[c] \cup kept[c] \subseteq 1 .. sent[c]
  /\ \A c \in Conns :
       LET by == {w \in Workers : conn[w] = c /\ pc[w] \notin {"notify", "notifyAndBreak",
                                                               "release", "exit"}}
       IN  Cardinality(by) = IF where[c] = "served" THEN 1 ELSE 0

(***************************************************************************)
(* KeptIsFramed (the handlers, send_response, should_keep_alive): after a  *)
(* response that leaves the connection open its client knows where the next*)
(* one begins: its header is complete and says that the connection stays,  *)
(* and it declares, and has for GET, as many bytes as the file has. Except *)
(* that: a PUT is answered without a length; the size does not fit an int; *)
(* and these, seen when they happen: another worker fills the buffer of    *)
(* int_to_string before the number is copied, the file is not opened or    *)
(* mapped, a write is short.                                               *)
(***************************************************************************)
OwnSize(req) == IF req.method \in {"GET", "HEAD"} THEN Size[req.path] ELSE 0

KeptIsFramed ==
  \A c \in Conns : \A i \in Responses(c) :
    LET m == wire[c][i]
    IN  (m.id \in kept[c] /\ m.flaws = {} /\ m.req.method # "PUT" /\ OwnSize(m.req) < IntLimit) =>
          /\ m.whole /\ m.announce = "keep-alive"
          /\ m.declared = OwnSize(m.req)
          /\ m.body = IF m.req.method = "GET" THEN m.declared ELSE 0

(***************************************************************************)
(* AnswersInOrder (read_http_headers, process_ingress, send_response): the *)
(* responses on a connection answer its requests in the order in which they*)
(* were sent, each at most once, and a request before an answered one is   *)
(* left out only if it was cut off behind an earlier header. With one      *)
(* exception: what a body holds up to an end mark counts as a request of   *)
(* its own, and is answered in its place.                                  *)
(***************************************************************************)
AnswersInOrder ==
  \A c \in Conns :
    LET own == {i \in Responses(c) : wire[c][i].id > 0}
        ids == {wire[c][i].id : i \in own}
        requests == (1 .. sent[c]) \ bodies[c]
    IN  /\ \A i, j \in own : i < j => wire[c][i].id < wire[c][j].id
        /\ ids \subseteq requests \cup bodies[c]
        /\ \A k \in ids : \A n \in 1 .. k : n \in requests => n \in ids \cup skipped[c]

(***************************************************************************)
(* WireIsOwn (close_connection, send_response): what is written to a       *)
(* connection is its own responses, and alerts of TLS connections closed   *)
(* before that had the same descriptor number.                             *)
(***************************************************************************)
WireIsOwn ==
  \A c \in Conns : \A i \in DOMAIN wire[c] :
    LET from == wire[c][i].of
    IN  from # c => /\ i \notin Responses(c) /\ from \in TlsConns
                    /\ where[from] = "closed" /\ fd[from] = fd[c]

(***************************************************************************)
(* ContextsAccounted (worker_thread, cleanup_request_resources): a context *)
(* that is allocated is in use by a worker, or was left behind by one that *)
(* kept the connection alive or stopped. Nothing else leaks.               *)
(***************************************************************************)
ContextsAccounted ==
  contexts \subseteq
    {<<conn[w], ctx[w].id>> : w \in Workers} \cup
    UNION {{<<c, k>> : k \in kept[c]} : c \in Conns}
=============================================================================
