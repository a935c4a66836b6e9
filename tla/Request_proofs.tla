-------------------------- MODULE Request_proofs --------------------------
(***************************************************************************)
(* Theorems about Request, for every number of workers, connections and    *)
(* requests, every menu of requests and every fault: responses reach their *)
(* own clients in the order of the requests, a connection that is kept is  *)
(* in step with its client, and contexts are accounted for.                *)
(***************************************************************************)
EXTENDS Request, Selection_proofs

Requests == (UNION {Menu[c] : c \in Conns}) \cup {Garbled}

(* What is in a socket buffer, in a context and on the wire.               *)
Tokens == [head : BOOLEAN, id : Nat, req : Requests]

Contexts ==
  [id : Nat, req : Requests \cup {None}, status : Nat, announce : {None, "close", "keep-alive"},
   declared : Int \cup {None, Torn}, size : Nat, body : BOOLEAN,
   flaws : SUBSET {"raced", "unmapped"}, failed : BOOLEAN]

Answers ==
  [of : Conns, id : Nat, req : Requests \cup {None}, status : Nat,
   declared : Int \cup {None, Torn}, whole : BOOLEAN, body : Nat,
   announce : {None, "close", "keep-alive"}, flaws : SUBSET {"raced", "unmapped", "short"}]

Alerts == [of : Conns, id : {0}, alert : {TRUE}]

(* A worker that has not closed its connection, one that has, one that has *)
(* read a header and not yet sent the response to it, and one that has not *)
(* sent it or could not.                                                   *)
Serving == {"ingress", "validate", "format", "copy", "send", "finish", "close", "closeAndBreak"}
Closing == {"notify", "notifyAndBreak", "release", "exit"}
Answering == {"validate", "format", "copy", "send"}
Finishing == {"finish", "close", "closeAndBreak"}
Unanswered(w) ==
  \/ pc[w] \in Answering
  \/ pc[w] \in Finishing /\ ctx[w].failed

(* The types of the variables.                                             *)
Types ==
  /\ sent \in [Conns -> Nat] /\ (\A c \in Conns : sent[c] <= MaxSent[c])
  /\ bodies \in [Conns -> SUBSET Nat] /\ (\A c \in Conns : bodies[c] \subseteq 1 .. sent[c])
  /\ inbox \in [Conns -> Seq(Tokens)]
  /\ where \in [Conns -> {"new", "queued", "served", "kept", "closed"}]
  /\ fd \in [Conns -> Fds \cup {None}]
  /\ protocol \in [Conns -> {"UNKNOWN", "HTTP10", "HTTP11"}]
  /\ wire \in [Conns -> Seq(Answers \cup Alerts)]
  /\ skipped \in [Conns -> SUBSET Nat] /\ kept \in [Conns -> SUBSET Nat]
  /\ pc \in [Workers -> Serving \cup Closing \cup {"pop"}]
  /\ conn \in [Workers -> Conns \cup {None}]
  /\ ctx \in [Workers -> Contexts]
  /\ \A w \in Workers : pc[w] \in Answering \cup {"finish"} => ctx[w].req \in Requests
  /\ digits \in Int \cup {None}
  /\ ending \in Conns \cup {None}
  /\ shutting_down \in BOOLEAN

(* Who serves a connection.                                                *)
Served ==
  /\ \A w \in Workers :
       /\ conn[w] = None <=> pc[w] = "pop"
       /\ pc[w] \in Serving => where[conn[w]] = "served"
       /\ pc[w] \in Closing => where[conn[w]] = "closed"
  /\ \A v, w \in Workers :
       pc[v] \in Serving /\ pc[w] \in Serving /\ conn[v] = conn[w] => v = w
  /\ \A c \in Conns :
       where[c] = "served" => \E w \in Workers : conn[w] = c /\ pc[w] \in Serving

(* What the wait room still has to shut down is closed.                    *)
Ending == ending # None => where[ending] = "closed"

(* Descriptor numbers.                                                     *)
Numbers ==
  /\ \A c, d \in Conns : Open(c) /\ Open(d) /\ fd[c] = fd[d] => c = d
  /\ \A c \in Conns : where[c] = "new" => sent[c] = 0 /\ wire[c] = << >>

(* A context belongs to a worker past ingress or to a kept connection.      *)
Allocated ==
  \A x \in contexts :
    \/ \E c \in Conns : \E k \in kept[c] : x = <<c, k>>
    \/ \E w \in Workers : pc[w] \notin {"pop", "ingress"} /\ x = <<conn[w], ctx[w].id>>

Heads(c) == {i \in DOMAIN inbox[c] : inbox[c][i].head}
Waiting(c) == {inbox[c][i].id : i \in Heads(c)}
Own(c) == {i \in Responses(c) : wire[c][i].id > 0}
Answered(c) == {wire[c][i].id : i \in Own(c)}

(* The requests of a client are numbered in the order of its bytes.        *)
InboxOrder ==
  \A c \in Conns :
    /\ \A i \in Heads(c) : inbox[c][i].id \in 1 .. sent[c]
    /\ \A i, j \in Heads(c) : i < j => inbox[c][i].id < inbox[c][j].id
    /\ \A k \in Waiting(c) : \A n \in Answered(c) : n < k

(* A request being answered comes after all that have been answered.       *)
AnswerOrder ==
  /\ \A w \in Workers, c \in Conns : conn[w] = c =>
       /\ pc[w] \in Answering =>
            /\ ctx[w].id \in 1 .. sent[c]
            /\ \A n \in Answered(c) : n < ctx[w].id
            /\ \A k \in Waiting(c) : ctx[w].id < k
       /\ pc[w] = "finish" /\ ~ctx[w].failed => ctx[w].id \in Answered(c)
  /\ \A c \in Conns :
       /\ \A i, j \in Own(c) : i < j => wire[c][i].id < wire[c][j].id
       /\ kept[c] \subseteq Answered(c)
       /\ Answered(c) \subseteq 1 .. sent[c] /\ skipped[c] \subseteq 1 .. sent[c]

(* Nothing up to an end mark disappears from an open connection ...        *)
Covered ==
  \A c \in Conns : where[c] # "closed" =>
    \A k \in 1 .. sent[c] :
      \/ k \in Answered(c) \cup skipped[c] \cup Waiting(c)
      \/ \E w \in Workers : conn[w] = c /\ Unanswered(w) /\ ctx[w].id = k

(* ... or from before a response.                                          *)
InOrder ==
  \A c \in Conns : \A k \in Answered(c) : 1 .. k \subseteq Answered(c) \cup skipped[c]

(* What a worker has worked out of the response, until it is sent.         *)
Ready(w) ==
  LET r == ctx[w] IN
  /\ pc[w] = "copy" /\ "raced" \notin r.flaws => digits = AsInt(r.size)
  /\ pc[w] \in {"format", "copy", "send"} /\ r.req.method # "PUT" =>
       \/ r.announce = "close"
       \/ r.announce = "keep-alive" /\ r.status = 200 /\ r.size = OwnSize(r.req)
  /\ pc[w] = "send" /\ r.req.method # "PUT" /\ r.announce = "keep-alive" /\ r.flaws = {} =>
       /\ r.declared = AsInt(r.size)
       /\ r.req.method = "GET" /\ r.size > 0 => r.body

(* The response has its frame, or says that it is the last one.            *)
HasFrame(m) ==
  /\ m.whole /\ m.announce = "keep-alive"
  /\ m.declared = OwnSize(m.req)
  /\ m.body = IF m.req.method = "GET" THEN m.declared ELSE 0

Right(m) ==
  (m.flaws = {} /\ m.req.method # "PUT" /\ OwnSize(m.req) < IntLimit) =>
    m.announce = "close" \/ HasFrame(m)

(* What a worker has written without an error is what it has worked out.   *)
Told(w, c) ==
  conn[w] = c /\ pc[w] = "finish" /\ ~ctx[w].failed =>
    \A i \in Own(c) : wire[c][i].id = ctx[w].id =>
      wire[c][i].announce = ctx[w].announce /\ Right(wire[c][i])

(* A connection is not kept after a response that announced its end.       *)
Sound(c, m) == m.id \in kept[c] => m.announce # "close" /\ Right(m)

Framed ==
  /\ \A w \in Workers : Ready(w) /\ \A c \in Conns : Told(w, c)
  /\ \A c \in Conns : \A i \in Own(c) : Sound(c, wire[c][i])

(* The inductive invariant.                                                *)
IInv ==
  /\ Types /\ Served /\ Ending /\ Numbers /\ WireIsOwn /\ Allocated
  /\ InboxOrder /\ AnswerOrder /\ Covered /\ InOrder /\ Framed

-----------------------------------------------------------------------------
(***************************************************************************)
(* What is on the wire.                                                    *)
(***************************************************************************)
LEMMA Kinds ==
  /\ \A m \in Answers : "alert" \notin DOMAIN m /\ m.id \in Nat
  /\ \A m \in Alerts : "alert" \in DOMAIN m /\ m.id = 0
BY DEF Answers, Alerts

(* Responses are numbered from 1 on, alerts and refusals 0.                *)
LEMMA OwnIs ==
  ASSUME NEW c \in Conns, wire[c] \in Seq(Answers \cup Alerts)
  PROVE  Own(c) = {i \in DOMAIN wire[c] : wire[c][i].id > 0}
<1>1. \A i \in DOMAIN wire[c] : wire[c][i] \in Answers \cup Alerts
  OBVIOUS
<1> QED
  BY <1>1, Kinds DEF Own, Responses

LEMMA OwnIsNext ==
  ASSUME NEW c \in Conns, wire'[c] \in Seq(Answers \cup Alerts)
  PROVE  Own(c)' = {i \in DOMAIN wire'[c] : wire'[c][i].id > 0}
<1>1. \A i \in DOMAIN wire'[c] : wire'[c][i] \in Answers \cup Alerts
  OBVIOUS
<1> QED
  BY <1>1, Kinds DEF Own, Responses

(* The responses on the wires are the same after a step.                   *)
Quiet ==
  \A c \in Conns : /\ Own(c)' = Own(c)
                   /\ \A i \in Own(c) : wire'[c][i] = wire[c][i]

LEMMA QuietAnswered ==
  ASSUME Quiet, NEW c \in Conns
  PROVE  Answered(c)' = Answered(c)
BY DEF Quiet, Answered

LEMMA QuietSame ==
  ASSUME wire' = wire
  PROVE  Quiet
BY DEF Quiet, Own, Responses

(* A write without a number changes no responses.                          *)
LEMMA QuietWrite ==
  ASSUME Types, NEW c \in Conns, NEW m \in Answers \cup Alerts, m.id = 0, Write(c, m)
  PROVE  /\ Quiet
         /\ wire' \in [Conns -> Seq(Answers \cup Alerts)]
<1>1. wire \in [Conns -> Seq(Answers \cup Alerts)]
  BY DEF Types
<1>2. ASSUME NEW d \in Conns
      PROVE  /\ wire'[d] = wire[d] \/ wire'[d] = Append(wire[d], m)
             /\ wire[d] \in Seq(Answers \cup Alerts)
             /\ wire'[d] \in Seq(Answers \cup Alerts)
  BY <1>1 DEF Write
<1>3. wire' \in [Conns -> Seq(Answers \cup Alerts)]
  BY <1>1, <1>2 DEF Write
<1>4. ASSUME NEW d \in Conns
      PROVE  Own(d)' = Own(d) /\ \A i \in Own(d) : wire'[d][i] = wire[d][i]
  <2>1. /\ Own(d) = {i \in DOMAIN wire[d] : wire[d][i].id > 0}
        /\ Own(d)' = {i \in DOMAIN wire'[d] : wire'[d][i].id > 0}
    BY <1>2, OwnIs, OwnIsNext
  <2>2. CASE wire'[d] = wire[d]
    BY <2>1, <2>2
  <2>3. CASE wire'[d] = Append(wire[d], m)
    <3>1. /\ DOMAIN wire[d] = 1 .. Len(wire[d]) /\ Len(wire[d]) \in Nat
          /\ DOMAIN wire'[d] = 1 .. Len(wire[d]) + 1
          /\ \A i \in 1 .. Len(wire[d]) : wire'[d][i] = wire[d][i]
          /\ wire'[d][Len(wire[d]) + 1] = m
      BY <1>2, <2>3
    <3> QED
      BY <2>1, <3>1
  <2> QED
    BY <1>2, <2>2, <2>3
<1> QED
  BY <1>3, <1>4 DEF Quiet

(* An open connection is written to, and no other.                         *)
LEMMA OpenWrite ==
  ASSUME Types, Numbers, NEW c \in Conns, Open(c), NEW m \in Answers \cup Alerts, Write(c, m)
  PROVE  /\ wire' = [wire EXCEPT ![c] = Append(wire[c], m)]
         /\ wire' \in [Conns -> Seq(Answers \cup Alerts)]
<1>1. wire \in [Conns -> Seq(Answers \cup Alerts)]
  BY DEF Types
<1>2. \A d \in Conns : Open(d) /\ fd[d] = fd[c] <=> d = c
  BY DEF Numbers
<1>3. wire' = [wire EXCEPT ![c] = Append(wire[c], m)]
  BY <1>1, <1>2 DEF Write
<1> QED
  BY <1>1, <1>3

(* A response with a number is the last of its connection.                 *)
LEMMA AnswerWritten ==
  ASSUME Types, NEW c \in Conns, NEW m \in Answers, m.id > 0,
         wire' = [wire EXCEPT ![c] = Append(wire[c], m)],
         wire' \in [Conns -> Seq(Answers \cup Alerts)]
  PROVE  /\ \A d \in Conns \ {c} : wire'[d] = wire[d] /\ Own(d)' = Own(d)
                                   /\ Answered(d)' = Answered(d)
         /\ Own(c)' = Own(c) \cup {Len(wire[c]) + 1} /\ Len(wire[c]) \in Nat
         /\ \A i \in Own(c) : i \in 1 .. Len(wire[c]) /\ wire'[c][i] = wire[c][i]
         /\ wire'[c][Len(wire[c]) + 1] = m
         /\ Answered(c)' = Answered(c) \cup {m.id}
<1>1. wire \in [Conns -> Seq(Answers \cup Alerts)]
  BY DEF Types
<1>2. ASSUME NEW d \in Conns \ {c}
      PROVE wire'[d] = wire[d] /\ Own(d)' = Own(d) /\ Answered(d)' = Answered(d)
  BY <1>1, <1>2 DEF Own, Responses, Answered
<1>3. /\ Own(c) = {i \in DOMAIN wire[c] : wire[c][i].id > 0}
      /\ Own(c)' = {i \in DOMAIN wire'[c] : wire'[c][i].id > 0}
  BY <1>1, OwnIs, OwnIsNext
<1>4. /\ DOMAIN wire[c] = 1 .. Len(wire[c]) /\ Len(wire[c]) \in Nat
      /\ DOMAIN wire'[c] = 1 .. Len(wire[c]) + 1
      /\ \A i \in 1 .. Len(wire[c]) : wire'[c][i] = wire[c][i]
      /\ wire'[c][Len(wire[c]) + 1] = m
  BY <1>1
<1>5. Own(c)' = Own(c) \cup {Len(wire[c]) + 1}
  BY <1>3, <1>4
<1>6. \A i \in Own(c) : i \in 1 .. Len(wire[c]) /\ wire'[c][i] = wire[c][i]
  BY <1>3, <1>4
<1>7. Answered(c)' = Answered(c) \cup {m.id}
  BY <1>4, <1>5, <1>6 DEF Answered
<1> QED
  BY <1>2, <1>4, <1>5, <1>6, <1>7

-----------------------------------------------------------------------------
(***************************************************************************)
(* A header is read: what it takes out of the inbox.                       *)
(***************************************************************************)
LEMMA LeastIs ==
  ASSUME NEW S \in SUBSET Nat, S # {}
  PROVE  Min(S) \in S /\ \A y \in S : Min(S) <= y
<1>1. \E x \in S : \A y \in S : x <= y
  BY LeastExists, Zenon
<1> QED
  BY <1>1 DEF Min

LEMMA TokenIs ==
  \A t \in Tokens :
    /\ t.id \in Nat /\ t.head \in BOOLEAN /\ t.req \in Requests
    /\ \A rest \in Rests(t) : rest \in Tokens /\ rest.id = t.id
<1>1. Garbled \in Requests
  BY Zenon DEF Requests
<1>2. ASSUME NEW t \in Tokens
      PROVE  /\ t.id \in Nat /\ t.head \in BOOLEAN /\ t.req \in Requests
             /\ [t EXCEPT !.req = Garbled] \in Tokens
             /\ [t EXCEPT !.req = Garbled].id = t.id
             /\ [t EXCEPT !.head = FALSE, !.req = Garbled] \in Tokens
             /\ [t EXCEPT !.head = FALSE, !.req = Garbled].id = t.id
  BY <1>1 DEF Tokens
<1> QED
  BY <1>2 DEF Rests

(* The header at h is read, and what is before off with it; the requests in*)
(* S are skipped. What is left begins with a rest of the token at off + 1. *)
HeaderTaken(w, c, h, off, S) ==
  /\ conn[w] = c /\ pc[w] = "ingress"
  /\ h \in Heads(c) /\ \A j \in Heads(c) : h <= j
  /\ h <= off /\ off <= Len(inbox[c]) /\ Len(inbox[c]) \in Nat
  /\ inbox' \in [Conns -> Seq(Tokens)]
  /\ \A d \in Conns \ {c} : inbox'[d] = inbox[d] /\ skipped'[d] = skipped[d]
  /\ DOMAIN inbox'[c] = 1 .. Len(inbox[c]) - off
  /\ \A i \in 1 .. Len(inbox[c]) - off :
       /\ off + i \in DOMAIN inbox[c]
       /\ inbox'[c][i].id = inbox[c][off + i].id
       /\ inbox'[c][i].head => inbox[c][off + i].head
  /\ S \subseteq Waiting(c)
  /\ skipped' = [skipped EXCEPT ![c] = @ \cup S]
  /\ \A j \in Heads(c) :
       \/ j = h \/ inbox[c][j].id \in S
       \/ j > off /\ inbox'[c][j - off].head
  /\ \E req \in Requests :
       ctx' = [ctx EXCEPT ![w] = [NoCtx EXCEPT !.id = inbox[c][h].id, !.req = req]]
  /\ pc' = [pc EXCEPT ![w] = "validate"]
  /\ contexts' = contexts \cup {<<c, inbox[c][h].id>>}
  /\ protocol' \in [Conns -> {"UNKNOWN", "HTTP10", "HTTP11"}]
  /\ UNCHANGED <<sent, bodies, where, fd, wire, kept, conn, digits, ending, shutting_down>>

LEMMA HeaderRead ==
  ASSUME Types, Served, NEW w \in Workers, ReadHeader(w)
  PROVE  \E c \in Conns, h \in Nat, off \in Nat, S \in SUBSET Nat : HeaderTaken(w, c, h, off, S)
<1> DEFINE c == conn[w]
           in == inbox[c]
           h == Min(Heads(c))
<1>1. /\ pc[w] = "ingress" /\ c \in Conns
      /\ inbox \in [Conns -> Seq(Tokens)] /\ skipped \in [Conns -> SUBSET Nat]
  BY DEF Types, Served, ReadHeader
<1>2. in \in Seq(Tokens) /\ DOMAIN in = 1 .. Len(in) /\ Len(in) \in Nat
  BY <1>1
<1>3. Heads(c) \subseteq Nat /\ Heads(c) \subseteq DOMAIN in
  BY <1>2 DEF Heads
<1>4. Heads(c) # {}
  BY DEF ReadHeader, Heads
<1>5. h \in Heads(c) /\ \A j \in Heads(c) : h <= j
  BY <1>3, <1>4, LeastIs
<1> DEFINE req == in[1].req
           Beyond(last) == {in[i].id : i \in {j \in Heads(c) : h < j /\ j <= last}}
           Cut(last) == SubSeq(in, last + 1, Len(in))
<1>6. /\ ctx' = [ctx EXCEPT ![w] = [NoCtx EXCEPT !.id = in[h].id, !.req = req]]
      /\ pc' = [pc EXCEPT ![w] = "validate"]
      /\ contexts' = contexts \cup {<<c, in[h].id>>}
      /\ protocol' = IF req.version = "HTTP/1.0" THEN [protocol EXCEPT ![c] = "HTTP10"]
                     ELSE protocol
      /\ UNCHANGED <<sent, bodies, where, fd, wire, kept, conn, digits, ending, shutting_down>>
  BY DEF ReadHeader, Set, Heads
<1>7. req \in Requests
  <2>1. in[1] \in Tokens
    <3> HIDE DEF h
    <3> QED
      BY <1>2, <1>5 DEF Heads
  <2> QED
    BY <2>1, TokenIs
<1>8. protocol' \in [Conns -> {"UNKNOWN", "HTTP10", "HTTP11"}]
  BY <1>6 DEF Types
<1>9. PICK last \in h .. Len(in) :
        \/ /\ inbox' = [inbox EXCEPT ![c] = Cut(last)]
           /\ skipped' = [skipped EXCEPT ![c] = @ \cup Beyond(last)]
        \/ /\ Cut(last) # << >> /\ Head(Cut(last)).head
           /\ \E t \in Rests(Head(Cut(last))) :
                inbox' = [inbox EXCEPT ![c] = <<t>> \o Tail(Cut(last))]
           /\ skipped' = [skipped EXCEPT ![c] = @ \cup Beyond(last + 1)]
  BY DEF ReadHeader, Heads
<1>10. h \in Nat /\ last \in Nat /\ h <= last /\ last <= Len(in)
  BY <1>2, <1>3, <1>5
<1>11. /\ Cut(last) \in Seq(Tokens) /\ Len(Cut(last)) = Len(in) - last
       /\ \A i \in 1 .. Len(in) - last : Cut(last)[i] = in[last + i] /\ last + i \in DOMAIN in
  BY <1>2, <1>10
<1>12. \A k \in Nat : Beyond(k) \in SUBSET Nat /\ Beyond(k) \subseteq Waiting(c)
  <2>1. \A i \in Heads(c) : in[i].id \in Nat
    BY <1>2, <1>3, TokenIs
  <2> QED
    BY <2>1 DEF Waiting
<1> DEFINE S == IF skipped' = [skipped EXCEPT ![c] = @ \cup Beyond(last)]
                   /\ inbox' = [inbox EXCEPT ![c] = Cut(last)]
                THEN Beyond(last) ELSE Beyond(last + 1)
<1>13. S \in SUBSET Nat /\ S \subseteq Waiting(c) /\ skipped' = [skipped EXCEPT ![c] = @ \cup S]
  <2>1. S = Beyond(last) \/ S = Beyond(last + 1)
    OBVIOUS
  <2>2. last \in Nat /\ last + 1 \in Nat
    BY <1>10
  <2>3. skipped' = [skipped EXCEPT ![c] = @ \cup S]
    <3> HIDE DEF Beyond, Cut, c, h, in
    <3> QED
      BY <1>9
  <2> HIDE DEF S, Beyond, c
  <2>4. S \in SUBSET Nat /\ S \subseteq Waiting(c)
    BY <1>12, <2>1, <2>2
  <2> QED
    BY <2>3, <2>4
<1>14. /\ inbox'[c] \in Seq(Tokens) /\ DOMAIN inbox'[c] = 1 .. Len(in) - last
       /\ \A d \in Conns \ {c} : inbox'[d] = inbox[d]
       /\ inbox' \in [Conns -> Seq(Tokens)]
       /\ \A i \in 1 .. Len(in) - last :
            /\ inbox'[c][i].id = in[last + i].id
            /\ inbox'[c][i].head => in[last + i].head
       /\ \A j \in Heads(c) : j = h \/ in[j].id \in S \/ (j > last /\ inbox'[c][j - last].head)
  <2>1. CASE /\ inbox' = [inbox EXCEPT ![c] = Cut(last)]
             /\ skipped' = [skipped EXCEPT ![c] = @ \cup Beyond(last)]
    <3>1. inbox'[c] = Cut(last) /\ \A d \in Conns \ {c} : inbox'[d] = inbox[d]
      BY <1>1, <2>1
    <3>2. inbox' \in [Conns -> Seq(Tokens)]
      BY <1>1, <1>11, <2>1
    <3>3. S = Beyond(last)
      BY <2>1
    <3> HIDE DEF S, Cut, Beyond, in, h
    <3>4. \A j \in Heads(c) : j = h \/ in[j].id \in S \/ (j > last /\ inbox'[c][j - last].head)
      <4> SUFFICES ASSUME NEW j \in Heads(c), j # h, in[j].id \notin S
                   PROVE  j > last /\ inbox'[c][j - last].head
        OBVIOUS
      <4> USE DEF in, h
      <4>1. h < j /\ j \in 1 .. Len(in) /\ ~(j <= last)
        BY <1>2, <1>3, <1>5, <1>10, <3>3 DEF Beyond
      <4>2. j - last \in 1 .. Len(in) - last /\ last + (j - last) = j
        BY <1>2, <1>10, <4>1
      <4>3. Cut(last)[j - last] = in[j] /\ in[j].head
        BY <1>11, <4>2 DEF Heads
      <4> HIDE DEF Cut
      <4> QED
        BY <1>2, <1>10, <3>1, <4>1, <4>3
    <3> USE DEF in, h
    <3>5. /\ inbox'[c] \in Seq(Tokens) /\ DOMAIN inbox'[c] = 1 .. Len(in) - last
          /\ \A i \in 1 .. Len(in) - last : inbox'[c][i] = in[last + i]
      <4> HIDE DEF Cut
      <4> QED
        BY <1>11, <3>1
    <3> HIDE DEF S, Cut, Beyond, h, in, c
    <3>7. \A i \in 1 .. Len(in) - last :
            /\ inbox'[c][i].id = in[last + i].id
            /\ inbox'[c][i].head => in[last + i].head
      BY <3>5
    <3> QED
      BY <3>1, <3>2, <3>4, <3>5, <3>7
  <2>2. CASE ~(/\ inbox' = [inbox EXCEPT ![c] = Cut(last)]
               /\ skipped' = [skipped EXCEPT ![c] = @ \cup Beyond(last)])
    <3>1. PICK t \in Rests(Head(Cut(last))) : inbox' = [inbox EXCEPT ![c] = <<t>> \o Tail(Cut(last))]
      BY <1>9, <2>2
    <3>2. Cut(last) # << >> /\ Head(Cut(last)).head
      BY <1>9, <2>2
    <3>3. S = Beyond(last + 1)
      BY <2>2
    <3>4. Head(Cut(last)) \in Tokens /\ Head(Cut(last)) = in[last + 1] /\ last + 1 <= Len(in)
      <4> HIDE DEF Cut
      <4> QED
        BY <1>2, <1>10, <1>11, <3>2
    <3>5. t \in Tokens /\ t.id = in[last + 1].id
      BY <3>1, <3>4, TokenIs
    <3> DEFINE q == <<t>> \o Tail(Cut(last))
    <3>6. /\ q \in Seq(Tokens) /\ DOMAIN q = 1 .. Len(in) - last
          /\ q[1] = t /\ \A i \in 2 .. Len(in) - last : q[i] = in[last + i]
      <4> DEFINE rest == Cut(last)
                 n == Len(in) - last
      <4>1. /\ rest \in Seq(Tokens) /\ rest # << >> /\ Len(rest) = n /\ n \in Nat /\ t \in Tokens
            /\ \A i \in 1 .. n : rest[i] = in[last + i]
        BY <1>2, <1>10, <1>11, <3>2, <3>5
      <4>2. q = <<t>> \o Tail(rest)
        OBVIOUS
      <4> HIDE DEF rest, q, n, Cut, in, Tokens
      <4>3. /\ Tail(rest) \in Seq(Tokens) /\ Len(Tail(rest)) = n - 1
            /\ \A i \in 1 .. n - 1 : Tail(rest)[i] = rest[i + 1]
        BY <4>1
      <4>4. <<t>> \in Seq(Tokens) /\ Len(<<t>>) = 1 /\ <<t>>[1] = t
        BY <4>1
      <4>5. /\ q \in Seq(Tokens) /\ Len(q) = n /\ q[1] = t
            /\ \A i \in 2 .. n : q[i] = Tail(rest)[i - 1]
        BY <4>1, <4>2, <4>3, <4>4
      <4>6. \A i \in 2 .. n : i - 1 \in 1 .. n - 1 /\ q[i] = rest[i]
        BY <4>1, <4>3, <4>5
      <4>7. DOMAIN q = 1 .. n
        BY <4>5
      <4>8. \A i \in 2 .. n : i \in 1 .. n /\ q[i] = in[last + i]
        BY <4>1, <4>6
      <4> QED
        BY <4>5, <4>7, <4>8 DEF n
    <3> HIDE DEF q, Cut, S, Beyond
    <3>7. inbox' = [inbox EXCEPT ![c] = q]
      BY <3>1 DEF q
    <3>8. inbox'[c] = q /\ (\A d \in Conns \ {c} : inbox'[d] = inbox[d])
          /\ inbox' \in [Conns -> Seq(Tokens)]
      BY <1>1, <3>6, <3>7
    <3>9. ASSUME NEW i \in 1 .. Len(in) - last
          PROVE  inbox'[c][i].id = in[last + i].id /\ (inbox'[c][i].head => in[last + i].head)
      <4>1. CASE i = 1
        BY <3>2, <3>4, <3>5, <3>6, <3>8, <4>1
      <4>2. CASE i # 1
        <5>1. i \in 2 .. Len(in) - last
          BY <1>2, <1>10, <4>2
        <5> QED
          BY <3>6, <3>8, <5>1
      <4> QED
        BY <4>1, <4>2
    <3> HIDE DEF in, h
    <3>10. \A j \in Heads(c) : j = h \/ in[j].id \in S \/ (j > last /\ inbox'[c][j - last].head)
      <4> SUFFICES ASSUME NEW j \in Heads(c), j # h, in[j].id \notin S
                   PROVE  j > last /\ inbox'[c][j - last].head
        OBVIOUS
      <4> USE DEF in, h
      <4>1. h < j /\ j \in 1 .. Len(in) /\ ~(j <= last + 1)
        BY <1>2, <1>3, <1>5, <1>10, <3>3 DEF Beyond
      <4>2. j - last \in 2 .. Len(in) - last /\ last + (j - last) = j
        BY <1>2, <1>10, <4>1
      <4> QED
        BY <1>10, <3>6, <3>8, <4>1, <4>2 DEF Heads
    <3> USE DEF in, h
    <3>12. inbox'[c] \in Seq(Tokens) /\ DOMAIN inbox'[c] = 1 .. Len(in) - last
      BY <3>6, <3>8
    <3>13. \A i \in 1 .. Len(in) - last :
             inbox'[c][i].id = in[last + i].id /\ (inbox'[c][i].head => in[last + i].head)
      BY <3>9
    <3> HIDE DEF in, h, c
    <3> QED
      BY <3>8, <3>10, <3>12, <3>13
  <2> QED
    BY <2>1, <2>2
<1>15. \A d \in Conns \ {c} : skipped'[d] = skipped[d]
  BY <1>1, <1>13
<1> HIDE DEF S, req, Beyond, Cut, in, c, h
<1>16. /\ \A i \in 1 .. Len(in) - last : last + i \in DOMAIN in
       /\ in = inbox[c] /\ conn[w] = c
  BY <1>11 DEF in, c
<1> SUFFICES
      /\ conn[w] = c /\ pc[w] = "ingress"
      /\ h \in Heads(c) /\ \A j \in Heads(c) : h <= j
      /\ h <= last /\ last <= Len(inbox[c]) /\ Len(inbox[c]) \in Nat
      /\ inbox' \in [Conns -> Seq(Tokens)]
      /\ \A d \in Conns \ {c} : inbox'[d] = inbox[d] /\ skipped'[d] = skipped[d]
      /\ DOMAIN inbox'[c] = 1 .. Len(inbox[c]) - last
      /\ \A i \in 1 .. Len(inbox[c]) - last :
           /\ last + i \in DOMAIN inbox[c]
           /\ inbox'[c][i].id = inbox[c][last + i].id
           /\ inbox'[c][i].head => inbox[c][last + i].head
      /\ S \subseteq Waiting(c)
      /\ skipped' = [skipped EXCEPT ![c] = @ \cup S]
      /\ \A j \in Heads(c) :
           \/ j = h \/ inbox[c][j].id \in S
           \/ j > last /\ inbox'[c][j - last].head
      /\ ctx' = [ctx EXCEPT ![w] = [NoCtx EXCEPT !.id = inbox[c][h].id, !.req = req]]
      /\ pc' = [pc EXCEPT ![w] = "validate"]
      /\ contexts' = contexts \cup {<<c, inbox[c][h].id>>}
      /\ protocol' \in [Conns -> {"UNKNOWN", "HTTP10", "HTTP11"}]
      /\ UNCHANGED <<sent, bodies, where, fd, wire, kept, conn, digits, ending, shutting_down>>
  BY <1>1, <1>7, <1>10, <1>13, Zenon DEF HeaderTaken
<1> QED
  BY <1>1, <1>2, <1>5, <1>6, <1>8, <1>10, <1>13, <1>14, <1>15, <1>16

-----------------------------------------------------------------------------
(***************************************************************************)
(* What the other steps that write a context do.                           *)
(***************************************************************************)
LEMMA ConnIs ==
  ASSUME Types, Served, NEW w \in Workers, pc[w] # "pop"
  PROVE  conn[w] \in Conns /\ ctx[w] \in Contexts
BY DEF Types, Served

LEMMA NoCtxIs ==
  /\ NoCtx \in Contexts
  /\ \A s \in Nat : LET r == [NoCtx EXCEPT !.status = s] IN r \in Contexts /\ r.id = 0
  /\ \A i \in Nat, q \in Requests :
       LET r == [NoCtx EXCEPT !.id = i, !.req = q]
       IN  r \in Contexts /\ r.id = i /\ r.req = q
BY DEF NoCtx, Contexts

LEMMA IngressFailed ==
  ASSUME Types, Served, NEW w \in Workers, IngressFails(w)
  PROVE  /\ pc[w] = "ingress" /\ conn[w] \in Conns
         /\ \E r \in Contexts : ctx' = [ctx EXCEPT ![w] = r] /\ r.id = 0
         /\ pc' = [pc EXCEPT ![w] = "close"]
         /\ wire' = wire \/ \E m \in Answers : m.id = 0 /\ m.of = conn[w] /\ Write(conn[w], m)
         /\ contexts' = contexts \cup {<<conn[w], 0>>}
         /\ UNCHANGED <<sent, bodies, inbox, where, fd, protocol, skipped, kept, conn, digits,
                        ending, shutting_down>>
<1>1. pc[w] = "ingress" /\ conn[w] \in Conns
  BY ConnIs DEF IngressFails
<1>2. CASE Set(w, NoCtx, "close") /\ UNCHANGED wire
  <2>1. NoCtx \in Contexts /\ NoCtx.id = 0
    BY NoCtxIs DEF NoCtx
  <2> QED
    BY <1>1, <1>2, <2>1 DEF IngressFails, Set, client, connection
<1>3. ASSUME NEW s \in Refusals,
             Set(w, [NoCtx EXCEPT !.status = s], "close"),
             Write(conn[w], Response(conn[w], [NoCtx EXCEPT !.status = s], TRUE, 0, {}))
      PROVE  /\ \E r \in Contexts : ctx' = [ctx EXCEPT ![w] = r] /\ r.id = 0
             /\ pc' = [pc EXCEPT ![w] = "close"]
             /\ \E m \in Answers : m.id = 0 /\ m.of = conn[w] /\ Write(conn[w], m)
  <2> DEFINE r == [NoCtx EXCEPT !.status = s]
             m == Response(conn[w], r, TRUE, 0, {})
  <2>1. s \in Nat
    BY RequestAssumption
  <2>2. r \in Contexts /\ r.id = 0
    BY <2>1, NoCtxIs
  <2>3. ctx' = [ctx EXCEPT ![w] = r] /\ pc' = [pc EXCEPT ![w] = "close"] /\ Write(conn[w], m)
    BY <1>3 DEF Set
  <2> HIDE DEF r
  <2>4. m \in Answers /\ m.id = 0 /\ m.of = conn[w]
    BY <1>1, <2>2 DEF Response, Contexts, Answers
  <2> HIDE DEF m
  <2> QED
    BY <2>2, <2>3, <2>4
<1>4. UNCHANGED <<sent, bodies, inbox, where, fd, protocol, skipped, kept, conn, digits,
                  ending, shutting_down>>
      /\ contexts' = contexts \cup {<<conn[w], 0>>}
  BY DEF IngressFails, client, connection
<1>5. /\ \E r \in Contexts : ctx' = [ctx EXCEPT ![w] = r] /\ r.id = 0
      /\ pc' = [pc EXCEPT ![w] = "close"]
      /\ wire' = wire \/ \E m \in Answers : m.id = 0 /\ m.of = conn[w] /\ Write(conn[w], m)
  <2>1. CASE Set(w, NoCtx, "close") /\ UNCHANGED wire
    <3>1. NoCtx \in Contexts /\ NoCtx.id = 0
      BY NoCtxIs DEF NoCtx
    <3> QED
      BY <2>1, <3>1 DEF Set
  <2> QED
    BY <1>3, <2>1 DEF IngressFails
<1> QED
  BY <1>1, <1>4, <1>5

(* After a verdict of 200 the size of the file is known.                   *)
LEMMA SizeKnown ==
  ASSUME NEW c \in Conns, NEW req \in Requests, Verdict(c, req) = 200,
         req.method \in {"GET", "HEAD"}, req.path \notin Missing
  PROVE  Size[req.path] \in Nat
<1>1. req # Garbled
  BY DEF Verdict, Garbled
<1>2. PICK d \in Conns : req \in Menu[d]
  BY <1>1 DEF Requests
<1>3. req.path \notin Traversal
  BY DEF Verdict
<1> QED
  BY <1>2, <1>3, RequestAssumption

LEMMA Handled ==
  ASSUME Types, Served, NEW w \in Workers, Handle(w)
  PROVE  /\ pc[w] = "validate" /\ conn[w] \in Conns
         /\ \E r \in Contexts :
              /\ ctx' = [ctx EXCEPT ![w] = r]
              /\ r.id = ctx[w].id /\ r.req = ctx[w].req /\ r.failed = ctx[w].failed
              /\ \/ /\ pc' = [pc EXCEPT ![w] = "format"]
                    /\ \/ r.announce = "close"
                       \/ /\ r.announce = "keep-alive" /\ r.status = 200
                          /\ r.size = OwnSize(r.req)
                 \/ pc' = [pc EXCEPT ![w] = "send"] /\ r.req.method = "PUT"
         /\ UNCHANGED <<sent, bodies, inbox, where, fd, protocol, wire, skipped, kept, conn,
                        digits, contexts, ending, shutting_down>>
<1> DEFINE s == ctx[w]
           v == Verdict(conn[w], s.req)
           file == s.req.method \in {"GET", "HEAD"}
           status == IF v = 200 /\ file /\ s.req.path \in Missing THEN 404 ELSE v
           refused == [s EXCEPT !.status = status, !.announce = "close", !.size = ErrorSize,
                                !.body = TRUE]
           put == [s EXCEPT !.status = 200]
           size == IF file THEN Size[s.req.path] ELSE 0
           served == [s EXCEPT !.status = 200, !.announce = "keep-alive", !.size = size]
<1>1. pc[w] = "validate" /\ conn[w] \in Conns /\ s \in Contexts /\ s.req \in Requests
  BY ConnIs DEF Handle, Types, Answering
<1>2. /\ \/ status # 200 /\ Set(w, refused, "format")
         \/ status = 200 /\ s.req.method = "PUT" /\ Set(w, put, "send")
         \/ status = 200 /\ Set(w, served, "format")
      /\ UNCHANGED <<sent, bodies, inbox, where, fd, protocol, wire, skipped, kept, conn,
                     digits, contexts, ending, shutting_down>>
  BY DEF Handle, client, connection, history
<1>3. status \in Nat
  BY DEF Verdict
<1>4. /\ refused \in Contexts /\ refused.id = s.id /\ refused.req = s.req
      /\ refused.announce = "close" /\ refused.failed = s.failed
  <2>1. ErrorSize \in Nat
    BY RequestAssumption
  <2> HIDE DEF s, status
  <2> QED
    BY <1>1, <1>3, <2>1 DEF Contexts
<1>5. put \in Contexts /\ put.id = s.id /\ put.req = s.req /\ put.failed = s.failed
  <2> HIDE DEF s
  <2> QED
    BY <1>1 DEF Contexts
<1>6. ASSUME status = 200
      PROVE  /\ served \in Contexts /\ served.id = s.id /\ served.req = s.req
             /\ served.announce = "keep-alive" /\ served.status = 200
             /\ served.size = OwnSize(served.req) /\ served.failed = s.failed
  <2>1. size \in Nat
    <3>1. file => v = 200 /\ s.req.path \notin Missing
      BY <1>6
    <3> HIDE DEF s
    <3> QED
      BY <1>1, <3>1, SizeKnown
  <2>2. size = OwnSize(s.req)
    BY DEF OwnSize
  <2> HIDE DEF s, size, file
  <2>3. served \in Contexts
    <3> HIDE DEF status
    <3>1. s \in Contexts
      BY <1>1
    <3>2. ASSUME NEW t \in Contexts, NEW n \in Nat
          PROVE  [t EXCEPT !.status = 200, !.announce = "keep-alive", !.size = n] \in Contexts
      <4> DEFINE t1 == [t EXCEPT !.status = 200]
                 t2 == [t1 EXCEPT !.announce = "keep-alive"]
                 t3 == [t2 EXCEPT !.size = n]
      <4>1. t1 \in Contexts
        BY ONLY <3>2 DEF Contexts
      <4> HIDE DEF t1
      <4>2. t2 \in Contexts
        BY ONLY <4>1 DEF Contexts
      <4> HIDE DEF t2
      <4>3. t3 \in Contexts
        BY ONLY <3>2, <4>2 DEF Contexts
      <4> HIDE DEF t3
      <4>4. t3 = [t EXCEPT !.status = 200, !.announce = "keep-alive", !.size = n]
        BY DEF t1, t2, t3
      <4> QED
        BY <4>3, <4>4
    <3> QED
      BY <2>1, <3>1, <3>2
  <2>4. /\ served.id = s.id /\ served.req = s.req /\ served.failed = s.failed
        /\ served.announce = "keep-alive" /\ served.status = 200 /\ served.size = size
    BY <1>1 DEF Contexts
  <2> QED
    BY <2>2, <2>3, <2>4
<1>7. CASE status # 200 /\ Set(w, refused, "format")
  <2> HIDE DEF s, refused, status
  <2>1. ctx' = [ctx EXCEPT ![w] = refused] /\ pc' = [pc EXCEPT ![w] = "format"]
    BY <1>7 DEF Set
  <2> QED
    BY <1>1, <1>2, <1>4, <2>1 DEF s
<1>8. CASE status = 200 /\ s.req.method = "PUT" /\ Set(w, put, "send")
  <2> HIDE DEF s, put, status
  <2>1. ctx' = [ctx EXCEPT ![w] = put] /\ pc' = [pc EXCEPT ![w] = "send"]
    BY <1>8 DEF Set
  <2> QED
    BY <1>1, <1>2, <1>5, <1>8, <2>1 DEF s
<1>9. CASE status = 200 /\ Set(w, served, "format")
  <2> HIDE DEF s, served, status, file
  <2>1. ctx' = [ctx EXCEPT ![w] = served] /\ pc' = [pc EXCEPT ![w] = "format"]
    BY <1>9 DEF Set
  <2> QED
    BY <1>1, <1>2, <1>6, <1>9, <2>1 DEF s
<1> QED
  BY <1>2, <1>7, <1>8, <1>9

(* A number is written over what others have not yet copied; nothing else  *)
(* of them changes.                                                        *)
SameWork(v) ==
  /\ ctx'[v].id = ctx[v].id /\ ctx'[v].req = ctx[v].req /\ ctx'[v].status = ctx[v].status
  /\ ctx'[v].announce = ctx[v].announce /\ ctx'[v].size = ctx[v].size
  /\ ctx'[v].declared = ctx[v].declared /\ ctx'[v].body = ctx[v].body
  /\ ctx'[v].failed = ctx[v].failed

LEMMA Formatted ==
  ASSUME Types, Served, NEW w \in Workers, Format(w)
  PROVE  /\ pc[w] = "format" /\ conn[w] \in Conns /\ pc' = [pc EXCEPT ![w] = "copy"]
         /\ digits' = AsInt(ctx[w].size) /\ ctx[w].size \in Nat
         /\ ctx' \in [Workers -> Contexts]
         /\ \A v \in Workers :
              /\ SameWork(v)
              /\ IF v # w /\ pc[v] = "copy" THEN "raced" \in ctx'[v].flaws
                 ELSE ctx'[v] = ctx[v]
         /\ UNCHANGED <<sent, bodies, inbox, where, fd, protocol, wire, skipped, kept, conn,
                        contexts, ending, shutting_down>>
<1>1. pc[w] = "format" /\ conn[w] \in Conns /\ ctx[w] \in Contexts
  BY ConnIs DEF Format
<1>2. ASSUME NEW r \in Contexts
      PROVE  LET f == [r EXCEPT !.flaws = @ \cup {"raced"}]
             IN  /\ f \in Contexts /\ f.id = r.id /\ f.req = r.req /\ f.status = r.status
                 /\ f.announce = r.announce /\ f.size = r.size /\ f.declared = r.declared
                 /\ f.body = r.body /\ f.failed = r.failed /\ "raced" \in f.flaws
  BY DEF Contexts
<1>3. \A v \in Workers :
        ctx'[v] = IF v # w /\ pc[v] = "copy" THEN [ctx[v] EXCEPT !.flaws = @ \cup {"raced"}]
                  ELSE ctx[v]
  BY DEF Format
<1>4. \A v \in Workers : ctx[v] \in Contexts
  BY DEF Types
<1>5. ctx' = [v \in Workers |-> ctx'[v]]
  BY DEF Format
<1>6. ASSUME NEW v \in Workers
      PROVE  /\ ctx'[v] \in Contexts /\ SameWork(v)
             /\ IF v # w /\ pc[v] = "copy" THEN "raced" \in ctx'[v].flaws
                ELSE ctx'[v] = ctx[v]
  <2>1. CASE v # w /\ pc[v] = "copy"
    <3> DEFINE f == [ctx[v] EXCEPT !.flaws = @ \cup {"raced"}]
    <3>1. ctx'[v] = f
      BY <1>3, <2>1
    <3>2. /\ f \in Contexts /\ f.id = ctx[v].id /\ f.req = ctx[v].req /\ f.status = ctx[v].status
          /\ f.announce = ctx[v].announce /\ f.size = ctx[v].size
          /\ f.declared = ctx[v].declared /\ f.body = ctx[v].body
          /\ f.failed = ctx[v].failed /\ "raced" \in f.flaws
      BY <1>2, <1>4
    <3> HIDE DEF f
    <3> QED
      BY <2>1, <3>1, <3>2 DEF SameWork
  <2>2. CASE ~(v # w /\ pc[v] = "copy")
    BY <1>3, <1>4, <2>2 DEF SameWork
  <2> QED
    BY <2>1, <2>2
<1>7. ctx' \in [Workers -> Contexts]
  <2> DEFINE g == [v \in Workers |-> ctx'[v]]
  <2>1. g \in [Workers -> Contexts]
    BY <1>6
  <2>2. ctx' = g
    BY <1>5
  <2> HIDE DEF g
  <2> QED
    BY <2>1, <2>2
<1>8. /\ pc' = [pc EXCEPT ![w] = "copy"] /\ digits' = AsInt(ctx[w].size)
      /\ UNCHANGED <<sent, bodies, inbox, where, fd, protocol, wire, skipped, kept, conn,
                     contexts, ending, shutting_down>>
  BY DEF Format, client, connection, history
<1>9. ctx[w].size \in Nat
  BY <1>1 DEF Contexts
<1> QED
  BY <1>1, <1>6, <1>7, <1>8, <1>9

LEMMA Copied ==
  ASSUME Types, Served, NEW w \in Workers, Copy(w)
  PROVE  /\ pc[w] = "copy" /\ conn[w] \in Conns
         /\ \E r \in Contexts :
              /\ ctx' = [ctx EXCEPT ![w] = r]
              /\ r.id = ctx[w].id /\ r.req = ctx[w].req /\ r.status = ctx[w].status
              /\ r.announce = ctx[w].announce /\ r.size = ctx[w].size
              /\ r.failed = ctx[w].failed
              /\ r.flaws = {} =>
                   /\ ctx[w].flaws = {} /\ r.declared = digits
                   /\ r.status = 200 /\ r.req.method = "GET" /\ r.size > 0 => r.body
         /\ pc' = [pc EXCEPT ![w] = "send"]
         /\ UNCHANGED <<sent, bodies, inbox, where, fd, protocol, wire, skipped, kept, conn,
                        digits, contexts, ending, shutting_down>>
<1> DEFINE s == ctx[w]
           maps == s.status = 200 /\ s.req.method = "GET" /\ s.size > 0
           can == maps /\ s.req.path \notin Directories
           Flaws(torn, mapped) ==
             (IF torn THEN {"raced"} ELSE {})
               \cup (IF maps /\ ~mapped THEN {"unmapped"} ELSE {})
<1>1. pc[w] = "copy" /\ conn[w] \in Conns /\ s \in Contexts
  BY ConnIs DEF Copy
<1>2. PICK mapped \in {can} \cup {FALSE : x \in Faults \cap {"mmap"}},
           torn \in {FALSE} \cup {TRUE : v \in {v \in Workers \ {w} : pc[v] = "format"}} :
        Set(w, [s EXCEPT !.declared = IF torn THEN Torn ELSE digits, !.body = @ \/ mapped,
                         !.flaws = @ \cup Flaws(torn, mapped)], "send")
  BY DEF Copy
<1> DEFINE n == IF torn THEN Torn ELSE digits
           b == s.body \/ mapped
           f == s.flaws \cup Flaws(torn, mapped)
           r == [s EXCEPT !.declared = n, !.body = b, !.flaws = f]
<1>3. n \in Int \cup {None, Torn}
  BY DEF Types
<1>4. b \in BOOLEAN
  BY Zenon
<1>5. Flaws(torn, mapped) \in SUBSET {"raced", "unmapped"}
  <2> HIDE DEF maps
  <2> QED
    OBVIOUS
<1>6. f \in SUBSET {"raced", "unmapped"}
  <2>1. s.flaws \in SUBSET {"raced", "unmapped"}
    BY <1>1 DEF Contexts
  <2> HIDE DEF s, Flaws
  <2> QED
    BY <1>5, <2>1
<1>7. f = {} => s.flaws = {} /\ n = digits /\ (maps => b)
  <2>1. f = {} => s.flaws = {} /\ Flaws(torn, mapped) = {}
    <3> HIDE DEF s, Flaws
    <3> QED
      OBVIOUS
  <2>2. Flaws(torn, mapped) = {} => "raced" \notin Flaws(torn, mapped)
                                    /\ "unmapped" \notin Flaws(torn, mapped)
    <3> HIDE DEF Flaws
    <3> QED
      OBVIOUS
  <2>3. ("raced" \notin Flaws(torn, mapped) => ~torn)
        /\ ("unmapped" \notin Flaws(torn, mapped) => (maps => mapped))
    <3> HIDE DEF maps
    <3> QED
      OBVIOUS
  <2>4. (~torn => n = digits) /\ (mapped => b)
    OBVIOUS
  <2> HIDE DEF f, Flaws, s, n, b, maps
  <2> QED
    BY <2>1, <2>2, <2>3, <2>4
<1>8. r = [s EXCEPT !.declared = IF torn THEN Torn ELSE digits, !.body = @ \/ mapped,
                    !.flaws = @ \cup Flaws(torn, mapped)]
  <2> HIDE DEF s, Flaws
  <2> QED
    BY <1>1 DEF Contexts
<1>9. /\ r \in Contexts /\ r.id = s.id /\ r.req = s.req /\ r.status = s.status
      /\ r.announce = s.announce /\ r.size = s.size /\ r.declared = n /\ r.body = b
      /\ r.flaws = f /\ r.failed = s.failed
  <2> HIDE DEF s, b, n, f
  <2> QED
    BY <1>1, <1>3, <1>4, <1>6 DEF Contexts
<1>10. ctx' = [ctx EXCEPT ![w] = r] /\ pc' = [pc EXCEPT ![w] = "send"]
  <2>1. Set(w, r, "send")
    BY <1>2, <1>8
  <2> HIDE DEF r
  <2> QED
    BY <2>1 DEF Set
<1>11. UNCHANGED <<sent, bodies, inbox, where, fd, protocol, wire, skipped, kept, conn, digits,
                   contexts, ending, shutting_down>>
  BY DEF Copy, client, connection, history
<1>12. r.flaws = {} =>
         /\ s.flaws = {} /\ r.declared = digits
         /\ r.status = 200 /\ r.req.method = "GET" /\ r.size > 0 => r.body
  <2>1. maps <=> s.status = 200 /\ s.req.method = "GET" /\ s.size > 0
    OBVIOUS
  <2> HIDE DEF r, s, n, b, f, maps
  <2> QED
    BY <1>7, <1>9, <2>1
<1> HIDE DEF r, n, b, f
<1> QED
  BY <1>1, <1>9, <1>10, <1>11, <1>12

(* A response without a flaw is what was worked out for it.                *)
Fits(m, r) ==
  m.flaws = {} =>
    /\ r.flaws = {} /\ m.whole /\ m.declared = r.declared
    /\ m.body = BodySize(r)

LEMMA Sent ==
  ASSUME Types, Served, NEW w \in Workers, Send(w)
  PROVE  /\ pc[w] = "send" /\ conn[w] \in Conns
         /\ \E r \in Contexts :
              /\ ctx' = [ctx EXCEPT ![w] = r]
              /\ r.id = ctx[w].id /\ r.req = ctx[w].req /\ r.announce = ctx[w].announce
              /\ \/ r.failed /\ wire' = wire
                 \/ \E m \in Answers :
                      /\ Write(conn[w], m)
                      /\ m.of = conn[w] /\ m.id = ctx[w].id /\ m.req = ctx[w].req
                      /\ m.announce = ctx[w].announce
                      /\ r.failed \/ Fits(m, ctx[w])
         /\ pc' = [pc EXCEPT ![w] = "finish"]
         /\ UNCHANGED <<sent, bodies, inbox, where, fd, protocol, skipped, kept, conn, digits,
                        contexts, ending, shutting_down>>
<1> DEFINE s == ctx[w]
<1>1. pc[w] = "send" /\ conn[w] \in Conns /\ s \in Contexts
  BY ConnIs DEF Send
<1>2. PICK head \in Writes(1), body \in Writes(BodySize(s)) :
        /\ IF head = "failed" THEN UNCHANGED wire
           ELSE Write(conn[w], Response(conn[w], s, head = "whole",
                                        IF body = "whole" THEN BodySize(s) ELSE 0,
                                        s.flaws \cup (IF "cut" \in {head, body} THEN {"short"}
                                                      ELSE {})))
        /\ Set(w, [s EXCEPT !.failed = "failed" \in {head, body}], "finish")
  BY DEF Send
<1> DEFINE n == IF body = "whole" THEN BodySize(s) ELSE 0
           f == s.flaws \cup (IF "cut" \in {head, body} THEN {"short"} ELSE {})
           failed == "failed" \in {head, body}
           whole == head = "whole"
           r == [s EXCEPT !.failed = failed]
           m == Response(conn[w], s, whole, n, f)
<1>3. /\ s.size \in Nat /\ BodySize(s) \in Nat /\ n \in Nat
      /\ head \in {"whole", "cut", "failed"} /\ body \in {"whole", "cut", "failed"}
  <2>1. s.size \in Nat
    BY <1>1 DEF Contexts
  <2>2. BodySize(s) \in Nat
    BY <2>1 DEF BodySize
  <2> HIDE DEF s
  <2> QED
    BY <2>1, <2>2 DEF Writes
<1>4. r \in Contexts /\ r.id = s.id /\ r.req = s.req /\ r.announce = s.announce /\ r.failed = failed
  <2>1. failed \in BOOLEAN
    OBVIOUS
  <2> HIDE DEF s, failed
  <2> QED
    BY <1>1, <2>1 DEF Contexts
<1>5. /\ m.of = conn[w] /\ m.id = s.id /\ m.req = s.req /\ m.announce = s.announce
      /\ m.declared = s.declared /\ m.body = n /\ m.flaws = f /\ m.whole = whole
  <2> HIDE DEF s, n, f, whole
  <2> QED
    BY DEF Response
<1>6. m \in Answers
  <2>1. f \in SUBSET {"raced", "unmapped", "short"}
    <3>1. s.flaws \in SUBSET {"raced", "unmapped"}
      BY <1>1 DEF Contexts
    <3> HIDE DEF s
    <3> QED
      BY <3>1
  <2>2. whole \in BOOLEAN
    OBVIOUS
  <2> HIDE DEF s, f, n, whole
  <2> QED
    BY <1>1, <1>3, <2>1, <2>2 DEF Response, Contexts, Answers
<1>7. failed \/ Fits(m, s)
  <2> SUFFICES ASSUME ~failed, f = {}
               PROVE  s.flaws = {} /\ whole /\ n = BodySize(s)
    <3> HIDE DEF m, f, n, whole, s, failed
    <3> QED
      BY <1>5 DEF Fits
  <2>1. "short" \notin f /\ s.flaws = {}
    <3> HIDE DEF s
    <3> QED
      OBVIOUS
  <2>2. "cut" \notin {head, body}
    BY <2>1
  <2> QED
    BY <1>3, <2>1, <2>2
<1>8. /\ ctx' = [ctx EXCEPT ![w] = r] /\ pc' = [pc EXCEPT ![w] = "finish"]
      /\ (failed /\ wire' = wire) \/ Write(conn[w], m)
  <2>1. Set(w, r, "finish") /\ (IF head = "failed" THEN UNCHANGED wire ELSE Write(conn[w], m))
    BY <1>2
  <2>2. head = "failed" => failed
    OBVIOUS
  <2> HIDE DEF r, m, failed
  <2> QED
    BY <2>1, <2>2 DEF Set
<1>9. UNCHANGED <<sent, bodies, inbox, where, fd, protocol, skipped, kept, conn, digits,
                  contexts, ending, shutting_down>>
  BY DEF Send, client, connection
<1> HIDE DEF r, m, failed
<1> QED
  BY <1>1, <1>4, <1>5, <1>6, <1>7, <1>8, <1>9

(* A client sends: one more token, at the end; with a number if it has an  *)
(* end mark.                                                               *)
Sends(c) ==
  \/ \E req \in Menu[c] : SendRequest(c, req)
  \/ \E text \in Bodies[c] : SendBody(c, text)

LEMMA ArrivedFrom ==
  ASSUME Types, NEW c \in Conns, Sends(c)
  PROVE  \E t \in Tokens :
           /\ Open(c) /\ inbox' = [inbox EXCEPT ![c] = Append(@, t)]
           /\ sent[c] \in Nat /\ sent[c] < MaxSent[c] /\ MaxSent[c] \in Nat
           /\ \/ ~t.head /\ sent' = sent /\ bodies' = bodies
              \/ /\ t.head /\ t.id = sent[c] + 1 /\ sent' = [sent EXCEPT ![c] = @ + 1]
                 /\ bodies' = bodies \/ bodies' = [bodies EXCEPT ![c] = @ \cup {sent[c] + 1}]
           /\ UNCHANGED <<where, fd, protocol, wire, skipped, kept, pc, conn, ctx, digits,
                          contexts, ending, shutting_down>>
<1>1. sent[c] \in Nat /\ MaxSent[c] \in Nat /\ sent \in [Conns -> Nat]
  BY RequestAssumption DEF Types
<1>2. ASSUME NEW head \in BOOLEAN, NEW req \in Requests, Arrives(c, head, req)
      PROVE  LET t == [head |-> head, id |-> sent'[c], req |-> req]
             IN  /\ t \in Tokens /\ t.head = head /\ t.id = sent'[c]
                 /\ Open(c) /\ inbox' = [inbox EXCEPT ![c] = Append(@, t)] /\ sent[c] < MaxSent[c]
                 /\ IF head THEN sent' = [sent EXCEPT ![c] = @ + 1] /\ sent'[c] = sent[c] + 1
                    ELSE sent' = sent
                 /\ UNCHANGED <<where, fd, protocol, wire, skipped, kept, pc, conn, ctx, digits,
                                contexts, ending, shutting_down>>
  <2>1. /\ Open(c) /\ sent[c] < MaxSent[c]
        /\ inbox' = [inbox EXCEPT ![c] = Append(@, [head |-> head, id |-> sent'[c], req |-> req])]
        /\ sent' = IF head THEN [sent EXCEPT ![c] = @ + 1] ELSE sent
        /\ UNCHANGED <<where, fd, protocol, wire, skipped, kept, pc, conn, ctx, digits,
                       contexts, ending, shutting_down>>
    BY <1>2 DEF Arrives, connection, history, worker
  <2>2. sent'[c] \in Nat /\ (head => sent'[c] = sent[c] + 1)
    BY <1>1, <2>1
  <2>3. [head |-> head, id |-> sent'[c], req |-> req] \in Tokens
    BY <2>2 DEF Tokens
  <2> QED
    BY <2>1, <2>2, <2>3
<1>3. \A req \in Menu[c] : req \in Requests
  BY DEF Requests
<1>4. \A text \in Bodies[c] : text.head \in BOOLEAN /\ text.req \in Requests
  BY RequestAssumption DEF Requests
<1>5. ASSUME NEW req \in Menu[c], SendRequest(c, req)
      PROVE  Arrives(c, TRUE, req) /\ bodies' = bodies
  BY <1>5 DEF SendRequest
<1>6. ASSUME NEW text \in Bodies[c], SendBody(c, text)
      PROVE  /\ Arrives(c, text.head, text.req)
             /\ bodies' = IF text.head THEN [bodies EXCEPT ![c] = @ \cup {sent'[c]}] ELSE bodies
  BY <1>6 DEF SendBody
<1>7. PICK head \in BOOLEAN, req \in Requests :
        /\ Arrives(c, head, req)
        /\ bodies' = bodies \/ (head /\ bodies' = [bodies EXCEPT ![c] = @ \cup {sent'[c]}])
  BY <1>3, <1>4, <1>5, <1>6 DEF Sends
<1> DEFINE t == [head |-> head, id |-> sent'[c], req |-> req]
<1>8. /\ t \in Tokens /\ t.head = head /\ t.id = sent'[c]
      /\ Open(c) /\ inbox' = [inbox EXCEPT ![c] = Append(@, t)] /\ sent[c] < MaxSent[c]
      /\ IF head THEN sent' = [sent EXCEPT ![c] = @ + 1] /\ sent'[c] = sent[c] + 1
         ELSE sent' = sent
      /\ UNCHANGED <<where, fd, protocol, wire, skipped, kept, pc, conn, ctx, digits,
                     contexts, ending, shutting_down>>
  BY <1>2, <1>7
<1> HIDE DEF t
<1> QED
  BY <1>1, <1>7, <1>8

-----------------------------------------------------------------------------
(***************************************************************************)
(* Types.                                                                  *)
(***************************************************************************)
Pcs == Serving \cup Closing \cup {"pop"}

LEMMA WriteTyped ==
  ASSUME Types, NEW c \in Conns, NEW m \in Answers \cup Alerts, Write(c, m)
  PROVE  wire' \in [Conns -> Seq(Answers \cup Alerts)]
<1>1. wire \in [Conns -> Seq(Answers \cup Alerts)]
  BY DEF Types
<1>2. ASSUME NEW d \in Conns
      PROVE  (IF Open(d) /\ fd[d] = fd[c] THEN Append(wire[d], m) ELSE wire[d])
               \in Seq(Answers \cup Alerts)
  BY <1>1
<1> QED
  BY <1>2 DEF Write

(* SSL_shutdown changes no responses.                                      *)
LEMMA ShutdownWrites ==
  ASSUME Types, NEW c \in Conns, Shutdown(c)
  PROVE  /\ Quiet
         /\ wire' \in [Conns -> Seq(Answers \cup Alerts)]
         /\ wire' = wire \/ \E m \in Alerts : c \in TlsConns /\ m.of = c /\ Write(c, m)
<1> DEFINE m == [of |-> c, id |-> 0, alert |-> TRUE]
<1>1. m \in Alerts /\ m.id = 0 /\ m.of = c
  BY DEF Alerts
<1>2. wire' = wire \/ (c \in TlsConns /\ Write(c, m))
  BY DEF Shutdown, UsesTls
<1> HIDE DEF m
<1>3. CASE wire' = wire
  BY <1>3, QuietSame DEF Types
<1>4. CASE c \in TlsConns /\ Write(c, m)
  BY <1>1, <1>4, QuietWrite
<1> QED
  BY <1>1, <1>2, <1>3, <1>4

(* A worker changes its own context and where it is.                       *)
LEMMA WorkerTyped ==
  ASSUME Types, NEW w \in Workers, NEW r \in Contexts, NEW p \in Pcs,
         ctx' = [ctx EXCEPT ![w] = r], pc' = [pc EXCEPT ![w] = p],
         p \in Answering \cup {"finish"} => r.req \in Requests
  PROVE  /\ pc' \in [Workers -> Pcs] /\ ctx' \in [Workers -> Contexts]
         /\ \A v \in Workers : pc'[v] \in Answering \cup {"finish"} => ctx'[v].req \in Requests
BY DEF Types, Pcs

LEMMA PcTyped ==
  ASSUME Types, NEW w \in Workers, NEW p \in Pcs,
         ctx' = ctx, pc' = [pc EXCEPT ![w] = p],
         p \in Answering \cup {"finish"} => pc[w] \in Answering \cup {"finish"}
  PROVE  /\ pc' \in [Workers -> Pcs] /\ ctx' \in [Workers -> Contexts]
         /\ \A v \in Workers : pc'[v] \in Answering \cup {"finish"} => ctx'[v].req \in Requests
BY DEF Types, Pcs

LEMMA AsIntInt ==
  ASSUME NEW n \in Nat
  PROVE  AsInt(n) \in Int
BY RequestAssumption DEF AsInt

LEMMA NoneTyped ==
  << >> \in Seq(Tokens) /\ << >> \in Seq(Answers \cup Alerts)
OBVIOUS

LEMMA TypesInit ==
  ASSUME Init
  PROVE  Types
<1>1. \A c \in Conns : MaxSent[c] \in Nat
  BY RequestAssumption
<1>2. ctx \in [Workers -> Contexts]
  BY NoCtxIs DEF Init
<1>3. /\ sent \in [Conns -> Nat] /\ (\A c \in Conns : sent[c] <= MaxSent[c])
      /\ bodies \in [Conns -> SUBSET Nat] /\ (\A c \in Conns : bodies[c] \subseteq 1 .. sent[c])
      /\ inbox \in [Conns -> Seq(Tokens)] /\ wire \in [Conns -> Seq(Answers \cup Alerts)]
  BY <1>1, NoneTyped DEF Init
<1>4. /\ where \in [Conns -> {"new", "queued", "served", "kept", "closed"}]
      /\ fd \in [Conns -> Fds \cup {None}]
      /\ protocol \in [Conns -> {"UNKNOWN", "HTTP10", "HTTP11"}]
      /\ skipped \in [Conns -> SUBSET Nat] /\ kept \in [Conns -> SUBSET Nat]
  BY DEF Init
<1>5. /\ pc \in [Workers -> Serving \cup Closing \cup {"pop"}]
      /\ conn \in [Workers -> Conns \cup {None}]
      /\ digits \in Int \cup {None} /\ ending \in Conns \cup {None} /\ shutting_down \in BOOLEAN
      /\ \A w \in Workers : pc[w] \notin Answering \cup {"finish"}
  BY DEF Init, Answering
<1> QED
  BY <1>2, <1>3, <1>4, <1>5 DEF Types

LEMMA TypesStep ==
  ASSUME Types, Served, [Next]_vars
  PROVE  Types'
<1> USE DEF Pcs
<1>1. ASSUME NEW c \in Conns, Accept(c)
      PROVE  Types'
  <2> DEFINE free == Fds \ {fd[d] : d \in {x \in Conns : Open(x)}}
  <2>1. free # {} /\ fd' = [fd EXCEPT ![c] = Min(free)]
    BY <1>1 DEF Accept
  <2>2. free \in SUBSET Nat /\ free \subseteq Fds
    BY RequestAssumption
  <2>3. Min(free) \in Fds
    <3> HIDE DEF free
    <3> QED
      BY <2>1, <2>2, LeastIs
  <2> QED
    BY <1>1, <2>1, <2>3 DEF Accept, Types, client, history, worker
<1>2. ASSUME NEW c \in Conns, WaitRoom(c)
      PROVE  Types'
  BY <1>2 DEF WaitRoom, Types, client, history, worker
<1>3. ASSUME NEW c \in Conns, Sends(c)
      PROVE  Types'
  <2>1. PICK t \in Tokens :
          /\ inbox' = [inbox EXCEPT ![c] = Append(@, t)]
          /\ sent[c] \in Nat /\ sent[c] < MaxSent[c] /\ MaxSent[c] \in Nat
          /\ \/ sent' = sent /\ bodies' = bodies
             \/ /\ sent' = [sent EXCEPT ![c] = @ + 1]
                /\ bodies' = bodies \/ bodies' = [bodies EXCEPT ![c] = @ \cup {sent[c] + 1}]
          /\ UNCHANGED <<where, fd, protocol, wire, skipped, kept, pc, conn, ctx, digits,
                         ending, shutting_down>>
    BY <1>3, ArrivedFrom
  <2>2. inbox' \in [Conns -> Seq(Tokens)]
    BY <2>1 DEF Types
  <2>3. sent' \in [Conns -> Nat] /\ (\A d \in Conns : sent'[d] <= MaxSent[d])
    <3>1. sent \in [Conns -> Nat] /\ (\A d \in Conns : sent[d] <= MaxSent[d])
      BY DEF Types
    <3>2. sent' = sent \/ sent' = [sent EXCEPT ![c] = @ + 1]
      BY <2>1
    <3>3. sent[c] \in Nat /\ sent[c] + 1 <= MaxSent[c]
      BY <2>1
    <3> QED
      BY <3>1, <3>2, <3>3
  <2>4. bodies' \in [Conns -> SUBSET Nat]
    <3>1. bodies \in [Conns -> SUBSET Nat] /\ sent[c] + 1 \in Nat
      BY <2>1 DEF Types
    <3>2. bodies' = bodies \/ bodies' = [bodies EXCEPT ![c] = @ \cup {sent[c] + 1}]
      BY <2>1
    <3> QED
      BY <3>1, <3>2
  <2>5. ASSUME NEW d \in Conns
        PROVE  bodies'[d] \subseteq 1 .. sent'[d]
    <3>1. /\ bodies[d] \subseteq 1 .. sent[d] /\ sent[d] \in Nat
          /\ sent \in [Conns -> Nat] /\ bodies \in [Conns -> SUBSET Nat]
      BY DEF Types
    <3>2. /\ sent'[d] = sent[d] \/ (d = c /\ sent'[d] = sent[d] + 1)
          /\ bodies'[d] = bodies[d]
             \/ (d = c /\ bodies'[d] = bodies[d] \cup {sent[d] + 1} /\ sent'[d] = sent[d] + 1)
      BY <2>1, <3>1
    <3> QED
      BY <3>1, <3>2
  <2> QED
    BY <2>1, <2>2, <2>3, <2>4, <2>5 DEF Types
<1>4. CASE SigTerm
  BY <1>4 DEF SigTerm, Types, client, connection, history, worker
<1>5. CASE UNCHANGED vars
  BY <1>5 DEF vars, Types, client, connection, history, worker
<1>6. ASSUME NEW w \in Workers, NEW c \in Conns, Pop(w, c)
      PROVE  Types'
  <2>1. /\ pc' \in [Workers -> Pcs] /\ ctx' \in [Workers -> Contexts]
        /\ \A v \in Workers : pc'[v] \in Answering \cup {"finish"} => ctx'[v].req \in Requests
    <3>1. "ingress" \in Pcs /\ "ingress" \notin Answering \cup {"finish"}
      BY DEF Serving, Answering
    <3>2. ctx' = ctx /\ pc' = [pc EXCEPT ![w] = "ingress"]
      BY <1>6 DEF Pop
    <3> QED
      BY <3>1, <3>2, PcTyped
  <2>2. where' \in [Conns -> {"new", "queued", "served", "kept", "closed"}]
        /\ protocol' \in [Conns -> {"UNKNOWN", "HTTP10", "HTTP11"}]
        /\ conn' \in [Workers -> Conns \cup {None}]
    BY <1>6 DEF Pop, Types
  <2> QED
    BY <1>6, <2>1, <2>2 DEF Pop, Types, client, history
<1>7. ASSUME NEW w \in Workers, IngressFails(w)
      PROVE  Types'
  <2>1. PICK r \in Contexts : ctx' = [ctx EXCEPT ![w] = r]
    BY <1>7, IngressFailed
  <2>2. pc' = [pc EXCEPT ![w] = "close"] /\ "close" \in Pcs /\ conn[w] \in Conns
        /\ "close" \notin Answering \cup {"finish"}
    BY <1>7, IngressFailed DEF Serving, Answering
  <2>3. /\ pc' \in [Workers -> Pcs] /\ ctx' \in [Workers -> Contexts]
        /\ \A v \in Workers : pc'[v] \in Answering \cup {"finish"} => ctx'[v].req \in Requests
    BY <2>1, <2>2, WorkerTyped
  <2>4. wire' \in [Conns -> Seq(Answers \cup Alerts)]
    <3>1. CASE wire' = wire
      BY <3>1 DEF Types
    <3>2. ASSUME NEW m \in Answers, Write(conn[w], m)
          PROVE  wire' \in [Conns -> Seq(Answers \cup Alerts)]
      BY <2>2, <3>2, WriteTyped
    <3> QED
      BY <1>7, <3>1, <3>2, IngressFailed
  <2>5. UNCHANGED <<sent, bodies, inbox, where, fd, protocol, skipped, kept, conn, digits,
                    ending, shutting_down>>
    BY <1>7, IngressFailed
  <2> QED
    BY <2>3, <2>4, <2>5 DEF Types
<1>8. ASSUME NEW w \in Workers, ReadHeader(w)
      PROVE  Types'
  <2>1. PICK c \in Conns, h \in Nat, off \in Nat, S \in SUBSET Nat : HeaderTaken(w, c, h, off, S)
    BY <1>8, HeaderRead
  <2>2. PICK req \in Requests :
          ctx' = [ctx EXCEPT ![w] = [NoCtx EXCEPT !.id = inbox[c][h].id, !.req = req]]
    BY <2>1 DEF HeaderTaken
  <2>3. inbox[c][h].id \in Nat
    BY <2>1, TokenIs DEF HeaderTaken, Heads, Types
  <2> DEFINE r == [NoCtx EXCEPT !.id = inbox[c][h].id, !.req = req]
  <2>4. r \in Contexts /\ r.req \in Requests
    BY <2>3, NoCtxIs
  <2>5. ctx' = [ctx EXCEPT ![w] = r] /\ "validate" \in Pcs
    BY <2>2 DEF Serving
  <2> HIDE DEF r
  <2>6. /\ pc' \in [Workers -> Pcs] /\ ctx' \in [Workers -> Contexts]
        /\ \A v \in Workers : pc'[v] \in Answering \cup {"finish"} => ctx'[v].req \in Requests
    BY <2>1, <2>4, <2>5, WorkerTyped DEF HeaderTaken
  <2>7. skipped' \in [Conns -> SUBSET Nat]
    BY <2>1 DEF HeaderTaken, Types
  <2> QED
    BY <2>1, <2>6, <2>7 DEF HeaderTaken, Types
<1>9. ASSUME NEW w \in Workers, Handle(w) \/ Copy(w)
      PROVE  Types'
  <2>1. PICK r \in Contexts, p \in {"format", "send"} :
          /\ ctx' = [ctx EXCEPT ![w] = r] /\ r.req = ctx[w].req /\ pc' = [pc EXCEPT ![w] = p]
    BY <1>9, Handled, Copied
  <2>2. ctx[w].req \in Requests
    BY <1>9 DEF Handle, Copy, Types, Answering
  <2>3. p \in Pcs
    BY DEF Serving
  <2>4. /\ pc' \in [Workers -> Pcs] /\ ctx' \in [Workers -> Contexts]
        /\ \A v \in Workers : pc'[v] \in Answering \cup {"finish"} => ctx'[v].req \in Requests
    BY <2>1, <2>2, <2>3, WorkerTyped
  <2>5. UNCHANGED <<sent, bodies, inbox, where, fd, protocol, wire, skipped, kept, conn, digits,
                    ending, shutting_down>>
    BY <1>9, Handled, Copied
  <2> QED
    BY <2>4, <2>5 DEF Types
<1>10. ASSUME NEW w \in Workers, Format(w)
       PROVE  Types'
  <2>1. digits' \in Int
    BY <1>10, Formatted, AsIntInt
  <2>2. pc' = [pc EXCEPT ![w] = "copy"] /\ "copy" \in Pcs
    BY <1>10, Formatted DEF Serving
  <2>3. \A v \in Workers : pc'[v] \in Answering \cup {"finish"} => ctx'[v].req \in Requests
    <3>1. pc[w] \in Answering /\ \A v \in Workers : ctx'[v].req = ctx[v].req
      BY <1>10, Formatted DEF SameWork, Answering
    <3> QED
      BY <2>2, <3>1 DEF Types
  <2>4. pc' \in [Workers -> Pcs] /\ ctx' \in [Workers -> Contexts]
    BY <1>10, <2>2, Formatted DEF Types
  <2>5. UNCHANGED <<sent, bodies, inbox, where, fd, protocol, wire, skipped, kept, conn, ending,
                    shutting_down>>
    BY <1>10, Formatted
  <2> QED
    BY <2>1, <2>3, <2>4, <2>5 DEF Types
<1>11. ASSUME NEW w \in Workers, Send(w)
       PROVE  Types'
  <2>1. PICK r \in Contexts :
          /\ ctx' = [ctx EXCEPT ![w] = r] /\ r.req = ctx[w].req
          /\ wire' = wire \/ \E m \in Answers : Write(conn[w], m)
    BY <1>11, Sent
  <2>2. ctx[w].req \in Requests /\ "finish" \in Pcs
    BY <1>11 DEF Send, Types, Answering, Serving
  <2>3. /\ pc' = [pc EXCEPT ![w] = "finish"] /\ conn[w] \in Conns
        /\ UNCHANGED <<sent, bodies, inbox, where, fd, protocol, skipped, kept, conn, digits,
                       ending, shutting_down>>
    BY <1>11, Sent
  <2>4. /\ pc' \in [Workers -> Pcs] /\ ctx' \in [Workers -> Contexts]
        /\ \A v \in Workers : pc'[v] \in Answering \cup {"finish"} => ctx'[v].req \in Requests
    BY <2>1, <2>2, <2>3, WorkerTyped
  <2>5. wire' \in [Conns -> Seq(Answers \cup Alerts)]
    <3>1. CASE wire' = wire
      BY <3>1 DEF Types
    <3>2. ASSUME NEW m \in Answers, Write(conn[w], m)
          PROVE  wire' \in [Conns -> Seq(Answers \cup Alerts)]
      BY <2>3, <3>2, WriteTyped
    <3> QED
      BY <2>1, <3>1, <3>2
  <2> QED
    BY <2>3, <2>4, <2>5 DEF Types
<1>12. ASSUME NEW w \in Workers, Keep(w)
       PROVE  Types'
  <2>1. conn[w] \in Conns /\ ctx[w].id \in Nat /\ "pop" \in Pcs
        /\ "pop" \notin Answering \cup {"finish"}
    BY <1>12, ConnIs DEF Keep, Contexts, Answering
  <2>2. ctx' = [ctx EXCEPT ![w] = NoCtx] /\ pc' = [pc EXCEPT ![w] = "pop"]
        /\ conn' = [conn EXCEPT ![w] = None]
    BY <1>12 DEF Keep, Done, Set
  <2>3. /\ pc' \in [Workers -> Pcs] /\ ctx' \in [Workers -> Contexts]
        /\ \A v \in Workers : pc'[v] \in Answering \cup {"finish"} => ctx'[v].req \in Requests
    BY <2>1, <2>2, NoCtxIs, WorkerTyped
  <2>4. kept' \in [Conns -> SUBSET Nat]
    BY <1>12, <2>1 DEF Keep, Types
  <2> QED
    BY <1>12, <2>2, <2>3, <2>4 DEF Keep, Types, client
<1>13. ASSUME NEW w \in Workers, Drop(w)
       PROVE  Types'
  <2>1. PICK p \in {"close", "closeAndBreak"} : pc' = [pc EXCEPT ![w] = p]
    BY <1>13 DEF Drop
  <2>2. p \in Pcs /\ p \notin Answering \cup {"finish"}
    BY DEF Serving, Answering
  <2>3. /\ pc' \in [Workers -> Pcs] /\ ctx' \in [Workers -> Contexts]
        /\ \A v \in Workers : pc'[v] \in Answering \cup {"finish"} => ctx'[v].req \in Requests
    BY <1>13, <2>1, <2>2, PcTyped DEF Drop
  <2> QED
    BY <1>13, <2>3 DEF Drop, Types, client, connection, history
<1>14. ASSUME NEW w \in Workers, Close(w)
       PROVE  Types'
  <2>1. PICK p \in {"notify", "notifyAndBreak"} : pc' = [pc EXCEPT ![w] = p]
    BY <1>14 DEF Close
  <2>2. p \in Pcs /\ p \notin Answering \cup {"finish"}
    BY DEF Closing, Answering
  <2>3. /\ pc' \in [Workers -> Pcs] /\ ctx' \in [Workers -> Contexts]
        /\ \A v \in Workers : pc'[v] \in Answering \cup {"finish"} => ctx'[v].req \in Requests
    BY <1>14, <2>1, <2>2, PcTyped DEF Close
  <2> QED
    BY <1>14, <2>3, NoneTyped DEF Close, Types, history
<1>15. ASSUME NEW w \in Workers, Notify(w)
       PROVE  Types'
  <2>1. PICK p \in {"release", "exit"} : pc' = [pc EXCEPT ![w] = p]
    BY <1>15 DEF Notify
  <2>2. p \in Pcs /\ p \notin Answering \cup {"finish"}
    BY DEF Closing, Answering
  <2>3. /\ pc' \in [Workers -> Pcs] /\ ctx' \in [Workers -> Contexts]
        /\ \A v \in Workers : pc'[v] \in Answering \cup {"finish"} => ctx'[v].req \in Requests
    BY <1>15, <2>1, <2>2, PcTyped DEF Notify
  <2>4. wire' \in [Conns -> Seq(Answers \cup Alerts)]
    BY <1>15, ConnIs, ShutdownWrites DEF Notify
  <2> QED
    BY <1>15, <2>3, <2>4 DEF Notify, Types, client, connection
<1>16. ASSUME NEW w \in Workers, Release(w)
       PROVE  Types'
  <2>1. ctx' = [ctx EXCEPT ![w] = NoCtx] /\ pc' = [pc EXCEPT ![w] = "pop"]
        /\ conn' = [conn EXCEPT ![w] = None]
    BY <1>16 DEF Release, Done, Set
  <2>2. "pop" \in Pcs /\ "pop" \notin Answering \cup {"finish"}
    BY DEF Answering
  <2>3. /\ pc' \in [Workers -> Pcs] /\ ctx' \in [Workers -> Contexts]
        /\ \A v \in Workers : pc'[v] \in Answering \cup {"finish"} => ctx'[v].req \in Requests
    BY <2>1, <2>2, NoCtxIs, WorkerTyped
  <2> QED
    BY <1>16, <2>1, <2>3 DEF Release, Types, client, connection, history
<1>17. ASSUME NEW c \in Conns, WaitRoomCloses(c)
       PROVE  Types'
  BY <1>17, NoneTyped DEF WaitRoomCloses, Types, history, worker
<1>18. CASE WaitRoomNotifies
  <2>1. ending \in Conns /\ ending' = None
    BY <1>18 DEF WaitRoomNotifies, Types
  <2>2. wire' \in [Conns -> Seq(Answers \cup Alerts)]
    BY <1>18, <2>1, ShutdownWrites DEF WaitRoomNotifies
  <2> QED
    BY <1>18, <2>1, <2>2 DEF WaitRoomNotifies, Types, client, connection, worker
<1> QED
  BY <1>1, <1>2, <1>3, <1>4, <1>5, <1>6, <1>7, <1>8, <1>9, <1>10, <1>11, <1>12, <1>13, <1>14,
     <1>15, <1>16, <1>17, <1>18 DEF Next, WorkerStep, Sends

-----------------------------------------------------------------------------
(***************************************************************************)
(* Who serves a connection, and the descriptor numbers.                    *)
(***************************************************************************)
LEMMA WorkerIs ==
  ASSUME Types, Served, NEW v \in Workers
  PROVE  \/ pc[v] = "pop" /\ conn[v] = None /\ conn[v] \notin Conns
         \/ pc[v] \in Serving /\ conn[v] \in Conns /\ where[conn[v]] = "served"
         \/ pc[v] \in Closing /\ conn[v] \in Conns /\ where[conn[v]] = "closed"
<1>1. pc[v] \in Serving \cup Closing \cup {"pop"} /\ conn[v] \in Conns \cup {None}
  BY DEF Types
<1>2. None \notin Conns
  BY RequestAssumption
<1>3. "pop" \notin Serving \cup Closing
  BY DEF Serving, Closing
<1> QED
  BY <1>1, <1>2, <1>3 DEF Served

(* A worker goes on serving, or goes on closing.                           *)
LEMMA ServedGoesOn ==
  ASSUME Types, Served, NEW w \in Workers, NEW p \in Serving \cup Closing,
         p \in Serving <=> pc[w] \in Serving, pc[w] # "pop",
         pc' = [pc EXCEPT ![w] = p], conn' = conn, where' = where
  PROVE  Served'
<1>1. "pop" \notin Serving \cup Closing /\ Serving \cap Closing = {}
  BY DEF Serving, Closing
<1>2. \A v \in Workers : /\ pc'[v] \in Serving <=> pc[v] \in Serving
                         /\ pc'[v] \in Closing <=> pc[v] \in Closing
                         /\ pc'[v] = "pop" <=> pc[v] = "pop"
  BY <1>1 DEF Types
<1> QED
  BY <1>2 DEF Served

(* A connection nobody serves goes elsewhere, while the workers stay.      *)
LEMMA ServedUnchanged ==
  ASSUME Types, Served, NEW c \in Conns, where[c] \notin {"served", "closed"}, NEW x,
         x # "served", where' = [where EXCEPT ![c] = x], pc' = pc, conn' = conn
  PROVE  Served'
<1>1. \A w \in Workers : conn[w] # c
  BY WorkerIs
<1> QED
  BY <1>1 DEF Types, Served, Serving, Closing

(* A worker is done with a connection that is not served any more.         *)
LEMMA ServedDone ==
  ASSUME Types, Served, NEW w \in Workers, NEW c \in Conns, conn[w] = c, NEW x,
         \/ pc[w] \in Serving /\ x # "served" /\ where' = [where EXCEPT ![c] = x]
         \/ pc[w] \in Closing /\ where' = where,
         pc' = [pc EXCEPT ![w] = "pop"], conn' = [conn EXCEPT ![w] = None]
  PROVE  Served'
<1>1. "pop" \notin Serving \cup Closing /\ Serving \cap Closing = {}
  BY DEF Serving, Closing
<1>2. \A v \in Workers \ {w} : pc'[v] = pc[v] /\ conn'[v] = conn[v]
  BY DEF Types
<1>3. pc'[w] = "pop" /\ conn'[w] = None
  BY DEF Types
<1>4. /\ where' = where \/ where' = [where EXCEPT ![c] = x]
      /\ \A d \in Conns \ {c} : where'[d] = where[d]
      /\ pc[w] \in Serving => where'[c] # "served"
      /\ pc[w] \in Closing => where' = where
  BY <1>1 DEF Types
<1>5. \A v \in Workers \ {w} : pc[v] # "pop" => where'[conn[v]] = where[conn[v]]
  <2>1. CASE pc[w] \in Serving
    <3>1. where[c] = "served"
      BY <2>1 DEF Served
    <3>2. \A v \in Workers \ {w} : pc[v] # "pop" => conn[v] \in Conns \ {c}
      <4> TAKE v \in Workers \ {w}
      <4>1. pc[v] \in Serving => conn[v] # c
        BY <2>1 DEF Served
      <4> QED
        BY <3>1, <4>1, WorkerIs
    <3> QED
      BY <1>4, <3>2
  <2>2. CASE pc[w] \in Closing
    BY <1>1, <1>4, <2>2
  <2> QED
    BY <2>1, <2>2
<1>6. \A d \in Conns : where'[d] = "served" =>
        where[d] = "served" /\ (pc[w] \in Serving => d # c)
  BY <1>4
<1>7. \A d \in Conns : where'[d] = "served" =>
        \E v \in Workers : conn'[v] = d /\ pc'[v] \in Serving
  BY <1>1, <1>2, <1>6 DEF Served
<1> QED
  BY <1>1, <1>2, <1>3, <1>5, <1>7 DEF Served

LEMMA ServedStep ==
  ASSUME Types, Served, [Next]_vars
  PROVE  Served'
<1>1. ASSUME NEW c \in Conns, Accept(c)
      PROVE  Served'
  BY <1>1, ServedUnchanged DEF Accept, worker
<1>2. ASSUME NEW c \in Conns, WaitRoom(c)
      PROVE  Served'
  BY <1>2, ServedUnchanged DEF WaitRoom, worker
<1>3. CASE UNCHANGED <<where, pc, conn>>
  BY <1>3 DEF Served
<1>4. ASSUME NEW w \in Workers, NEW c \in Conns, Pop(w, c)
      PROVE  Served'
  <2>1. /\ pc[w] = "pop" /\ where[c] = "queued" /\ conn[w] = None
        /\ pc' = [pc EXCEPT ![w] = "ingress"] /\ conn' = [conn EXCEPT ![w] = c]
        /\ where' = [where EXCEPT ![c] = "served"]
    BY <1>4 DEF Pop, Served
  <2>2. \A v \in Workers : conn[v] # c
    BY <2>1, WorkerIs
  <2>3. "ingress" \in Serving /\ "ingress" \notin Closing /\ "pop" \notin Serving \cup Closing
    BY DEF Serving, Closing
  <2>4. \A v \in Workers \ {w} : pc'[v] = pc[v] /\ conn'[v] = conn[v]
    BY <2>1 DEF Types
  <2>5. pc'[w] = "ingress" /\ conn'[w] = c /\ c # None
    BY <2>1, RequestAssumption DEF Types
  <2>6. where'[c] = "served" /\ \A d \in Conns \ {c} : where'[d] = where[d]
    BY <2>1 DEF Types
  <2>7. \A v \in Workers \ {w} : pc[v] # "pop" => conn[v] \in Conns \ {c}
    BY <2>2 DEF Types, Served
  <2>8. \A v \in Workers :
          /\ conn'[v] = None <=> pc'[v] = "pop"
          /\ pc'[v] \in Serving => where'[conn'[v]] = "served"
          /\ pc'[v] \in Closing => where'[conn'[v]] = "closed"
    BY <2>3, <2>4, <2>5, <2>6, <2>7 DEF Served
  <2>9. \A u, v \in Workers :
          pc'[u] \in Serving /\ pc'[v] \in Serving /\ conn'[u] = conn'[v] => u = v
    BY <2>2, <2>4, <2>5 DEF Served
  <2>10. \A d \in Conns :
           where'[d] = "served" => \E v \in Workers : conn'[v] = d /\ pc'[v] \in Serving
    <3>1. \A d \in Conns \ {c} :
            where[d] = "served" => \E v \in Workers \ {w} : conn[v] = d /\ pc[v] \in Serving
      BY <2>1, <2>3 DEF Served
    <3> QED
      BY <2>3, <2>4, <2>5, <2>6, <3>1
  <2> QED
    BY <2>8, <2>9, <2>10 DEF Served
<1>5. ASSUME NEW w \in Workers, NEW p \in Serving \ {"ingress"}, pc[w] \in Serving,
             pc' = [pc EXCEPT ![w] = p], conn' = conn, where' = where
      PROVE  Served'
  <2>1. pc[w] # "pop"
    BY <1>5 DEF Serving
  <2> QED
    BY <1>5, <2>1, ServedGoesOn
<1>6. ASSUME NEW w \in Workers, IngressFails(w) \/ Handle(w) \/ Format(w) \/ Copy(w)
                                  \/ Send(w) \/ Drop(w)
      PROVE  Served'
  <2>1. /\ pc[w] \in Serving /\ conn' = conn /\ where' = where
        /\ \E p \in Serving \ {"ingress"} : pc' = [pc EXCEPT ![w] = p]
    <3> USE DEF Serving, connection
    <3>1. CASE IngressFails(w)
      BY <3>1, IngressFailed
    <3>2. CASE Handle(w)
      BY <3>2, Handled
    <3>3. CASE Format(w)
      BY <3>3, Formatted
    <3>4. CASE Copy(w)
      BY <3>4, Copied
    <3>5. CASE Send(w)
      BY <3>5, Sent
    <3>6. CASE Drop(w)
      BY <3>6 DEF Drop
    <3> QED
      BY <1>6, <3>1, <3>2, <3>3, <3>4, <3>5, <3>6
  <2> QED
    BY <1>5, <2>1
<1>7. ASSUME NEW w \in Workers, ReadHeader(w)
      PROVE  Served'
  BY <1>5, <1>7 DEF ReadHeader, Set, Serving
<1>8. ASSUME NEW w \in Workers, Keep(w)
      PROVE  Served'
  <2>1. conn[w] \in Conns /\ pc[w] \in Serving
    BY <1>8, ConnIs DEF Keep, Serving
  <2>2. /\ pc' = [pc EXCEPT ![w] = "pop"] /\ conn' = [conn EXCEPT ![w] = None]
        /\ where' = [where EXCEPT ![conn[w]] = "kept"]
    BY <1>8 DEF Keep, Done, Set
  <2>3. "kept" # "served"
    OBVIOUS
  <2> QED
    BY <2>1, <2>2, <2>3, ServedDone, Zenon
<1>9. ASSUME NEW w \in Workers, Close(w)
      PROVE  Served'
  <2>1. conn[w] \in Conns /\ pc[w] \in Serving
    BY <1>9, ConnIs DEF Close, Serving
  <2>2. PICK p \in Closing : pc' = [pc EXCEPT ![w] = p]
    BY <1>9 DEF Close, Closing
  <2>3. conn' = conn /\ where' = [where EXCEPT ![conn[w]] = "closed"]
    BY <1>9 DEF Close
  <2>4. p \notin Serving /\ p # "pop" /\ pc[w] # "pop"
    BY <2>1 DEF Serving, Closing
  <2>5. \A v \in Workers \ {w} : pc'[v] = pc[v]
    BY <2>2 DEF Types
  <2>6. pc'[w] = p
    BY <2>2 DEF Types
  <2>7. where'[conn[w]] = "closed" /\ \A d \in Conns \ {conn[w]} : where'[d] = where[d]
    BY <2>1, <2>3 DEF Types
  <2>8. \A v \in Workers \ {w} :
          /\ pc[v] \in Serving => conn[v] \in Conns \ {conn[w]}
          /\ pc[v] \in Closing => conn[v] \in Conns \ {conn[w]}
    <3>1. "pop" \notin Serving \cup Closing
      BY DEF Serving, Closing
    <3>2. where[conn[w]] = "served"
      BY <2>1 DEF Served
    <3> QED
      BY <2>1, <3>1, <3>2 DEF Types, Served
  <2>9. \A v \in Workers :
          /\ conn'[v] = None <=> pc'[v] = "pop"
          /\ pc'[v] \in Serving => where'[conn'[v]] = "served"
          /\ pc'[v] \in Closing => where'[conn'[v]] = "closed"
    BY <2>3, <2>4, <2>5, <2>6, <2>7, <2>8 DEF Served
  <2>10. \A d \in Conns :
           where'[d] = "served" => \E v \in Workers : conn'[v] = d /\ pc'[v] \in Serving
    BY <2>3, <2>5, <2>7 DEF Served
  <2>11. \A u, v \in Workers :
           pc'[u] \in Serving /\ pc'[v] \in Serving /\ conn'[u] = conn'[v] => u = v
    BY <2>3, <2>4, <2>5, <2>6 DEF Served
  <2> QED
    BY <2>9, <2>10, <2>11 DEF Served
<1>10. ASSUME NEW w \in Workers, Notify(w)
       PROVE  Served'
  <2>1. /\ pc[w] \in Closing /\ pc[w] # "pop" /\ pc[w] \notin Serving
        /\ conn' = conn /\ where' = where
        /\ \E p \in Closing : p \notin Serving /\ pc' = [pc EXCEPT ![w] = p]
    BY <1>10 DEF Notify, Closing, Serving, connection
  <2> QED
    BY <2>1, ServedGoesOn
<1>11. ASSUME NEW w \in Workers, Release(w)
       PROVE  Served'
  <2>1. conn[w] \in Conns /\ pc[w] \in Closing /\ where' = where
    BY <1>11, ConnIs DEF Release, Closing, connection
  <2>2. pc' = [pc EXCEPT ![w] = "pop"] /\ conn' = [conn EXCEPT ![w] = None]
    BY <1>11 DEF Release, Done, Set
  <2> QED
    BY <2>1, <2>2, ServedDone, Zenon
<1>12. ASSUME NEW c \in Conns, Sends(c)
       PROVE  UNCHANGED <<where, pc, conn>>
  BY <1>12, ArrivedFrom
<1>13. SigTerm \/ WaitRoomNotifies \/ UNCHANGED vars => UNCHANGED <<where, pc, conn>>
  BY DEF SigTerm, WaitRoomNotifies, vars, connection, worker
<1>14. ASSUME NEW c \in Conns, WaitRoomCloses(c)
       PROVE  Served'
  <2>1. UNCHANGED <<pc, conn>> /\ where' = [where EXCEPT ![c] = "closed"] /\ where[c] = "kept"
    BY <1>14 DEF WaitRoomCloses, worker
  <2> QED
    BY <2>1, ServedUnchanged
<1> QED
  BY <1>1, <1>2, <1>3, <1>4, <1>6, <1>7, <1>8, <1>9, <1>10, <1>11, <1>12, <1>13, <1>14
     DEF Next, WorkerStep, Sends

(* A closed connection stays closed, also that of the wait room.           *)
LEMMA ClosedStays ==
  ASSUME Types, Served, [Next]_vars, NEW c \in Conns, where[c] = "closed"
  PROVE  where'[c] = "closed"
<1>1. ASSUME NEW d \in Conns, where[d] # "closed", NEW x, where' = [where EXCEPT ![d] = x]
      PROVE  where'[c] = "closed"
  BY <1>1 DEF Types
<1>2. ASSUME NEW d \in Conns, Accept(d) \/ WaitRoom(d) \/ WaitRoomCloses(d)
      PROVE  where'[c] = "closed"
  BY <1>1, <1>2 DEF Accept, WaitRoom, WaitRoomCloses
<1>3. ASSUME NEW w \in Workers, NEW d \in Conns, Pop(w, d)
      PROVE  where'[c] = "closed"
  BY <1>1, <1>3 DEF Pop
<1>4. ASSUME NEW w \in Workers, Keep(w) \/ Close(w)
      PROVE  where'[c] = "closed"
  <2>1. conn[w] \in Conns /\ where[conn[w]] = "served"
    BY <1>4, ConnIs DEF Keep, Close, Served, Serving
  <2>2. \E x : where' = [where EXCEPT ![conn[w]] = x]
    BY <1>4 DEF Keep, Close
  <2> QED
    BY <1>1, <2>1, <2>2
<1>5. ASSUME NEW w \in Workers, IngressFails(w) \/ ReadHeader(w) \/ Handle(w) \/ Format(w)
                                  \/ Copy(w) \/ Send(w) \/ Drop(w) \/ Notify(w) \/ Release(w)
      PROVE  where' = where
  BY <1>5 DEF IngressFails, ReadHeader, Handle, Format, Copy, Send, Drop, Notify, Release,
              connection
<1>6. ASSUME NEW d \in Conns, Sends(d)
      PROVE  where' = where
  BY <1>6, ArrivedFrom
<1>7. SigTerm \/ WaitRoomNotifies \/ UNCHANGED vars => where' = where
  BY DEF SigTerm, WaitRoomNotifies, vars, connection
<1> QED
  BY <1>2, <1>3, <1>4, <1>5, <1>6, <1>7 DEF Next, WorkerStep, Sends

LEMMA EndingStep ==
  ASSUME Types, Served, Ending, [Next]_vars
  PROVE  Ending'
<1>1. ASSUME ending' = ending
      PROVE  Ending'
  BY <1>1, ClosedStays DEF Ending, Types
<1>2. ASSUME NEW c \in Conns, WaitRoomCloses(c)
      PROVE  Ending'
  BY <1>2 DEF WaitRoomCloses, Ending, Types
<1>3. CASE WaitRoomNotifies
  BY <1>3 DEF WaitRoomNotifies, Ending
<1>4. ASSUME NEW w \in Workers, WorkerStep(w)
      PROVE  ending' = ending
  BY <1>4 DEF WorkerStep, Pop, IngressFails, ReadHeader, Handle, Format, Copy, Send, Keep, Drop,
              Close, Notify, Release
<1>5. ASSUME NEW c \in Conns, Accept(c) \/ WaitRoom(c) \/ Sends(c)
      PROVE  ending' = ending
  BY <1>5, ArrivedFrom DEF Accept, WaitRoom
<1>6. SigTerm \/ UNCHANGED vars => ending' = ending
  BY DEF SigTerm, vars
<1> QED
  BY <1>1, <1>2, <1>3, <1>4, <1>5, <1>6 DEF Next, Sends

LEMMA NumbersStep ==
  ASSUME Types, Served, Numbers, [Next]_vars
  PROVE  Numbers'
<1>1. ASSUME NEW c \in Conns, Accept(c)
      PROVE  Numbers'
  <2> DEFINE used == {fd[d] : d \in {x \in Conns : Open(x)}}
             free == Fds \ used
  <2>1. /\ where[c] = "new" /\ free # {} /\ fd' = [fd EXCEPT ![c] = Min(free)]
        /\ where' = [where EXCEPT ![c] = "queued"] /\ sent' = sent /\ wire' = wire
    BY <1>1 DEF Accept, client, history
  <2>2. Min(free) \notin used
    <3>1. free \in SUBSET Nat /\ free \cap used = {}
      BY RequestAssumption
    <3> HIDE DEF free, used
    <3> QED
      BY <2>1, <3>1, LeastIs
  <2>3. \A d \in Conns \ {c} : (Open(d))' = Open(d) /\ fd'[d] = fd[d]
    BY <2>1 DEF Types, Open
  <2>4. \A d \in Conns : Open(d) => d # c /\ fd'[c] # fd[d]
    BY <2>1, <2>2 DEF Types, Open
  <2> HIDE DEF free, used
  <2>5. \A d, e \in Conns : (Open(d))' /\ (Open(e))' /\ fd'[d] = fd'[e] => d = e
    BY <2>3, <2>4 DEF Numbers
  <2> QED
    BY <2>1, <2>5 DEF Types, Numbers
<1>2. ASSUME NEW c \in Conns, Sends(c)
      PROVE  Numbers'
  <2>1. /\ where[c] # "new" /\ UNCHANGED <<where, fd, wire>>
        /\ sent' = sent \/ sent' = [sent EXCEPT ![c] = @ + 1]
    BY <1>2, ArrivedFrom DEF Open
  <2>2. \A d \in Conns \ {c} : sent'[d] = sent[d]
    BY <2>1 DEF Types
  <2> QED
    BY <2>1, <2>2 DEF Numbers, Open
<1>3. ASSUME NEW c \in Conns, NEW x \in {"queued", "served", "kept", "closed"},
             where[c] # "new", where[c] # "closed", where' = [where EXCEPT ![c] = x],
             fd' = fd, sent' = sent, wire' = wire
      PROVE  Numbers'
  BY <1>3 DEF Numbers, Open, Types
<1>4. ASSUME NEW c \in Conns, NEW m, Write(c, m), UNCHANGED <<where, fd, sent>>
      PROVE  Numbers'
  BY <1>4 DEF Numbers, Open, Write
<1>5. CASE UNCHANGED <<where, fd, sent, wire>>
  BY <1>5 DEF Numbers, Open
<1>6. ASSUME NEW c \in Conns, WaitRoom(c)
      PROVE  Numbers'
  BY <1>3, <1>6 DEF WaitRoom, client, history
<1>7. ASSUME NEW w \in Workers, NEW c \in Conns, Pop(w, c)
      PROVE  Numbers'
  BY <1>3, <1>7 DEF Pop, client, history
<1>8. ASSUME NEW w \in Workers, IngressFails(w) \/ Send(w)
      PROVE  Numbers'
  <2>1. CASE IngressFails(w)
    BY <1>4, <1>5, <2>1, IngressFailed
  <2>2. CASE Send(w)
    BY <1>4, <1>5, <2>2, Sent
  <2> QED
    BY <1>8, <2>1, <2>2
<1>9. ASSUME NEW w \in Workers, Keep(w)
      PROVE  Numbers'
  <2>1. conn[w] \in Conns /\ where[conn[w]] = "served"
    BY <1>9, ConnIs DEF Keep, Served, Serving
  <2> QED
    BY <1>3, <1>9, <2>1 DEF Keep, client
<1>10. ASSUME NEW w \in Workers, Close(w)
       PROVE  Numbers'
  <2>1. conn[w] \in Conns /\ where[conn[w]] = "served"
    BY <1>10, ConnIs DEF Close, Served, Serving
  <2> QED
    BY <1>3, <1>10, <2>1 DEF Close, history
<1>11. ASSUME NEW w \in Workers, Notify(w)
       PROVE  Numbers'
  <2>1. conn[w] \in Conns
    BY <1>11, ConnIs DEF Notify
  <2>2. UNCHANGED <<where, fd, sent>> /\ Shutdown(conn[w])
    BY <1>11 DEF Notify, client, connection
  <2> QED
    BY <1>4, <1>5, <2>1, <2>2, ShutdownWrites
<1>12. ASSUME NEW w \in Workers,
              ReadHeader(w) \/ Handle(w) \/ Format(w) \/ Copy(w) \/ Drop(w) \/ Release(w)
       PROVE  UNCHANGED <<where, fd, sent, wire>>
  BY <1>12 DEF ReadHeader, Handle, Format, Copy, Drop, Release, client, connection, history
<1>13. SigTerm \/ UNCHANGED vars => UNCHANGED <<where, fd, sent, wire>>
  BY DEF SigTerm, vars, client, connection, history
<1>14. ASSUME NEW c \in Conns, WaitRoomCloses(c)
       PROVE  Numbers'
  BY <1>3, <1>14 DEF WaitRoomCloses, history
<1>15. CASE WaitRoomNotifies
  <2>1. ending \in Conns /\ UNCHANGED <<where, fd, sent>> /\ Shutdown(ending)
    BY <1>15 DEF WaitRoomNotifies, Types, client, connection
  <2> QED
    BY <1>4, <1>5, <2>1, ShutdownWrites
<1> QED
  BY <1>1, <1>2, <1>5, <1>6, <1>7, <1>8, <1>9, <1>10, <1>11, <1>12, <1>13, <1>14, <1>15
     DEF Next, WorkerStep, Sends

-----------------------------------------------------------------------------
(***************************************************************************)
(* What is written to a connection is its own.                             *)
(***************************************************************************)

LEMMA WireStays ==
  ASSUME Types, Numbers, WireIsOwn, wire' = wire,
         \A d \in Conns : where[d] = "closed" => where'[d] = "closed",
         \A d \in Conns : where[d] # "new" => fd'[d] = fd[d]
  PROVE  WireIsOwn'
<1>1. ASSUME NEW d \in Conns, NEW i \in DOMAIN wire[d], wire[d][i].of # d
      PROVE  /\ i \notin Responses(d)' /\ wire[d][i].of \in TlsConns
             /\ where'[wire[d][i].of] = "closed" /\ fd'[wire[d][i].of] = fd'[d]
  <2> DEFINE from == wire[d][i].of
  <2>1. i \notin Responses(d) /\ from \in TlsConns /\ where[from] = "closed" /\ fd[from] = fd[d]
    BY <1>1 DEF WireIsOwn
  <2>2. from \in Conns
    BY <2>1, RequestAssumption
  <2>3. wire[d] # << >>
    OBVIOUS
  <2>4. where[d] # "new"
    BY <2>3 DEF Numbers
  <2>5. fd'[from] = fd[from] /\ fd'[d] = fd[d] /\ where'[from] = "closed"
    BY <2>1, <2>2, <2>4
  <2> QED
    BY <2>1, <2>5 DEF Responses
<1> QED
  BY <1>1 DEF WireIsOwn

LEMMA WireWritten ==
  ASSUME Types, Numbers, WireIsOwn, NEW c \in Conns, NEW m \in Answers \cup Alerts,
         m.of = c, Write(c, m), where' = where, fd' = fd,
         Open(c) \/ (c \in TlsConns /\ where[c] = "closed" /\ m \in Alerts)
  PROVE  WireIsOwn'
<1>1. wire \in [Conns -> Seq(Answers \cup Alerts)]
  BY DEF Types
<1> SUFFICES ASSUME NEW d \in Conns, NEW i \in DOMAIN wire'[d], wire'[d][i].of # d
             PROVE  /\ i \notin Responses(d)' /\ wire'[d][i].of \in TlsConns
                    /\ where[wire'[d][i].of] = "closed" /\ fd[wire'[d][i].of] = fd[d]
  BY DEF WireIsOwn
<1>2. CASE i \in DOMAIN wire[d] /\ wire'[d][i] = wire[d][i]
  <2>1. i \notin Responses(d)
    BY <1>2 DEF WireIsOwn
  <2>2. i \notin Responses(d)'
    BY <1>2, <2>1 DEF Responses
  <2> QED
    BY <1>2, <2>2 DEF WireIsOwn
<1>3. CASE ~(i \in DOMAIN wire[d] /\ wire'[d][i] = wire[d][i])
  <2>1. wire'[d] = IF Open(d) /\ fd[d] = fd[c] THEN Append(wire[d], m) ELSE wire[d]
    BY DEF Write
  <2>2. Open(d) /\ fd[d] = fd[c] /\ wire'[d] = Append(wire[d], m)
    BY <1>3, <2>1
  <2>3. wire'[d][i] = m
    <3>1. wire[d] \in Seq(Answers \cup Alerts)
      BY <1>1
    <3>2. /\ DOMAIN wire'[d] = 1 .. Len(wire[d]) + 1 /\ DOMAIN wire[d] = 1 .. Len(wire[d])
          /\ Len(wire[d]) \in Nat
          /\ \A k \in 1 .. Len(wire[d]) : wire'[d][k] = wire[d][k]
          /\ wire'[d][Len(wire[d]) + 1] = m
      BY <2>2, <3>1
    <3>3. i \in 1 .. Len(wire[d]) + 1 /\ i \notin 1 .. Len(wire[d])
      BY <1>3, <3>2
    <3>4. i = Len(wire[d]) + 1
      BY <3>2, <3>3
    <3> QED
      BY <3>2, <3>4
  <2>4. ~Open(c)
    BY <2>2, <2>3 DEF Numbers
  <2>5. "alert" \in DOMAIN m
    BY <2>4, Kinds
  <2> QED
    BY <2>2, <2>3, <2>4, <2>5 DEF Responses
<1> QED
  BY <1>2, <1>3

LEMMA WireStep ==
  ASSUME Types, Served, Ending, Numbers, WireIsOwn, [Next]_vars
  PROVE  WireIsOwn'
<1>1. ASSUME wire' = wire, fd' = fd, NEW c \in Conns, where[c] # "closed", NEW x,
             where' = [where EXCEPT ![c] = x]
      PROVE  WireIsOwn'
  <2>1. \A d \in Conns : where[d] = "closed" => where'[d] = "closed"
    BY <1>1 DEF Types
  <2> QED
    BY <1>1, <2>1, WireStays
<1>2. CASE UNCHANGED <<wire, fd, where>>
  BY <1>2, WireStays
<1>3. ASSUME NEW c \in Conns, Accept(c)
      PROVE  WireIsOwn'
  <2>1. /\ where[c] = "new" /\ where' = [where EXCEPT ![c] = "queued"] /\ wire' = wire
        /\ \E x : fd' = [fd EXCEPT ![c] = x]
    BY <1>3 DEF Accept, history
  <2>2. /\ \A d \in Conns : where[d] = "closed" => where'[d] = "closed"
        /\ \A d \in Conns : where[d] # "new" => fd'[d] = fd[d]
    BY <2>1 DEF Types
  <2> QED
    BY <2>1, <2>2, WireStays
<1>4. ASSUME NEW c \in Conns, WaitRoom(c)
      PROVE  WireIsOwn'
  <2>1. /\ where[c] = "kept" /\ wire' = wire /\ fd' = fd
        /\ \E x : where' = [where EXCEPT ![c] = x]
    BY <1>4 DEF WaitRoom, history
  <2> QED
    BY <1>1, <2>1
<1>5. ASSUME NEW w \in Workers, NEW c \in Conns, Pop(w, c)
      PROVE  WireIsOwn'
  BY <1>1, <1>5 DEF Pop, history
<1>6. ASSUME NEW w \in Workers, Keep(w) \/ Close(w)
      PROVE  WireIsOwn'
  <2>1. conn[w] \in Conns /\ where[conn[w]] = "served"
    BY <1>6, ConnIs DEF Keep, Close, Served, Serving
  <2>2. wire' = wire /\ fd' = fd /\ \E x : where' = [where EXCEPT ![conn[w]] = x]
    BY <1>6 DEF Keep, Close, history
  <2> QED
    BY <1>1, <2>1, <2>2
<1>7. ASSUME NEW w \in Workers, pc[w] \in Serving, NEW m \in Answers, m.of = conn[w],
             Write(conn[w], m), UNCHANGED <<where, fd>>
      PROVE  WireIsOwn'
  <2>1. conn[w] \in Conns /\ Open(conn[w])
    BY <1>7, ConnIs DEF Served, Serving, Open
  <2> QED
    BY <1>7, <2>1, WireWritten
<1>8. ASSUME NEW w \in Workers, IngressFails(w)
      PROVE  WireIsOwn'
  BY <1>2, <1>7, <1>8, IngressFailed DEF Serving
<1>9. ASSUME NEW w \in Workers, Send(w)
      PROVE  WireIsOwn'
  BY <1>2, <1>7, <1>9, Sent DEF Serving
<1>10. ASSUME NEW c \in Conns, where[c] = "closed", Shutdown(c), UNCHANGED <<where, fd>>
       PROVE  WireIsOwn'
  BY <1>2, <1>10, ShutdownWrites, WireWritten
<1>11. ASSUME NEW w \in Workers,
              ReadHeader(w) \/ Handle(w) \/ Format(w) \/ Copy(w) \/ Drop(w) \/ Release(w)
       PROVE  UNCHANGED <<wire, fd, where>>
  BY <1>11 DEF ReadHeader, Handle, Format, Copy, Drop, Release, connection, history
<1>12. ASSUME NEW c \in Conns, Sends(c)
       PROVE  UNCHANGED <<wire, fd, where>>
  BY <1>12, ArrivedFrom
<1>13. SigTerm \/ UNCHANGED vars => UNCHANGED <<wire, fd, where>>
  BY DEF SigTerm, vars, connection, history
<1>14. ASSUME NEW w \in Workers, Notify(w)
       PROVE  WireIsOwn'
  <2>1. /\ conn[w] \in Conns /\ where[conn[w]] = "closed" /\ UNCHANGED <<where, fd>>
        /\ Shutdown(conn[w])
    BY <1>14, ConnIs DEF Notify, Served, Closing, connection
  <2> QED
    BY <1>10, <2>1
<1>15. ASSUME NEW c \in Conns, WaitRoomCloses(c)
       PROVE  WireIsOwn'
  BY <1>1, <1>15 DEF WaitRoomCloses, history
<1>16. CASE WaitRoomNotifies
  <2>1. ending \in Conns /\ UNCHANGED <<where, fd>> /\ Shutdown(ending)
    BY <1>16 DEF WaitRoomNotifies, Types, connection
  <2>2. where[ending] = "closed"
    BY <1>16 DEF WaitRoomNotifies, Ending
  <2> QED
    BY <1>10, <2>1, <2>2
<1> QED
  BY <1>2, <1>3, <1>4, <1>5, <1>6, <1>8, <1>9, <1>11, <1>12, <1>13, <1>14, <1>15, <1>16
     DEF Next, WorkerStep, Sends

-----------------------------------------------------------------------------
(***************************************************************************)
(* Contexts.                                                               *)
(***************************************************************************)
(* A worker goes on with its context.                                      *)
LEMMA AllocatedGoesOn ==
  ASSUME Types, Allocated, NEW w \in Workers, NEW p, p \notin {"pop", "ingress"},
         pc[w] \notin {"pop", "ingress"}, pc' = [pc EXCEPT ![w] = p],
         \A v \in Workers : ctx'[v].id = ctx[v].id,
         UNCHANGED <<conn, kept, contexts>>
  PROVE  Allocated'
<1>1. \A v \in Workers : pc[v] \notin {"pop", "ingress"} => pc'[v] \notin {"pop", "ingress"}
  BY DEF Types
<1> QED
  BY <1>1 DEF Allocated

(* A worker takes a new context.                                           *)
LEMMA AllocatedNew ==
  ASSUME Types, Allocated, NEW w \in Workers, NEW p, p \notin {"pop", "ingress"},
         pc[w] \in {"pop", "ingress"}, pc' = [pc EXCEPT ![w] = p],
         \A v \in Workers \ {w} : ctx'[v].id = ctx[v].id,
         contexts' = contexts \cup {<<conn[w], ctx'[w].id>>},
         UNCHANGED <<conn, kept>>
  PROVE  Allocated'
<1>1. /\ pc'[w] = p /\ \A v \in Workers \ {w} : pc'[v] = pc[v]
      /\ \A v \in Workers : pc[v] \notin {"pop", "ingress"} => v # w
  BY DEF Types
<1> SUFFICES ASSUME NEW x \in contexts'
             PROVE  \/ \E c \in Conns : \E k \in kept[c] : x = <<c, k>>
                    \/ \E v \in Workers : /\ pc'[v] \notin {"pop", "ingress"}
                                          /\ x = <<conn[v], ctx'[v].id>>
  BY DEF Allocated
<1>2. CASE x \in contexts
  <2>1. CASE \E c \in Conns : \E k \in kept[c] : x = <<c, k>>
    BY <2>1
  <2>2. ASSUME NEW v \in Workers, pc[v] \notin {"pop", "ingress"}, x = <<conn[v], ctx[v].id>>
        PROVE  pc'[v] \notin {"pop", "ingress"} /\ x = <<conn[v], ctx'[v].id>>
    BY <1>1, <2>2
  <2> QED
    BY <1>2, <2>1, <2>2 DEF Allocated
<1>3. CASE x = <<conn[w], ctx'[w].id>>
  BY <1>1, <1>3
<1> QED
  BY <1>2, <1>3

(* A worker gives its context up, to the connection or altogether.         *)
LEMMA AllocatedDone ==
  ASSUME Types, Served, Allocated, NEW w \in Workers, pc[w] # "pop", Done(w),
         \/ /\ kept' = [kept EXCEPT ![conn[w]] = @ \cup {ctx[w].id}] /\ contexts' = contexts
         \/ kept' = kept /\ contexts' = contexts \ {<<conn[w], ctx[w].id>>}
  PROVE  Allocated'
<1>1. conn[w] \in Conns
  BY ConnIs
<1>2. \A v \in Workers \ {w} : pc'[v] = pc[v] /\ conn'[v] = conn[v] /\ ctx'[v] = ctx[v]
  BY DEF Types, Done, Set
<1>3. /\ \A c \in Conns : kept[c] \subseteq kept'[c]
      /\ contexts' \subseteq contexts
      /\ <<conn[w], ctx[w].id>> \in contexts' => ctx[w].id \in kept'[conn[w]]
  <2> DEFINE d == conn[w]
             k == ctx[w].id
  <2>1. d \in Conns /\ kept \in [Conns -> SUBSET Nat]
    BY <1>1 DEF Types
  <2>2. \/ kept' = [kept EXCEPT ![d] = @ \cup {k}] /\ contexts' = contexts
        \/ kept' = kept /\ contexts' = contexts \ {<<d, k>>}
    OBVIOUS
  <2> HIDE DEF d, k
  <2>3. CASE kept' = [kept EXCEPT ![d] = @ \cup {k}] /\ contexts' = contexts
    BY <2>1, <2>3 DEF d, k
  <2>4. CASE kept' = kept /\ contexts' = contexts \ {<<d, k>>}
    BY <2>1, <2>4 DEF d, k
  <2> QED
    BY <2>2, <2>3, <2>4
<1> SUFFICES ASSUME NEW x \in contexts
             PROVE  \/ \E c \in Conns : \E k \in kept'[c] : x = <<c, k>>
                    \/ \E v \in Workers : /\ pc'[v] \notin {"pop", "ingress"}
                                          /\ x = <<conn'[v], ctx'[v].id>>
                    \/ x \notin contexts'
  BY <1>3 DEF Allocated
<1>4. CASE \E c \in Conns : \E k \in kept[c] : x = <<c, k>>
  BY <1>3, <1>4
<1>5. ASSUME NEW v \in Workers, pc[v] \notin {"pop", "ingress"}, x = <<conn[v], ctx[v].id>>
      PROVE  \/ \E c \in Conns : \E k \in kept'[c] : x = <<c, k>>
             \/ /\ pc'[v] \notin {"pop", "ingress"}
                /\ x = <<conn'[v], ctx'[v].id>>
             \/ x \notin contexts'
  <2>1. CASE v = w
    BY <1>1, <1>3, <1>5, <2>1
  <2>2. CASE v # w
    BY <1>2, <1>5, <2>2
  <2> QED
    BY <2>1, <2>2
<1> QED
  BY <1>4, <1>5 DEF Allocated

LEMMA AllocatedStep ==
  ASSUME Types, Served, Allocated, [Next]_vars
  PROVE  Allocated'
<1>1. CASE UNCHANGED <<pc, conn, ctx, kept, contexts>>
  BY <1>1 DEF Allocated
<1>2. ASSUME NEW w \in Workers, NEW c \in Conns, Pop(w, c)
      PROVE  Allocated'
  <2>1. \A v \in Workers : pc[v] \notin {"pop", "ingress"} =>
          pc'[v] = pc[v] /\ conn'[v] = conn[v]
    BY <1>2 DEF Pop, Types
  <2>2. UNCHANGED <<ctx, kept, contexts>>
    BY <1>2 DEF Pop, history
  <2> QED
    BY <2>1, <2>2 DEF Allocated
<1>3. ASSUME NEW w \in Workers, IngressFails(w)
      PROVE  Allocated'
  <2>1. PICK r \in Contexts : ctx' = [ctx EXCEPT ![w] = r] /\ r.id = 0
    BY <1>3, IngressFailed
  <2>2. /\ pc[w] = "ingress" /\ pc' = [pc EXCEPT ![w] = "close"]
        /\ contexts' = contexts \cup {<<conn[w], 0>>} /\ UNCHANGED <<conn, kept>>
    BY <1>3, IngressFailed
  <2>3. ctx'[w].id = 0 /\ \A v \in Workers \ {w} : ctx'[v] = ctx[v]
    BY <2>1 DEF Types
  <2> QED
    BY <2>2, <2>3, AllocatedNew
<1>4. ASSUME NEW w \in Workers, ReadHeader(w)
      PROVE  Allocated'
  <2>1. PICK c \in Conns, h \in Nat, off \in Nat, S \in SUBSET Nat : HeaderTaken(w, c, h, off, S)
    BY <1>4, HeaderRead
  <2>2. PICK req \in Requests :
          ctx' = [ctx EXCEPT ![w] = [NoCtx EXCEPT !.id = inbox[c][h].id, !.req = req]]
    BY <2>1 DEF HeaderTaken
  <2>3. inbox[c][h].id \in Nat
    BY <2>1, TokenIs DEF HeaderTaken, Heads, Types
  <2> DEFINE r == [NoCtx EXCEPT !.id = inbox[c][h].id, !.req = req]
  <2>4. r.id = inbox[c][h].id
    BY <2>3, NoCtxIs
  <2>5. ctx' = [ctx EXCEPT ![w] = r]
    BY <2>2
  <2> HIDE DEF r
  <2>6. ctx'[w].id = inbox[c][h].id /\ \A v \in Workers \ {w} : ctx'[v] = ctx[v]
    BY <2>4, <2>5 DEF Types
  <2>7. /\ pc[w] = "ingress" /\ pc' = [pc EXCEPT ![w] = "validate"] /\ conn[w] = c
        /\ contexts' = contexts \cup {<<c, inbox[c][h].id>>} /\ UNCHANGED <<conn, kept>>
    BY <2>1 DEF HeaderTaken
  <2> QED
    BY <2>6, <2>7, AllocatedNew
<1>5. ASSUME NEW w \in Workers, Handle(w) \/ Copy(w) \/ Send(w)
      PROVE  Allocated'
  <2>1. PICK r \in Contexts, p \in {"format", "send", "finish"} :
          /\ ctx' = [ctx EXCEPT ![w] = r] /\ r.id = ctx[w].id /\ pc' = [pc EXCEPT ![w] = p]
    <3>1. CASE Handle(w)
      BY <3>1, Handled
    <3>2. CASE Copy(w)
      BY <3>2, Copied
    <3>3. CASE Send(w)
      BY <3>3, Sent
    <3> QED
      BY <1>5, <3>1, <3>2, <3>3
  <2>2. \A v \in Workers : ctx'[v].id = ctx[v].id
    BY <2>1 DEF Types
  <2>3. pc[w] \notin {"pop", "ingress"} /\ UNCHANGED <<conn, kept, contexts>>
    BY <1>5 DEF Handle, Copy, Send, history
  <2> QED
    BY <2>1, <2>2, <2>3, AllocatedGoesOn
<1>6. ASSUME NEW w \in Workers, Drop(w) \/ Close(w) \/ Notify(w)
      PROVE  Allocated'
  <2>1. /\ \E p : p \notin {"pop", "ingress"} /\ pc' = [pc EXCEPT ![w] = p]
        /\ pc[w] \notin {"pop", "ingress"}
        /\ UNCHANGED <<conn, ctx, kept, contexts>>
    BY <1>6 DEF Drop, Close, Notify, history
  <2> QED
    BY <2>1, AllocatedGoesOn
<1>7. ASSUME NEW w \in Workers, Keep(w) \/ Release(w)
      PROVE  Allocated'
  BY <1>7, AllocatedDone DEF Keep, Release, history
<1>8. ASSUME NEW c \in Conns, Accept(c) \/ WaitRoom(c) \/ WaitRoomCloses(c) \/ Sends(c)
      PROVE  UNCHANGED <<pc, conn, ctx, kept, contexts>>
  BY <1>8, ArrivedFrom DEF Accept, WaitRoom, WaitRoomCloses, history, worker
<1>9. SigTerm \/ WaitRoomNotifies \/ UNCHANGED vars => UNCHANGED <<pc, conn, ctx, kept, contexts>>
  BY DEF SigTerm, WaitRoomNotifies, vars, history, worker
<1>10. ASSUME NEW w \in Workers, Format(w)
       PROVE  Allocated'
  <2>1. /\ pc[w] \notin {"pop", "ingress"} /\ pc' = [pc EXCEPT ![w] = "copy"]
        /\ (\A v \in Workers : ctx'[v].id = ctx[v].id) /\ UNCHANGED <<conn, kept, contexts>>
    BY <1>10, Formatted DEF SameWork
  <2> QED
    BY <2>1, AllocatedGoesOn
<1> QED
  BY <1>1, <1>2, <1>3, <1>4, <1>5, <1>6, <1>7, <1>8, <1>9, <1>10 DEF Next, WorkerStep, Sends

LEMMA AccountedFrom ==
  ASSUME Allocated
  PROVE  ContextsAccounted
<1>1. ASSUME NEW c \in Conns, NEW k \in kept[c]
      PROVE  <<c, k>> \in UNION {{<<d, n>> : n \in kept[d]} : d \in Conns}
  OBVIOUS
<1> QED
  BY <1>1 DEF Allocated, ContextsAccounted

-----------------------------------------------------------------------------
(***************************************************************************)
(* The order of requests and responses.                                    *)
(***************************************************************************)
Orders == InboxOrder /\ AnswerOrder /\ Covered /\ InOrder

(* Worker v answers the same request of the same connection as before, and *)
(* the same headers are waiting.                                           *)
GoesOn(v) ==
  conn'[v] = conn[v] /\ ctx'[v].id = ctx[v].id /\ ctx'[v].failed = ctx[v].failed
SameHeads(c) == Heads(c)' = Heads(c) /\ \A i \in Heads(c) : inbox'[c][i].id = inbox[c][i].id

LEMMA OrdersQuiet ==
  ASSUME Types, Orders, Quiet, sent' = sent, skipped' = skipped,
         \A c \in Conns : SameHeads(c) \/ (inbox'[c] = << >> /\ where'[c] = "closed"),
         \A c \in Conns : where[c] = "closed" => where'[c] = "closed",
         \A c \in Conns : kept'[c] \subseteq Answered(c),
         \A v \in Workers : pc'[v] \in Answering =>
           pc[v] \in Answering /\ conn'[v] = conn[v] /\ ctx'[v].id = ctx[v].id,
         \A v \in Workers : pc'[v] = "finish" /\ ~ctx'[v].failed =>
           /\ pc[v] = "finish" /\ ~ctx[v].failed
           /\ conn'[v] = conn[v] /\ ctx'[v].id = ctx[v].id,
         \A v \in Workers : Unanswered(v) =>
           \/ Unanswered(v)' /\ conn'[v] = conn[v] /\ ctx'[v].id = ctx[v].id
           \/ where'[conn[v]] = "closed"
  PROVE  Orders'
<1>1. \A c \in Conns : Own(c)' = Own(c) /\ Answered(c)' = Answered(c)
  BY QuietAnswered DEF Quiet
<1>2. \A c \in Conns : \A i \in Own(c) : wire'[c][i] = wire[c][i]
  BY DEF Quiet
<1>3. \A c \in Conns : \/ SameHeads(c) /\ Heads(c)' = Heads(c) /\ Waiting(c)' = Waiting(c)
                       \/ where'[c] = "closed" /\ Heads(c)' = {} /\ Waiting(c)' = {}
  <2> TAKE c \in Conns
  <2>1. CASE SameHeads(c)
    BY <2>1 DEF SameHeads, Waiting
  <2>2. CASE inbox'[c] = << >> /\ where'[c] = "closed"
    BY <2>2 DEF Heads, Waiting
  <2> QED
    BY <2>1, <2>2
<1>4. InboxOrder'
  <2> SUFFICES ASSUME NEW c \in Conns
               PROVE  /\ \A i \in Heads(c)' : inbox'[c][i].id \in 1 .. sent[c]
                      /\ \A i, j \in Heads(c)' : i < j => inbox'[c][i].id < inbox'[c][j].id
                      /\ \A k \in Waiting(c)' : \A n \in Answered(c)' : n < k
    BY DEF InboxOrder
  <2>1. CASE SameHeads(c) /\ Heads(c)' = Heads(c) /\ Waiting(c)' = Waiting(c)
    BY <1>1, <2>1 DEF Orders, InboxOrder, SameHeads
  <2>2. CASE Heads(c)' = {} /\ Waiting(c)' = {}
    BY <2>2
  <2> QED
    BY <1>3, <2>1, <2>2
<1>5. AnswerOrder'
  <2>1. ASSUME NEW w \in Workers, NEW c \in Conns, conn'[w] = c, pc'[w] \in Answering
        PROVE  /\ ctx'[w].id \in 1 .. sent'[c]
               /\ \A n \in Answered(c)' : n < ctx'[w].id
               /\ \A k \in Waiting(c)' : ctx'[w].id < k
    <3>1. pc[w] \in Answering /\ conn[w] = c /\ ctx'[w].id = ctx[w].id
      BY <2>1
    <3>2. /\ ctx[w].id \in 1 .. sent[c]
          /\ \A n \in Answered(c) : n < ctx[w].id
          /\ \A k \in Waiting(c) : ctx[w].id < k
      BY <3>1 DEF Orders, AnswerOrder
    <3> QED
      BY <1>1, <1>3, <3>1, <3>2
  <2>2. ASSUME NEW w \in Workers, NEW c \in Conns, conn'[w] = c, pc'[w] = "finish",
               ~ctx'[w].failed
        PROVE  ctx'[w].id \in Answered(c)'
    BY <1>1, <2>2 DEF Orders, AnswerOrder
  <2>3. ASSUME NEW c \in Conns
        PROVE  /\ \A i, j \in Own(c)' : i < j => wire'[c][i].id < wire'[c][j].id
               /\ kept'[c] \subseteq Answered(c)'
               /\ Answered(c)' \subseteq 1 .. sent'[c] /\ skipped'[c] \subseteq 1 .. sent'[c]
    BY <1>1, <1>2 DEF Orders, AnswerOrder
  <2> QED
    BY <2>1, <2>2, <2>3 DEF AnswerOrder
<1>6. Covered'
  <2> SUFFICES ASSUME NEW c \in Conns, where'[c] # "closed", NEW k \in 1 .. sent[c]
               PROVE  \/ k \in Answered(c)' \cup skipped'[c] \cup Waiting(c)'
                      \/ \E w \in Workers : conn'[w] = c /\ Unanswered(w)' /\ ctx'[w].id = k
    BY DEF Covered
  <2>1. CASE k \in Answered(c) \cup skipped[c] \cup Waiting(c)
    BY <1>1, <1>3, <2>1
  <2>2. ASSUME NEW w \in Workers, conn[w] = c, Unanswered(w), ctx[w].id = k
        PROVE  conn'[w] = c /\ Unanswered(w)' /\ ctx'[w].id = k
    BY <2>2
  <2> QED
    BY <2>1, <2>2 DEF Orders, Covered
<1>7. InOrder'
  BY <1>1 DEF Orders, InOrder
<1> QED
  BY <1>4, <1>5, <1>6, <1>7 DEF Orders

LEMMA OneMore ==
  ASSUME NEW T, NEW s \in Seq(T), NEW a \in T
  PROVE  /\ Len(s) \in Nat /\ DOMAIN (s \o <<a>>) = 1 .. Len(s) + 1 /\ DOMAIN s = 1 .. Len(s)
         /\ \A i \in 1 .. Len(s) : (s \o <<a>>)[i] = s[i]
         /\ (s \o <<a>>)[Len(s) + 1] = a
OBVIOUS

LEMMA SameInbox ==
  ASSUME inbox' = inbox, NEW c \in Conns
  PROVE  SameHeads(c)
BY DEF SameHeads, Heads

(* Text without an end mark arrives.                                       *)
LEMMA OrdersText ==
  ASSUME Types, Orders, NEW c \in Conns, NEW t \in Tokens, ~t.head, sent' = sent,
         inbox' = [inbox EXCEPT ![c] = Append(@, t)],
         UNCHANGED <<where, wire, skipped, kept, pc, conn, ctx>>
  PROVE  Orders'
<1>1. /\ inbox'[c] = Append(inbox[c], t) /\ inbox[c] \in Seq(Tokens)
      /\ \A d \in Conns \ {c} : inbox'[d] = inbox[d]
  BY DEF Types
<1>2. /\ Len(inbox[c]) \in Nat /\ DOMAIN inbox'[c] = 1 .. Len(inbox[c]) + 1
      /\ DOMAIN inbox[c] = 1 .. Len(inbox[c])
      /\ \A i \in 1 .. Len(inbox[c]) : inbox'[c][i] = inbox[c][i]
      /\ inbox'[c][Len(inbox[c]) + 1] = t
  BY <1>1
<1>3. SameHeads(c)
  BY <1>2 DEF SameHeads, Heads
<1>4. \A d \in Conns : SameHeads(d)
  BY <1>1, <1>3 DEF SameHeads, Heads
<1>5. \A d \in Conns : kept[d] \subseteq Answered(d)
  BY DEF Orders, AnswerOrder
<1>6. \A v \in Workers : Unanswered(v)' <=> Unanswered(v)
  BY DEF Unanswered, Finishing
<1> QED
  BY <1>4, <1>5, <1>6, QuietSame, OrdersQuiet

(* An end mark arrives.                                                    *)
LEMMA OrdersHead ==
  ASSUME Types, Orders, NEW c \in Conns, NEW head \in Tokens, head.head, head.id = sent[c] + 1,
         sent' = [sent EXCEPT ![c] = @ + 1], inbox' = [inbox EXCEPT ![c] = Append(@, head)],
         UNCHANGED <<where, wire, skipped, kept, pc, conn, ctx>>
  PROVE  Orders'
<1> DEFINE in == inbox[c]
           k == sent[c] + 1
<1>2. /\ sent[c] \in Nat /\ k \in Nat /\ sent'[c] = k /\ inbox'[c] = Append(in, head)
      /\ in \in Seq(Tokens) /\ \A d \in Conns \ {c} : sent'[d] = sent[d] /\ inbox'[d] = inbox[d]
  BY DEF Types
<1>3. \A d \in Conns : Own(d)' = Own(d) /\ Answered(d)' = Answered(d)
  BY QuietSame, QuietAnswered DEF Quiet
<1>4. \A d \in Conns \ {c} : Heads(d)' = Heads(d) /\ Waiting(d)' = Waiting(d)
  BY <1>2 DEF Heads, Waiting
<1>5. head.id = k
  OBVIOUS
<1>6. /\ Len(in) \in Nat /\ DOMAIN in = 1 .. Len(in)
      /\ DOMAIN inbox'[c] = 1 .. Len(in) + 1
      /\ \A i \in 1 .. Len(in) : inbox'[c][i] = in[i]
      /\ inbox'[c][Len(in) + 1] = head
  <2> HIDE DEF in
  <2> QED
    BY <1>2
<1> HIDE DEF in, k
<1>7. /\ Heads(c)' = Heads(c) \cup {Len(in) + 1} /\ inbox'[c][Len(in) + 1].id = k
      /\ Len(in) \in Nat
      /\ \A i \in Heads(c) : i \in 1 .. Len(in) /\ inbox'[c][i] = inbox[c][i]
  <2>1. Heads(c) = {i \in 1 .. Len(in) : inbox[c][i].head}
    BY <1>6 DEF Heads, in
  <2>2. Heads(c)' = {i \in 1 .. Len(in) + 1 : inbox'[c][i].head}
    BY <1>6 DEF Heads
  <2>3. \A i \in 1 .. Len(in) : inbox'[c][i] = inbox[c][i] /\ i \in 1 .. Len(in) + 1
    BY <1>6 DEF in
  <2>4. \A i \in 1 .. Len(in) + 1 : i \in 1 .. Len(in) \/ i = Len(in) + 1
    BY <1>6
  <2>5. Len(in) + 1 \in 1 .. Len(in) + 1
    BY <1>6
  <2>6. Heads(c)' = Heads(c) \cup {Len(in) + 1}
    BY <1>6, <2>1, <2>2, <2>3, <2>4, <2>5
  <2> QED
    BY <1>5, <1>6, <2>1, <2>3, <2>6
<1>8. Waiting(c)' = Waiting(c) \cup {k}
  BY <1>7 DEF Waiting
<1>9. /\ \A i \in Heads(c) : inbox[c][i].id \in 1 .. sent[c]
      /\ k = sent[c] + 1 /\ Answered(c) \subseteq 1 .. sent[c]
  BY DEF k, Orders, InboxOrder, AnswerOrder
<1>10. InboxOrder'
  <2>1. /\ \A i \in Heads(c)' : inbox'[c][i].id \in 1 .. sent'[c]
        /\ \A i, j \in Heads(c)' : i < j => inbox'[c][i].id < inbox'[c][j].id
        /\ \A m \in Waiting(c)' : \A n \in Answered(c)' : n < m
    <3>1. \A i, j \in Heads(c) : i < j => inbox[c][i].id < inbox[c][j].id
      BY DEF Orders, InboxOrder
    <3>2. \A i \in Heads(c) : inbox'[c][i].id \in 1 .. sent[c]
      BY <1>7, <1>9
    <3>3. /\ sent[c] \in Nat /\ sent'[c] \in Nat /\ k = sent[c] + 1
          /\ 1 .. sent[c] \subseteq 1 .. sent'[c] /\ k \in 1 .. sent'[c]
          /\ \A n \in 1 .. sent[c] : n < k
      <4> DEFINE x == sent[c]
                 y == sent'[c]
      <4>1. x \in Nat /\ y = x + 1 /\ k = x + 1
        BY <1>2, <1>9
      <4> HIDE DEF x, y
      <4>2. y \in Nat /\ k = x + 1 /\ 1 .. x \subseteq 1 .. y /\ k \in 1 .. y /\ \A n \in 1 .. x : n < k
        BY <4>1
      <4> QED
        BY <4>1, <4>2 DEF x, y
    <3>4. \A i \in Heads(c)' : inbox'[c][i].id \in 1 .. sent'[c]
      <4> TAKE i \in Heads(c)'
      <4>1. CASE i \in Heads(c)
        <5>1. inbox'[c][i].id \in 1 .. sent[c]
          BY <3>2, <4>1
        <5> QED
          BY <3>3, <5>1
      <4>2. CASE i = Len(in) + 1
        <5>1. inbox'[c][i].id = k
          BY <1>7, <4>2
        <5> QED
          BY <3>3, <5>1
      <4> QED
        BY <1>7, <4>1, <4>2
    <3>5. \A i, j \in Heads(c)' : i < j => inbox'[c][i].id < inbox'[c][j].id
      <4> TAKE i, j \in Heads(c)'
      <4> HAVE i < j
      <4>1. i \in Heads(c) /\ i \in 1 .. Len(in)
        <5>1. i # Len(in) + 1
          <6>1. j \in 1 .. Len(in) \/ j = Len(in) + 1
            BY <1>7
          <6> QED
            BY <1>7, <6>1
        <5> QED
          BY <1>7, <5>1
      <4>2. CASE j \in Heads(c)
        <5>1. inbox[c][i].id < inbox[c][j].id
          BY <3>1, <4>1, <4>2
        <5> QED
          BY <1>7, <4>1, <4>2, <5>1
      <4>3. CASE j = Len(in) + 1
        <5>1. inbox'[c][i].id \in 1 .. sent[c] /\ inbox'[c][j].id = k
          BY <1>7, <3>2, <4>1, <4>3
        <5> QED
          BY <3>3, <5>1
      <4> QED
        BY <1>7, <4>2, <4>3
    <3>6. \A m \in Waiting(c) : \A n \in Answered(c) : n < m
      BY DEF Orders, InboxOrder
    <3>7. \A m \in Waiting(c)' : \A n \in Answered(c)' : n < m
      BY <1>2, <1>3, <1>8, <1>9, <3>6
    <3> QED
      BY <3>4, <3>5, <3>7
  <2>2. ASSUME NEW d \in Conns \ {c}
        PROVE  /\ \A i \in Heads(d)' : inbox'[d][i].id \in 1 .. sent'[d]
               /\ \A i, j \in Heads(d)' : i < j => inbox'[d][i].id < inbox'[d][j].id
               /\ \A m \in Waiting(d)' : \A n \in Answered(d)' : n < m
    BY <1>2, <1>3, <1>4 DEF Orders, InboxOrder
  <2> QED
    BY <2>1, <2>2 DEF InboxOrder
<1>11. AnswerOrder'
  <2>1. ASSUME NEW w \in Workers, NEW d \in Conns, conn[w] = d, pc[w] \in Answering
        PROVE  /\ ctx[w].id \in 1 .. sent'[d]
               /\ \A n \in Answered(d)' : n < ctx[w].id
               /\ \A m \in Waiting(d)' : ctx[w].id < m
    <3>1. /\ ctx[w].id \in 1 .. sent[d]
          /\ \A n \in Answered(d) : n < ctx[w].id
          /\ \A m \in Waiting(d) : ctx[w].id < m
      BY <2>1 DEF Orders, AnswerOrder
    <3>2. CASE d = c
      BY <1>2, <1>3, <1>8, <1>9, <3>1, <3>2
    <3>3. CASE d # c
      BY <1>2, <1>3, <1>4, <3>1, <3>3
    <3> QED
      BY <3>2, <3>3
  <2>2. ASSUME NEW d \in Conns
        PROVE  Answered(d)' \subseteq 1 .. sent'[d] /\ skipped[d] \subseteq 1 .. sent'[d]
    <3>1. Answered(d) \subseteq 1 .. sent[d] /\ skipped[d] \subseteq 1 .. sent[d]
      BY DEF Orders, AnswerOrder
    <3>2. CASE d = c
      BY <1>2, <1>3, <1>9, <3>1, <3>2
    <3>3. CASE d # c
      BY <1>2, <1>3, <3>1, <3>3
    <3> QED
      BY <3>2, <3>3
  <2> QED
    BY <1>3, <2>1, <2>2 DEF Orders, AnswerOrder
<1>12. Covered'
  <2>1. ASSUME NEW m \in 1 .. sent'[c], where[c] # "closed"
        PROVE  \/ m \in Answered(c)' \cup skipped[c] \cup Waiting(c)'
               \/ \E w \in Workers : conn[w] = c /\ Unanswered(w) /\ ctx[w].id = m
    <3>1. m \in 1 .. sent[c] \/ m = k
      BY <1>2, <1>9
    <3> QED
      BY <1>3, <1>8, <2>1, <3>1 DEF Orders, Covered
  <2>2. ASSUME NEW d \in Conns \ {c}, NEW m \in 1 .. sent'[d], where[d] # "closed"
        PROVE  \/ m \in Answered(d)' \cup skipped[d] \cup Waiting(d)'
               \/ \E w \in Workers : conn[w] = d /\ Unanswered(w) /\ ctx[w].id = m
    BY <1>2, <1>3, <1>4, <2>2 DEF Orders, Covered
  <2> QED
    BY <2>1, <2>2 DEF Covered, Unanswered, Finishing
<1>13. InOrder'
  BY <1>3 DEF Orders, InOrder
<1> QED
  BY <1>10, <1>11, <1>12, <1>13 DEF Orders

LEMMA OrdersSends ==
  ASSUME Types, Orders, NEW c \in Conns, Sends(c)
  PROVE  Orders'
<1>1. PICK t \in Tokens :
        /\ inbox' = [inbox EXCEPT ![c] = Append(@, t)]
        /\ \/ ~t.head /\ sent' = sent
           \/ t.head /\ t.id = sent[c] + 1 /\ sent' = [sent EXCEPT ![c] = @ + 1]
        /\ UNCHANGED <<where, wire, skipped, kept, pc, conn, ctx>>
  BY ArrivedFrom
<1> QED
  BY <1>1, OrdersText, OrdersHead

LEMMA OrdersReadHeader ==
  ASSUME Types, Served, Orders, NEW w \in Workers, ReadHeader(w)
  PROVE  Orders'
<1>1. PICK c \in Conns, h \in Nat, off \in Nat, S \in SUBSET Nat : HeaderTaken(w, c, h, off, S)
  BY HeaderRead
<1> DEFINE k == inbox[c][h].id
<1>2. /\ conn[w] = c /\ pc[w] = "ingress" /\ pc' = [pc EXCEPT ![w] = "validate"]
      /\ UNCHANGED <<sent, where, wire, kept, conn>>
      /\ \A d \in Conns \ {c} : inbox'[d] = inbox[d] /\ skipped'[d] = skipped[d]
  BY <1>1 DEF HeaderTaken
<1>3. /\ h \in Heads(c) /\ (\A j \in Heads(c) : h <= j) /\ h <= off
      /\ off <= Len(inbox[c]) /\ Len(inbox[c]) \in Nat
      /\ DOMAIN inbox'[c] = 1 .. Len(inbox[c]) - off
      /\ \A i \in 1 .. Len(inbox[c]) - off :
           /\ off + i \in DOMAIN inbox[c]
           /\ inbox'[c][i].id = inbox[c][off + i].id
           /\ inbox'[c][i].head => inbox[c][off + i].head
  BY <1>1 DEF HeaderTaken
<1>4. /\ S \subseteq Waiting(c) /\ skipped'[c] = skipped[c] \cup S
      /\ \A j \in Heads(c) :
           \/ j = h \/ inbox[c][j].id \in S
           \/ j > off /\ inbox'[c][j - off].head
  BY <1>1 DEF HeaderTaken, Types
<1>5. PICK req \in Requests :
        ctx' = [ctx EXCEPT ![w] = [NoCtx EXCEPT !.id = inbox[c][h].id, !.req = req]]
  BY <1>1 DEF HeaderTaken
<1>6. k \in Nat /\ k \in 1 .. sent[c]
  BY <1>3 DEF Orders, InboxOrder, Types
<1>7. ctx'[w].id = k /\ \A v \in Workers \ {w} : ctx'[v] = ctx[v]
  <2> DEFINE r == [NoCtx EXCEPT !.id = k, !.req = req]
  <2>1. r.id = k
    BY <1>6, NoCtxIs
  <2>2. ctx' = [ctx EXCEPT ![w] = r]
    BY <1>5
  <2> HIDE DEF r
  <2> QED
    BY <2>1, <2>2 DEF Types
<1>8. pc'[w] = "validate" /\ \A v \in Workers \ {w} : pc'[v] = pc[v]
  BY <1>2 DEF Types
<1>9. \A d \in Conns : Own(d)' = Own(d) /\ Answered(d)' = Answered(d)
  BY <1>2, QuietSame, QuietAnswered DEF Quiet
<1>10. \A d \in Conns \ {c} : Heads(d)' = Heads(d) /\ Waiting(d)' = Waiting(d)
  BY <1>2 DEF Heads, Waiting
<1>11. \A v \in Workers : conn[v] = c => ~Unanswered(v) /\ (v # w => pc[v] \notin Answering)
  BY <1>2 DEF Served, Serving, Answering, Unanswered, Finishing
<1>12. "validate" \in Answering /\ "ingress" \notin Answering
  BY DEF Answering
<1> HIDE DEF k
<1>13. \A i \in Heads(c)' : off + i \in Heads(c) /\ i \in Nat /\ h < off + i
                             /\ inbox'[c][i].id = inbox[c][off + i].id
  BY <1>3 DEF Heads
<1>14. /\ \A j \in Heads(c) : inbox[c][j].id \in 1 .. sent[c]
       /\ \A i, j \in Heads(c) : i < j => inbox[c][i].id < inbox[c][j].id
       /\ \A m \in Waiting(c) : m \in 1 .. sent[c] /\ \A n \in Answered(c) : n < m
  BY DEF Orders, InboxOrder, Waiting
<1>15. \A m \in Waiting(c)' : m \in Waiting(c) /\ k < m
  <2> TAKE m \in Waiting(c)'
  <2>1. PICK i \in Heads(c)' : m = inbox'[c][i].id
    BY DEF Waiting
  <2> QED
    BY <1>3, <1>13, <1>14, <2>1 DEF Waiting, k
<1>16. k \in Waiting(c)
  BY <1>3 DEF Waiting, k
<1>17. InboxOrder'
  <2>1. /\ \A i \in Heads(c)' : inbox'[c][i].id \in 1 .. sent[c]
        /\ \A i, j \in Heads(c)' : i < j => inbox'[c][i].id < inbox'[c][j].id
    BY <1>13, <1>14
  <2>2. \A m \in Waiting(c)' : \A n \in Answered(c)' : n < m
    BY <1>9, <1>14, <1>15
  <2>3. ASSUME NEW d \in Conns \ {c}
        PROVE  /\ \A i \in Heads(d)' : inbox'[d][i].id \in 1 .. sent[d]
               /\ \A i, j \in Heads(d)' : i < j => inbox'[d][i].id < inbox'[d][j].id
               /\ \A m \in Waiting(d)' : \A n \in Answered(d)' : n < m
    BY <1>2, <1>9, <1>10 DEF Orders, InboxOrder
  <2> QED
    BY <1>2, <2>1, <2>2, <2>3 DEF InboxOrder
<1>18. AnswerOrder'
  <2>1. ASSUME NEW v \in Workers, NEW d \in Conns, conn[v] = d, pc'[v] \in Answering
        PROVE  /\ ctx'[v].id \in 1 .. sent[d]
               /\ \A n \in Answered(d)' : n < ctx'[v].id
               /\ \A m \in Waiting(d)' : ctx'[v].id < m
    <3>1. CASE v = w
      BY <1>2, <1>6, <1>7, <1>9, <1>14, <1>15, <1>16, <2>1, <3>1
    <3>2. CASE v # w
      <4>1. pc[v] \in Answering /\ ctx'[v] = ctx[v] /\ d # c
        BY <1>7, <1>8, <1>11, <2>1, <3>2
      <4> QED
        BY <1>9, <1>10, <2>1, <4>1 DEF Orders, AnswerOrder
    <3> QED
      BY <3>1, <3>2
  <2>2. ASSUME NEW v \in Workers, NEW d \in Conns, conn[v] = d, pc'[v] = "finish", ~ctx'[v].failed
        PROVE  ctx'[v].id \in Answered(d)'
    <3>1. v # w /\ pc[v] = "finish" /\ ctx'[v] = ctx[v]
      BY <1>7, <1>8, <2>2
    <3> QED
      BY <1>9, <2>2, <3>1 DEF Orders, AnswerOrder
  <2>3. ASSUME NEW d \in Conns
        PROVE  skipped'[d] \subseteq 1 .. sent[d]
    <3>1. skipped[d] \subseteq 1 .. sent[d]
      BY DEF Orders, AnswerOrder
    <3> QED
      BY <1>2, <1>4, <1>14, <3>1
  <2> QED
    BY <1>2, <1>9, <2>1, <2>2, <2>3 DEF Orders, AnswerOrder
<1>19. Covered'
  <2>1. ASSUME NEW m \in 1 .. sent[c], where[c] # "closed"
        PROVE  \/ m \in Answered(c) \cup skipped'[c] \cup Waiting(c)'
               \/ \E v \in Workers : conn[v] = c /\ Unanswered(v)' /\ ctx'[v].id = m
    <3>1. CASE m \in Answered(c) \cup skipped[c]
      BY <1>4, <3>1
    <3>2. CASE \E v \in Workers : conn[v] = c /\ Unanswered(v) /\ ctx[v].id = m
      BY <1>11, <3>2
    <3>3. CASE m \in Waiting(c)
      <4>1. PICK j \in Heads(c) : m = inbox[c][j].id
        BY <3>3 DEF Waiting
      <4>2. CASE j = h
        BY <1>2, <1>7, <1>8, <1>12, <4>1, <4>2 DEF k, Unanswered, Finishing
      <4>3. CASE m \in S
        BY <1>4, <4>3
      <4>4. CASE j > off /\ inbox'[c][j - off].head
        <5>1. j - off \in 1 .. Len(inbox[c]) - off /\ off + (j - off) = j
          <6>1. DOMAIN inbox[c] = 1 .. Len(inbox[c])
            BY DEF Types
          <6>2. j \in 1 .. Len(inbox[c])
            BY <4>1, <6>1 DEF Heads
          <6> QED
            BY <1>3, <4>4, <6>2
        <5>2. j - off \in Heads(c)' /\ inbox'[c][j - off].id = m
          BY <1>3, <4>1, <4>4, <5>1 DEF Heads
        <5> QED
          BY <5>2 DEF Waiting
      <4> QED
        BY <1>4, <4>1, <4>2, <4>3, <4>4
    <3> QED
      BY <2>1, <3>1, <3>2, <3>3 DEF Orders, Covered
  <2>2. ASSUME NEW d \in Conns \ {c}, NEW m \in 1 .. sent[d], where[d] # "closed"
        PROVE  \/ m \in Answered(d) \cup skipped'[d] \cup Waiting(d)'
               \/ \E v \in Workers : conn[v] = d /\ Unanswered(v)' /\ ctx'[v].id = m
    <3>1. \A v \in Workers : conn[v] = d => pc'[v] = pc[v] /\ ctx'[v] = ctx[v]
      BY <1>2, <1>7, <1>8
    <3> QED
      BY <1>2, <1>10, <2>2, <3>1 DEF Orders, Covered, Unanswered, Finishing
  <2> QED
    BY <1>2, <1>9, <2>1, <2>2 DEF Covered
<1>20. InOrder'
  <2>1. \A d \in Conns : skipped[d] \subseteq skipped'[d]
    BY <1>2, <1>4
  <2> QED
    BY <1>9, <2>1 DEF Orders, InOrder
<1> QED
  BY <1>17, <1>18, <1>19, <1>20 DEF Orders

(* A response is written, its body or not.                                 *)
LEMMA OrdersWrites ==
  ASSUME Types, Served, Numbers, Orders, NEW w \in Workers, Send(w),
         NEW c \in Conns, c = conn[w], NEW r \in Contexts, ctx' = [ctx EXCEPT ![w] = r],
         r.id = ctx[w].id, NEW m \in Answers, m.id = ctx[w].id, Write(c, m)
  PROVE  Orders'
<1>2. /\ pc[w] = "send" /\ pc' = [pc EXCEPT ![w] = "finish"]
      /\ UNCHANGED <<sent, inbox, where, skipped, kept, conn>>
  BY Sent
<1>3. where[c] = "served" /\ Open(c)
  BY <1>2 DEF Served, Serving, Open
<1>4. wire' = [wire EXCEPT ![c] = Append(wire[c], m)] /\ wire' \in [Conns -> Seq(Answers \cup Alerts)]
  BY <1>3, OpenWrite
<1>5. "send" \in Answering /\ "finish" \notin Answering
  BY DEF Answering
<1>6. PICK k \in Nat : /\ k = ctx[w].id /\ k \in 1 .. sent[c] /\ \A a \in Answered(c) : a < k
                     /\ \A b \in Waiting(c) : k < b
  BY <1>2, <1>5 DEF Orders, AnswerOrder, Types
<1>7. m.id = k /\ k > 0 /\ sent[c] \in Nat
  BY <1>6 DEF Types
<1>8. PICK n : n = Len(wire[c]) + 1
  OBVIOUS
<1>9. /\ \A d \in Conns \ {c} : wire'[d] = wire[d] /\ Own(d)' = Own(d)
                                 /\ Answered(d)' = Answered(d)
      /\ Own(c)' = Own(c) \cup {n} /\ Len(wire[c]) \in Nat
      /\ \A i \in Own(c) : i \in 1 .. Len(wire[c]) /\ wire'[c][i] = wire[c][i]
      /\ wire'[c][n] = m
      /\ Answered(c)' = Answered(c) \cup {k}
  BY <1>4, <1>7, <1>8, AnswerWritten
<1>10. pc'[w] = "finish" /\ \A v \in Workers \ {w} : pc'[v] = pc[v]
  BY <1>2 DEF Types
<1>11. \A v \in Workers : ctx'[v].id = ctx[v].id
  BY DEF Types
<1>12. \A d \in Conns : Heads(d)' = Heads(d) /\ Waiting(d)' = Waiting(d)
  BY <1>2 DEF Heads, Waiting
<1>13. \A v \in Workers \ {w} : conn[v] = c => ~Unanswered(v) /\ pc[v] \notin Answering
  BY <1>2 DEF Served, Serving, Answering, Unanswered, Finishing
<1>14. \A d \in Conns : /\ Answered(d) \subseteq 1 .. sent[d] /\ skipped[d] \subseteq 1 .. sent[d]
                        /\ \A i, j \in Own(d) : i < j => wire[d][i].id < wire[d][j].id
                        /\ kept[d] \subseteq Answered(d)
                        /\ \A a \in Waiting(d) : \A b \in Answered(d) : b < a
  BY DEF Orders, AnswerOrder, InboxOrder
<1>15. \A i \in Own(c) : wire[c][i].id \in Answered(c)
  BY DEF Answered
<1>16. InboxOrder'
  <2>1. \A d \in Conns : \A a \in Waiting(d)' : \A b \in Answered(d)' : b < a
    <3> TAKE d \in Conns
    <3>1. CASE d = c
      BY <1>6, <1>9, <1>12, <1>14, <3>1
    <3>2. CASE d # c
      BY <1>9, <1>12, <1>14, <3>2
    <3> QED
      BY <3>1, <3>2
  <2> QED
    BY <1>2, <1>12, <2>1 DEF Orders, InboxOrder
<1>17. \A d \in Conns : \A i, j \in Own(d)' : i < j => wire'[d][i].id < wire'[d][j].id
  <2> TAKE d \in Conns
  <2>1. CASE d = c
    <3> TAKE i, j \in Own(d)'
    <3> HAVE i < j
    <3>1. i \in Own(c) /\ (j \in Own(c) \/ j = n)
      <4>1. j \in 1 .. Len(wire[c]) \/ j = n
        BY <1>9, <2>1
      <4>2. i # n
        BY <1>9, <1>8, <4>1
      <4> QED
        BY <1>9, <2>1, <4>2
    <3>2. CASE j \in Own(c)
      BY <1>9, <1>14, <2>1, <3>1, <3>2
    <3>3. CASE j = n
      <4>1. wire'[c][i].id \in Answered(c) /\ wire'[c][j].id = k
        BY <1>7, <1>9, <1>15, <3>1, <3>3
      <4> QED
        BY <1>6, <2>1, <4>1
    <3> QED
      BY <3>1, <3>2, <3>3
  <2>2. CASE d # c
    BY <1>9, <1>14, <2>2
  <2> QED
    BY <2>1, <2>2
<1>18. AnswerOrder'
  <2>1. ASSUME NEW v \in Workers, NEW d \in Conns, conn[v] = d, pc'[v] \in Answering
        PROVE  /\ ctx'[v].id \in 1 .. sent[d]
               /\ \A a \in Answered(d)' : a < ctx'[v].id
               /\ \A b \in Waiting(d)' : ctx'[v].id < b
    <3>1. v # w /\ pc[v] \in Answering /\ d # c
      BY <1>5, <1>10, <1>13, <2>1
    <3> QED
      BY <1>9, <1>11, <1>12, <2>1, <3>1 DEF Orders, AnswerOrder
  <2>2. ASSUME NEW v \in Workers, NEW d \in Conns, conn[v] = d, pc'[v] = "finish",
               ~ctx'[v].failed
        PROVE  ctx'[v].id \in Answered(d)'
    <3>1. CASE v = w
      BY <1>6, <1>9, <1>11, <2>2, <3>1
    <3>2. CASE v # w
      <4>1. pc[v] = "finish" /\ ~ctx[v].failed
        BY <1>10, <2>2, <3>2 DEF Types
      <4>2. ctx[v].id \in Answered(d)
        BY <2>2, <4>1 DEF Orders, AnswerOrder
      <4>3. Answered(d) \subseteq Answered(d)'
        BY <1>9
      <4> QED
        BY <1>11, <4>2, <4>3
    <3> QED
      BY <3>1, <3>2
  <2>3. \A d \in Conns : kept[d] \subseteq Answered(d)' /\ Answered(d)' \subseteq 1 .. sent[d]
    <3> TAKE d \in Conns
    <3>1. CASE d = c
      BY <1>6, <1>9, <1>14, <3>1
    <3>2. CASE d # c
      BY <1>9, <1>14, <3>2
    <3> QED
      BY <3>1, <3>2
  <2> QED
    BY <1>2, <1>14, <1>17, <2>1, <2>2, <2>3 DEF AnswerOrder
<1>19. Covered'
  <2>1. ASSUME NEW d \in Conns, NEW a \in 1 .. sent[d], where[d] # "closed"
        PROVE  \/ a \in Answered(d)' \cup skipped[d] \cup Waiting(d)
               \/ \E v \in Workers : conn[v] = d /\ Unanswered(v)' /\ ctx'[v].id = a
    <3>1. CASE a \in Answered(d) \cup skipped[d] \cup Waiting(d)
      BY <1>9, <3>1
    <3>2. ASSUME NEW v \in Workers, conn[v] = d, Unanswered(v), ctx[v].id = a
          PROVE  \/ a \in Answered(d)'
                 \/ Unanswered(v)' /\ ctx'[v].id = a
      <4>1. CASE v = w
        BY <1>6, <1>9, <3>2, <4>1
      <4>2. CASE v # w
        BY <1>10, <1>11, <3>2, <4>2 DEF Unanswered, Finishing, Types
      <4> QED
        BY <4>1, <4>2
    <3> QED
      BY <2>1, <3>1, <3>2 DEF Orders, Covered
  <2> QED
    BY <1>2, <1>12, <2>1 DEF Covered
<1>20. InOrder'
  <2>1. \A d \in Conns : \A a \in Answered(d)' : 1 .. a \subseteq Answered(d)' \cup skipped[d]
    <3>1. \A d \in Conns : \A a \in Answered(d) : 1 .. a \subseteq Answered(d) \cup skipped[d]
      BY DEF Orders, InOrder
    <3>2. \A a \in 1 .. k : a \in Answered(c)' \cup skipped[c]
      <4> TAKE a \in 1 .. k
      <4>1. CASE a = k
        BY <1>9, <4>1
      <4>2. CASE a # k
        <5>1. a \in 1 .. sent[c] /\ a < k
          BY <1>6, <1>7, <4>2
        <5>2. a \notin Waiting(c)
          BY <1>6, <1>7, <5>1
        <5>3. ASSUME NEW v \in Workers, conn[v] = c, Unanswered(v)
              PROVE  ctx[v].id = k
          BY <1>6, <1>13, <5>3
        <5>4. a \in Answered(c) \cup skipped[c]
          BY <1>3, <4>2, <5>1, <5>2, <5>3 DEF Orders, Covered
        <5> QED
          BY <1>9, <5>4
      <4> QED
        BY <4>1, <4>2
    <3> TAKE d \in Conns
    <3>3. CASE d = c
      BY <1>9, <3>1, <3>2, <3>3
    <3>4. CASE d # c
      BY <1>9, <3>1, <3>4
    <3> QED
      BY <3>3, <3>4
  <2> QED
    BY <1>2, <2>1 DEF InOrder
<1> QED
  BY <1>16, <1>18, <1>19, <1>20 DEF Orders

LEMMA OrdersSend ==
  ASSUME Types, Served, Numbers, Orders, NEW w \in Workers, Send(w)
  PROVE  Orders'
<1>1. PICK r \in Contexts :
        /\ ctx' = [ctx EXCEPT ![w] = r] /\ r.id = ctx[w].id
        /\ \/ r.failed /\ wire' = wire
           \/ \E m \in Answers : m.id = ctx[w].id /\ Write(conn[w], m)
  BY Sent
<1>2. /\ pc[w] = "send" /\ conn[w] \in Conns /\ pc' = [pc EXCEPT ![w] = "finish"]
      /\ UNCHANGED <<sent, inbox, where, skipped, kept, conn>>
  BY Sent
<1>3. CASE \E m \in Answers : m.id = ctx[w].id /\ Write(conn[w], m)
  BY <1>1, <1>2, <1>3, OrdersWrites
<1>4. CASE r.failed /\ wire' = wire
  <2>1. /\ pc'[w] = "finish" /\ ctx'[w] = r
        /\ \A v \in Workers \ {w} : pc'[v] = pc[v] /\ ctx'[v] = ctx[v]
    BY <1>1, <1>2 DEF Types
  <2>2. /\ \A v \in Workers : pc'[v] \in Answering =>
             pc[v] \in Answering /\ conn'[v] = conn[v] /\ ctx'[v].id = ctx[v].id
        /\ \A v \in Workers : pc'[v] = "finish" /\ ~ctx'[v].failed =>
             /\ pc[v] = "finish" /\ ~ctx[v].failed
             /\ conn'[v] = conn[v] /\ ctx'[v].id = ctx[v].id
    BY <1>1, <1>2, <1>4, <2>1 DEF Answering
  <2>3. \A v \in Workers : Unanswered(v) =>
          Unanswered(v)' /\ conn'[v] = conn[v] /\ ctx'[v].id = ctx[v].id
    BY <1>1, <1>2, <1>4, <2>1 DEF Unanswered, Finishing
  <2>4. \A c \in Conns : kept'[c] \subseteq Answered(c) /\ SameHeads(c)
    BY <1>2, SameInbox DEF Orders, AnswerOrder
  <2> QED
    BY <1>2, <1>4, <2>2, <2>3, <2>4, QuietSame, OrdersQuiet
<1> QED
  BY <1>1, <1>3, <1>4

LEMMA OrdersStep ==
  ASSUME Types, Served, Numbers, Orders, [Next]_vars
  PROVE  Orders'
<1>1. \A c \in Conns : kept[c] \subseteq Answered(c)
  BY DEF Orders, AnswerOrder
<1>0. \A c \in Conns : where[c] = "closed" => where'[c] = "closed"
  BY ClosedStays
(* Steps that leave the workers' requests and all connections alone.       *)
<1>2. ASSUME UNCHANGED <<sent, inbox, skipped, kept>>, Quiet,
             \A v \in Workers : pc'[v] \in Answering <=> pc[v] \in Answering,
             \A v \in Workers : pc[v] \in Answering \cup Finishing => GoesOn(v),
             \A v \in Workers : pc[v] \in Finishing => pc'[v] \in Finishing,
             \A v \in Workers : pc'[v] = "finish" => pc[v] = "finish"
      PROVE  Orders'
  <2>1. \A v \in Workers : pc'[v] \in Answering =>
          pc[v] \in Answering /\ conn'[v] = conn[v] /\ ctx'[v].id = ctx[v].id
    BY <1>2 DEF GoesOn
  <2>2. \A v \in Workers : pc'[v] = "finish" /\ ~ctx'[v].failed =>
          /\ pc[v] = "finish" /\ ~ctx[v].failed
          /\ conn'[v] = conn[v] /\ ctx'[v].id = ctx[v].id
    BY <1>2 DEF GoesOn, Finishing
  <2>3. \A v \in Workers : Unanswered(v) =>
          Unanswered(v)' /\ conn'[v] = conn[v] /\ ctx'[v].id = ctx[v].id
    BY <1>2 DEF GoesOn, Unanswered
  <2>4. \A c \in Conns : SameHeads(c)
    BY <1>2, SameInbox
  <2> QED
    BY <1>0, <1>1, <1>2, <2>1, <2>2, <2>3, <2>4, OrdersQuiet
<1>3. CASE UNCHANGED <<sent, inbox, skipped, kept, wire, where, pc, conn, ctx>>
  BY <1>2, <1>3, QuietSame DEF GoesOn
<1>4. ASSUME NEW c \in Conns, Accept(c)
      PROVE  Orders'
  <2>1. /\ UNCHANGED <<sent, inbox, skipped, kept, wire, pc, conn, ctx>>
    BY <1>4 DEF Accept, client, history, worker
  <2> QED
    BY <1>2, <2>1, QuietSame DEF GoesOn
<1>5. ASSUME NEW c \in Conns, WaitRoom(c)
      PROVE  Orders'
  <2>1. UNCHANGED <<sent, inbox, skipped, kept, wire, pc, conn, ctx>>
    BY <1>5 DEF WaitRoom, client, history, worker
  <2> QED
    BY <1>2, <2>1, QuietSame DEF GoesOn
<1>6. ASSUME NEW w \in Workers, NEW c \in Conns, Pop(w, c)
      PROVE  Orders'
  <2>1. /\ UNCHANGED <<sent, inbox, skipped, kept, wire, ctx>> /\ pc[w] = "pop"
        /\ pc' = [pc EXCEPT ![w] = "ingress"] /\ conn' = [conn EXCEPT ![w] = c]
    BY <1>6 DEF Pop, client, history
  <2>3. /\ pc'[w] = "ingress" /\ \A v \in Workers \ {w} : pc'[v] = pc[v] /\ conn'[v] = conn[v]
    BY <2>1 DEF Types
  <2> QED
    BY <1>2, <2>1, <2>3, QuietSame DEF GoesOn, Answering, Finishing
<1>7. ASSUME NEW w \in Workers, IngressFails(w)
      PROVE  Orders'
  <2>1. PICK r \in Contexts : ctx' = [ctx EXCEPT ![w] = r]
    BY <1>7, IngressFailed
  <2>2. /\ pc[w] = "ingress" /\ pc' = [pc EXCEPT ![w] = "close"] /\ conn[w] \in Conns
        /\ UNCHANGED <<sent, inbox, where, skipped, kept, conn>>
    BY <1>7, IngressFailed
  <2>3. Quiet
    BY <1>7, <2>2, IngressFailed, QuietSame, QuietWrite
  <2>4. pc'[w] = "close" /\ \A v \in Workers \ {w} : pc'[v] = pc[v] /\ ctx'[v] = ctx[v]
    BY <2>1, <2>2 DEF Types
  <2> QED
    BY <1>2, <2>2, <2>3, <2>4 DEF GoesOn, Answering, Finishing
<1>8. ASSUME NEW w \in Workers, Handle(w) \/ Copy(w) \/ Format(w)
      PROVE  Orders'
  <2>1. /\ pc[w] \in Answering
        /\ UNCHANGED <<sent, inbox, wire, skipped, kept, conn>>
    BY <1>8 DEF Handle, Copy, Format, Answering, client, history
  <2>2. \E p \in {"format", "copy", "send"} : pc' = [pc EXCEPT ![w] = p]
    BY <1>8, Handled, Copied, Formatted
  <2>3. \A v \in Workers : ctx'[v].id = ctx[v].id /\ ctx'[v].failed = ctx[v].failed
    <3>1. CASE Handle(w) \/ Copy(w)
      <4>1. \E r \in Contexts : /\ r.id = ctx[w].id /\ r.failed = ctx[w].failed
                                /\ ctx' = [ctx EXCEPT ![w] = r]
        BY <3>1, Handled, Copied
      <4> QED
        BY <4>1 DEF Types
    <3>2. CASE Format(w)
      BY <3>2, Formatted DEF SameWork
    <3> QED
      BY <1>8, <3>1, <3>2
  <2>4. /\ pc'[w] \in {"format", "copy", "send"} /\ \A v \in Workers \ {w} : pc'[v] = pc[v]
    BY <2>2 DEF Types
  <2> QED
    BY <1>2, <2>1, <2>3, <2>4, QuietSame DEF GoesOn, Answering, Finishing
<1>9. ASSUME NEW w \in Workers, Keep(w)
      PROVE  Orders'
  <2>1. /\ pc[w] = "finish" /\ ~ctx[w].failed /\ conn[w] \in Conns
        /\ kept' = [kept EXCEPT ![conn[w]] = @ \cup {ctx[w].id}]
        /\ UNCHANGED <<sent, inbox, wire, skipped>> /\ Done(w)
    BY <1>9, ConnIs DEF Keep, client
  <2>4. /\ pc'[w] = "pop"
        /\ \A v \in Workers \ {w} : pc'[v] = pc[v] /\ GoesOn(v)
    BY <2>1 DEF Done, Set, GoesOn, Types
  <2>5. ASSUME NEW c \in Conns
        PROVE  kept'[c] \subseteq Answered(c)
    <3>1. CASE c = conn[w]
      <4>1. ctx[w].id \in Answered(c)
        BY <2>1, <3>1 DEF Orders, AnswerOrder
      <4>2. kept'[c] = kept[c] \cup {ctx[w].id}
        BY <2>1, <3>1 DEF Types
      <4> QED
        BY <1>1, <4>1, <4>2
    <3>2. CASE c # conn[w]
      BY <1>1, <2>1, <3>2 DEF Types
    <3> QED
      BY <3>1, <3>2
  <2>6. /\ \A v \in Workers : pc'[v] \in Answering =>
             pc[v] \in Answering /\ conn'[v] = conn[v] /\ ctx'[v].id = ctx[v].id
        /\ \A v \in Workers : pc'[v] = "finish" /\ ~ctx'[v].failed =>
             /\ pc[v] = "finish" /\ ~ctx[v].failed
             /\ conn'[v] = conn[v] /\ ctx'[v].id = ctx[v].id
    BY <2>1, <2>4 DEF Answering, GoesOn
  <2>7. \A v \in Workers : Unanswered(v) =>
          Unanswered(v)' /\ conn'[v] = conn[v] /\ ctx'[v].id = ctx[v].id
    BY <2>1, <2>4 DEF Unanswered, Answering, GoesOn
  <2>8. \A c \in Conns : SameHeads(c)
    BY <2>1, SameInbox
  <2> QED
    BY <1>0, <2>1, <2>5, <2>6, <2>7, <2>8, QuietSame, OrdersQuiet
<1>10. ASSUME NEW w \in Workers, Drop(w)
       PROVE  Orders'
  <2>1. /\ pc[w] = "finish" /\ (\E p \in {"close", "closeAndBreak"} : pc' = [pc EXCEPT ![w] = p])
        /\ UNCHANGED <<sent, inbox, where, wire, skipped, kept, conn, ctx>>
    BY <1>10 DEF Drop, client, connection, history
  <2>2. /\ pc'[w] \in {"close", "closeAndBreak"} /\ \A v \in Workers \ {w} : pc'[v] = pc[v]
    BY <2>1 DEF Types
  <2> QED
    BY <1>2, <2>1, <2>2, QuietSame DEF GoesOn, Answering, Finishing
<1>11. ASSUME NEW w \in Workers, Close(w)
       PROVE  Orders'
  <2>1. /\ pc[w] \in {"close", "closeAndBreak"} /\ conn[w] \in Conns
        /\ where' = [where EXCEPT ![conn[w]] = "closed"]
        /\ inbox' = [inbox EXCEPT ![conn[w]] = << >>]
        /\ \E p \in {"notify", "notifyAndBreak"} : pc' = [pc EXCEPT ![w] = p]
        /\ UNCHANGED <<sent, wire, skipped, kept, conn, ctx>>
    BY <1>11, ConnIs DEF Close, history
  <2>2. /\ pc'[w] \in {"notify", "notifyAndBreak"} /\ \A v \in Workers \ {w} : pc'[v] = pc[v]
    BY <2>1 DEF Types
  <2>3. /\ where'[conn[w]] = "closed" /\ inbox'[conn[w]] = << >>
        /\ \A d \in Conns \ {conn[w]} : inbox'[d] = inbox[d]
    BY <2>1 DEF Types
  <2>4. \A d \in Conns : SameHeads(d) \/ (inbox'[d] = << >> /\ where'[d] = "closed")
    BY <2>3 DEF SameHeads, Heads
  <2>5. /\ \A v \in Workers : pc'[v] \in Answering => pc[v] \in Answering
        /\ \A v \in Workers : pc'[v] = "finish" => pc[v] = "finish"
    BY <2>2 DEF Answering
  <2>6. \A v \in Workers : Unanswered(v) => Unanswered(v)' \/ where'[conn[v]] = "closed"
    BY <2>1, <2>2, <2>3 DEF Unanswered
  <2> QED
    BY <1>0, <1>1, <2>1, <2>4, <2>5, <2>6, QuietSame, OrdersQuiet
<1>12. ASSUME NEW w \in Workers, Notify(w)
       PROVE  Orders'
  <2>1. /\ pc[w] \in {"notify", "notifyAndBreak"} /\ conn[w] \in Conns /\ Shutdown(conn[w])
        /\ \E p \in {"release", "exit"} : pc' = [pc EXCEPT ![w] = p]
        /\ UNCHANGED <<sent, inbox, skipped, kept, conn, ctx>>
    BY <1>12, ConnIs DEF Notify, client
  <2>2. /\ pc'[w] \in {"release", "exit"} /\ \A v \in Workers \ {w} : pc'[v] = pc[v]
    BY <2>1 DEF Types
  <2> QED
    BY <1>2, <2>1, <2>2, ShutdownWrites DEF GoesOn, Answering, Finishing
<1>13. ASSUME NEW w \in Workers, Release(w)
       PROVE  Orders'
  <2>1. pc[w] = "release" /\ Done(w) /\ UNCHANGED <<sent, inbox, wire, skipped, kept>>
    BY <1>13 DEF Release, client, history
  <2>2. pc'[w] = "pop" /\ \A v \in Workers \ {w} : pc'[v] = pc[v] /\ GoesOn(v)
    BY <2>1 DEF Done, Set, GoesOn, Types
  <2> QED
    BY <1>2, <2>1, <2>2, QuietSame DEF Answering, Finishing
<1>14. ASSUME NEW c \in Conns, Sends(c)
       PROVE  Orders'
  BY <1>14, OrdersSends
<1>15. ASSUME NEW w \in Workers, ReadHeader(w) \/ Send(w)
       PROVE  Orders'
  BY <1>15, OrdersReadHeader, OrdersSend
<1>16. SigTerm \/ UNCHANGED vars =>
         UNCHANGED <<sent, inbox, skipped, kept, wire, where, pc, conn, ctx>>
  BY DEF SigTerm, vars, client, connection, history, worker
<1>17. ASSUME NEW c \in Conns, WaitRoomCloses(c)
       PROVE  Orders'
  <2>1. /\ where' = [where EXCEPT ![c] = "closed"] /\ inbox' = [inbox EXCEPT ![c] = << >>]
        /\ UNCHANGED <<sent, skipped, kept, wire, pc, conn, ctx>>
    BY <1>17 DEF WaitRoomCloses, history, worker
  <2>2. /\ where'[c] = "closed" /\ inbox'[c] = << >>
        /\ \A d \in Conns \ {c} : inbox'[d] = inbox[d]
    BY <2>1 DEF Types
  <2>3. \A d \in Conns : SameHeads(d) \/ (inbox'[d] = << >> /\ where'[d] = "closed")
    BY <2>2 DEF SameHeads, Heads
  <2>4. \A v \in Workers : Unanswered(v)' <=> Unanswered(v)
    BY <2>1 DEF Unanswered
  <2> QED
    BY <1>0, <1>1, <2>1, <2>3, <2>4, QuietSame, OrdersQuiet
<1>18. CASE WaitRoomNotifies
  <2>1. /\ ending \in Conns /\ Shutdown(ending)
        /\ UNCHANGED <<sent, inbox, skipped, kept, pc, conn, ctx>>
    BY <1>18 DEF WaitRoomNotifies, Types, client, worker
  <2> QED
    BY <1>2, <2>1, ShutdownWrites DEF GoesOn
<1> QED
  BY <1>3, <1>4, <1>5, <1>6, <1>7, <1>8, <1>9, <1>10, <1>11, <1>12, <1>13, <1>14, <1>15, <1>16,
     <1>17, <1>18 DEF Next, WorkerStep, Sends

-----------------------------------------------------------------------------
(***************************************************************************)
(* The frames of the responses.                                            *)
(***************************************************************************)
LEMMA FramedQuiet ==
  ASSUME Framed, Quiet, kept' = kept, digits' = digits,
         \A v \in Workers : pc'[v] \in {"format", "copy", "send", "finish"} =>
           pc'[v] = pc[v] /\ conn'[v] = conn[v] /\ ctx'[v] = ctx[v]
  PROVE  Framed'
<1>1. ASSUME NEW v \in Workers
      PROVE  Ready(v)'
  BY DEF Framed, Ready, OwnSize, AsInt
<1>2. ASSUME NEW v \in Workers, NEW c \in Conns
      PROVE  Told(v, c)'
  BY DEF Framed, Told, Quiet, Right, HasFrame, OwnSize
<1>3. ASSUME NEW c \in Conns, NEW i \in Own(c)
      PROVE  Own(c)' = Own(c) /\ Sound(c, wire[c][i])' /\ wire'[c][i] = wire[c][i]
  <2>1. wire'[c][i] = wire[c][i] /\ Own(c)' = Own(c)
    BY DEF Quiet
  <2>2. Sound(c, wire[c][i])
    BY DEF Framed
  <2> QED
    BY <2>1, <2>2 DEF Sound, Right, HasFrame, OwnSize
<1>4. ASSUME NEW c \in Conns, NEW i \in Own(c)'
      PROVE  Sound(c, wire[c][i])'
  BY <1>3, <1>4 DEF Quiet
<1> QED
  BY <1>1, <1>2, <1>4 DEF Framed

(* A worker works on its response.                                         *)
LEMMA FramedWorks ==
  ASSUME Types, Framed, NEW w \in Workers, NEW p \in {"format", "copy", "send"},
         pc' = [pc EXCEPT ![w] = p], UNCHANGED <<wire, kept, conn>>,
         \A v \in Workers : pc[v] = "finish" /\ v # w => ctx'[v] = ctx[v],
         \A v \in Workers : Ready(v)'
  PROVE  Framed'
<1>1. pc'[w] = p /\ \A v \in Workers \ {w} : pc'[v] = pc[v]
  BY DEF Types
<1>2. \A c \in Conns : Own(c)' = Own(c) /\ \A i \in Own(c) : wire'[c][i] = wire[c][i]
  BY QuietSame DEF Quiet
<1>3. ASSUME NEW v \in Workers, NEW c \in Conns
      PROVE  Told(v, c)'
  <2> SUFFICES ASSUME conn'[v] = c, pc'[v] = "finish", ~ctx'[v].failed, NEW i \in Own(c),
                      wire[c][i].id = ctx'[v].id
               PROVE  wire[c][i].announce = ctx'[v].announce /\ Right(wire[c][i])
    BY <1>2 DEF Told, Right, HasFrame, OwnSize
  <2>1. pc[v] = "finish" /\ ctx'[v] = ctx[v] /\ conn[v] = c
    BY <1>1
  <2> QED
    BY <2>1 DEF Framed, Told
<1>4. ASSUME NEW c \in Conns, NEW i \in Own(c)'
      PROVE  Sound(c, wire[c][i])'
  <2>1. i \in Own(c)
    BY <1>2
  <2> QED
    BY <2>1 DEF Framed, Sound, Right, HasFrame, OwnSize
<1> QED
  BY <1>3, <1>4 DEF Framed

LEMMA FramedHandle ==
  ASSUME Types, Served, Framed, NEW w \in Workers, Handle(w)
  PROVE  Framed'
<1>1. PICK r \in Contexts, p \in {"format", "send"} :
        /\ ctx' = [ctx EXCEPT ![w] = r] /\ pc' = [pc EXCEPT ![w] = p]
        /\ \/ p = "format" /\ r.announce = "close"
           \/ /\ p = "format" /\ r.announce = "keep-alive" /\ r.status = 200
              /\ r.size = OwnSize(r.req)
           \/ p = "send" /\ r.req.method = "PUT"
  BY Handled
<1>2. UNCHANGED <<wire, kept, conn, digits>>
  BY Handled
<1>3. /\ pc'[w] = p /\ ctx'[w] = r
      /\ \A v \in Workers \ {w} : pc'[v] = pc[v] /\ ctx'[v] = ctx[v]
  BY <1>1 DEF Types
<1>4. ASSUME NEW v \in Workers
      PROVE  Ready(v)'
  <2>1. CASE v = w
    BY <1>1, <1>3, <2>1 DEF Ready, OwnSize
  <2>2. CASE v # w
    BY <1>2, <1>3, <2>2 DEF Framed, Ready, OwnSize, AsInt
  <2> QED
    BY <2>1, <2>2
<1> QED
  BY <1>1, <1>2, <1>3, <1>4, FramedWorks

LEMMA FramedFormat ==
  ASSUME Types, Served, Framed, NEW w \in Workers, Format(w)
  PROVE  Framed'
<1>1. /\ pc[w] = "format" /\ pc' = [pc EXCEPT ![w] = "copy"]
      /\ digits' = AsInt(ctx[w].size) /\ UNCHANGED <<wire, kept, conn>>
      /\ \A v \in Workers :
           /\ SameWork(v)
           /\ IF v # w /\ pc[v] = "copy" THEN "raced" \in ctx'[v].flaws
              ELSE ctx'[v] = ctx[v]
  BY Formatted
<1>2. pc'[w] = "copy" /\ \A v \in Workers \ {w} : pc'[v] = pc[v]
  BY <1>1 DEF Types
<1>3. ASSUME NEW v \in Workers
      PROVE  Ready(v)'
  <2>1. CASE v = w
    BY <1>1, <1>2, <2>1 DEF Framed, Ready, OwnSize, AsInt
  <2>2. CASE v # w /\ pc[v] = "copy"
    BY <1>1, <1>2, <2>2 DEF Framed, Ready, SameWork, OwnSize
  <2>3. CASE v # w /\ pc[v] # "copy"
    BY <1>1, <1>2, <2>3 DEF Framed, Ready, OwnSize, AsInt
  <2> QED
    BY <2>1, <2>2, <2>3
<1> QED
  BY <1>1, <1>3, FramedWorks

LEMMA FramedCopy ==
  ASSUME Types, Served, Framed, NEW w \in Workers, Copy(w)
  PROVE  Framed'
<1>1. PICK r \in Contexts :
        /\ ctx' = [ctx EXCEPT ![w] = r] /\ r.req = ctx[w].req /\ r.status = ctx[w].status
        /\ r.announce = ctx[w].announce /\ r.size = ctx[w].size
        /\ r.flaws = {} =>
             /\ ctx[w].flaws = {} /\ r.declared = digits
             /\ r.status = 200 /\ r.req.method = "GET" /\ r.size > 0 => r.body
  BY Copied
<1>2. pc[w] = "copy" /\ pc' = [pc EXCEPT ![w] = "send"] /\ UNCHANGED <<wire, kept, conn, digits>>
  BY Copied
<1>3. /\ pc'[w] = "send" /\ ctx'[w] = r
      /\ \A v \in Workers \ {w} : pc'[v] = pc[v] /\ ctx'[v] = ctx[v]
  BY <1>1, <1>2 DEF Types
<1>4. ASSUME NEW v \in Workers
      PROVE  Ready(v)'
  <2>1. CASE v = w
    <3>1. /\ "raced" \notin ctx[w].flaws => digits = AsInt(ctx[w].size)
          /\ ctx[w].req.method # "PUT" =>
               \/ ctx[w].announce = "close"
               \/ /\ ctx[w].announce = "keep-alive" /\ ctx[w].status = 200
                  /\ ctx[w].size = OwnSize(ctx[w].req)
      BY <1>2 DEF Framed, Ready
    <3>2. r.flaws = {} => r.declared = AsInt(r.size)
      BY <1>1, <3>1
    <3> QED
      BY <1>1, <1>3, <2>1, <3>1, <3>2 DEF Ready, OwnSize, AsInt
  <2>2. CASE v # w
    BY <1>2, <1>3, <2>2 DEF Framed, Ready, OwnSize, AsInt
  <2> QED
    BY <2>1, <2>2
<1> QED
  BY <1>1, <1>2, <1>3, <1>4, FramedWorks

(* A response that fits what was ready is right.                           *)
LEMMA RightWhenReady ==
  ASSUME Types, NEW w \in Workers, Ready(w), pc[w] = "send", ctx[w] \in Contexts,
         NEW m \in Answers, m.req = ctx[w].req, m.announce = ctx[w].announce, Fits(m, ctx[w])
  PROVE  Right(m)
<1> DEFINE r == ctx[w]
<1> SUFFICES ASSUME m.flaws = {}, m.req.method # "PUT", OwnSize(m.req) < IntLimit,
                    m.announce # "close"
             PROVE  HasFrame(m)
  BY DEF Right
<1>1. r.flaws = {} /\ m.whole /\ m.declared = r.declared /\ m.body = BodySize(r)
  BY DEF Fits
<1>2. r.announce = "keep-alive" /\ r.size = OwnSize(r.req)
  BY DEF Ready
<1>3. r.declared = AsInt(r.size) /\ (r.req.method = "GET" /\ r.size > 0 => r.body)
  BY <1>1, <1>2 DEF Ready
<1>4. r.size \in Nat /\ r.body \in BOOLEAN
  BY DEF Contexts
<1>5. r.declared = r.size /\ r.size = OwnSize(m.req)
  BY <1>2, <1>3 DEF AsInt
<1>6. BodySize(r) = IF m.req.method = "GET" THEN r.size ELSE 0
  <2>1. CASE r.req.method = "GET" /\ r.size > 0
    BY <1>3, <2>1 DEF BodySize
  <2>2. CASE r.req.method = "GET" /\ ~(r.size > 0)
    <3>1. r.size = 0
      BY <1>4, <2>2
    <3> QED
      BY <2>2, <3>1 DEF BodySize
  <2>3. CASE r.req.method # "GET"
    BY <2>3 DEF BodySize
  <2> QED
    BY <2>1, <2>2, <2>3
<1> QED
  BY <1>1, <1>2, <1>5, <1>6 DEF HasFrame

LEMMA FramedWrites ==
  ASSUME Types, Served, Numbers, Orders, Framed, NEW w \in Workers, Send(w),
         NEW c \in Conns, c = conn[w], NEW r \in Contexts, ctx' = [ctx EXCEPT ![w] = r],
         r.id = ctx[w].id, r.req = ctx[w].req, r.announce = ctx[w].announce,
         NEW m \in Answers, Write(c, m), m.id = ctx[w].id, m.req = ctx[w].req,
         m.announce = ctx[w].announce, r.failed \/ Fits(m, ctx[w])
  PROVE  Framed'
<1>2. /\ pc[w] = "send" /\ pc' = [pc EXCEPT ![w] = "finish"] /\ UNCHANGED <<kept, conn, digits>>
  BY Sent
<1>3. where[c] = "served" /\ Open(c)
  BY <1>2 DEF Served, Serving, Open
<1>4. wire' = [wire EXCEPT ![c] = Append(wire[c], m)] /\ wire' \in [Conns -> Seq(Answers \cup Alerts)]
  BY <1>3, OpenWrite
<1>5. /\ m.id > 0 /\ \A a \in Answered(c) : a < m.id
      /\ kept[c] \subseteq Answered(c) /\ Answered(c) \subseteq Nat
  BY <1>2 DEF Orders, AnswerOrder, Types, Answering
<1>6. PICK n : n = Len(wire[c]) + 1
  OBVIOUS
<1>7. /\ \A d \in Conns \ {c} : wire'[d] = wire[d] /\ Own(d)' = Own(d)
      /\ Own(c)' = Own(c) \cup {n}
      /\ \A i \in Own(c) : wire'[c][i] = wire[c][i]
      /\ wire'[c][n] = m
  <2>1. m.id > 0
    BY <1>5
  <2>2. /\ \A d \in Conns \ {c} : wire'[d] = wire[d] /\ Own(d)' = Own(d)
        /\ Own(c)' = Own(c) \cup {Len(wire[c]) + 1}
        /\ \A i \in Own(c) : wire'[c][i] = wire[c][i]
        /\ wire'[c][Len(wire[c]) + 1] = m
    BY ONLY Types, c \in Conns, m \in Answers, <1>4, <2>1, AnswerWritten
  <2> QED
    BY <1>6, <2>2
<1>8. /\ pc'[w] = "finish" /\ ctx'[w] = r
      /\ \A v \in Workers \ {w} : pc'[v] = pc[v] /\ ctx'[v] = ctx[v]
  BY <1>2 DEF Types
<1>9. ASSUME NEW v \in Workers
      PROVE  Ready(v)'
  BY <1>2, <1>8 DEF Framed, Ready, OwnSize, AsInt
<1>10. \A i \in Own(c) : wire[c][i].id \in Answered(c)
  BY DEF Answered
<1>11. r.failed \/ Right(m)
  BY <1>2, RightWhenReady DEF Framed, Types
<1>12. ASSUME NEW v \in Workers, NEW d \in Conns
       PROVE  Told(v, d)'
  <2> SUFFICES ASSUME conn[v] = d, pc'[v] = "finish", ~ctx'[v].failed, NEW i \in Own(d)',
                      wire'[d][i].id = ctx'[v].id
               PROVE  wire'[d][i].announce = ctx'[v].announce /\ Right(wire'[d][i])
    BY <1>2 DEF Told, Right, HasFrame, OwnSize
  <2>1. CASE v = w
    <3>1. i \notin Own(c)
      BY <1>5, <1>7, <1>8, <1>10, <2>1
    <3>2. wire'[d][i] = m
      BY <1>7, <2>1, <3>1
    <3> QED
      BY <1>8, <1>11, <2>1, <3>2
  <2>2. CASE v # w
    <3>1. d # c /\ pc[v] = "finish" /\ ctx'[v] = ctx[v]
      BY <1>2, <1>8, <2>2 DEF Served, Serving
    <3>2. i \in Own(d) /\ wire'[d][i] = wire[d][i]
      BY <1>7, <3>1
    <3>3. Told(v, d)
      BY DEF Framed
    <3> QED
      BY <3>1, <3>2, <3>3 DEF Told
  <2> QED
    BY <2>1, <2>2
<1>13. ASSUME NEW d \in Conns, NEW i \in Own(d)'
       PROVE  Sound(d, wire[d][i])'
  <2>1. (wire'[d][i] = m /\ d = c) \/ (i \in Own(d) /\ wire'[d][i] = wire[d][i])
    BY <1>7
  <2>2. m.id \notin kept[c]
    BY <1>5
  <2>3. Sound(d, wire'[d][i])
    BY <2>1, <2>2 DEF Framed, Sound
  <2> QED
    BY <1>2, <2>3 DEF Sound, Right, HasFrame, OwnSize
<1> QED
  BY <1>9, <1>12, <1>13 DEF Framed

LEMMA FramedSend ==
  ASSUME Types, Served, Numbers, Orders, Framed, NEW w \in Workers, Send(w)
  PROVE  Framed'
<1>1. PICK r \in Contexts :
        /\ ctx' = [ctx EXCEPT ![w] = r]
        /\ r.id = ctx[w].id /\ r.req = ctx[w].req /\ r.announce = ctx[w].announce
        /\ \/ r.failed /\ wire' = wire
           \/ \E m \in Answers :
                /\ Write(conn[w], m) /\ m.id = ctx[w].id /\ m.req = ctx[w].req
                /\ m.announce = ctx[w].announce /\ (r.failed \/ Fits(m, ctx[w]))
  BY Sent
<1>2. /\ conn[w] \in Conns /\ pc[w] = "send" /\ pc' = [pc EXCEPT ![w] = "finish"]
      /\ UNCHANGED <<kept, conn, digits>>
  BY Sent
<1>3. CASE r.failed /\ wire' = wire
  <2>1. /\ pc'[w] = "finish" /\ ctx'[w] = r
        /\ \A v \in Workers \ {w} : pc'[v] = pc[v] /\ ctx'[v] = ctx[v]
    BY <1>1, <1>2 DEF Types
  <2>2. \A c \in Conns : Own(c)' = Own(c)
    BY <1>3, QuietSame DEF Quiet
  <2>3. ASSUME NEW v \in Workers
        PROVE  Ready(v)'
    BY <1>2, <2>1 DEF Framed, Ready, OwnSize, AsInt
  <2>4. ASSUME NEW v \in Workers, NEW c \in Conns
        PROVE  Told(v, c)'
    <3>1. CASE v = w
      BY <1>3, <2>1, <3>1 DEF Told
    <3>2. CASE v # w
      <4>1. Told(v, c) /\ pc'[v] = pc[v] /\ ctx'[v] = ctx[v]
        BY <2>1, <3>2 DEF Framed
      <4> QED
        BY <1>2, <1>3, <2>2, <4>1 DEF Told, Right, HasFrame, OwnSize
    <3> QED
      BY <3>1, <3>2
  <2>5. ASSUME NEW c \in Conns, NEW i \in Own(c)'
        PROVE  Sound(c, wire[c][i])'
    BY <1>2, <1>3, <2>2 DEF Framed, Sound, Right, HasFrame, OwnSize
  <2> QED
    BY <2>3, <2>4, <2>5 DEF Framed
<1>4. CASE \E m \in Answers :
             /\ Write(conn[w], m) /\ m.id = ctx[w].id /\ m.req = ctx[w].req
             /\ m.announce = ctx[w].announce /\ (r.failed \/ Fits(m, ctx[w]))
  BY <1>1, <1>2, <1>4, FramedWrites
<1> QED
  BY <1>1, <1>3, <1>4

LEMMA FramedKeep ==
  ASSUME Types, Served, Framed, NEW w \in Workers, Keep(w)
  PROVE  Framed'
<1>1. PICK c \in Conns : c = conn[w]
  BY ConnIs DEF Keep
<1>2. /\ pc[w] = "finish" /\ ctx[w].announce # "close" /\ ~ctx[w].failed /\ Done(w)
      /\ kept' = [kept EXCEPT ![c] = @ \cup {ctx[w].id}] /\ wire' = wire /\ digits' = digits
  BY <1>1 DEF Keep, KeepsAlive
<1>3. pc'[w] = "pop" /\ \A v \in Workers \ {w} : pc'[v] = pc[v] /\ conn'[v] = conn[v] /\ ctx'[v] = ctx[v]
  BY <1>2 DEF Done, Set, Types
<1>4. ASSUME NEW v \in Workers
      PROVE  Ready(v)'
  BY <1>2, <1>3 DEF Framed, Ready, OwnSize, AsInt
<1>5. \A d \in Conns : Own(d)' = Own(d)
  BY <1>2, QuietSame DEF Quiet
<1>6. ASSUME NEW v \in Workers, NEW d \in Conns
      PROVE  Told(v, d)'
  <2>1. CASE v = w
    BY <1>3, <2>1 DEF Told
  <2>2. CASE v # w
    <3>1. Told(v, d)
      BY DEF Framed
    <3> QED
      BY <1>2, <1>3, <1>5, <2>2, <3>1 DEF Told, Right, HasFrame, OwnSize
  <2> QED
    BY <2>1, <2>2
<1>7. ASSUME NEW d \in Conns, NEW i \in Own(d)'
      PROVE  Sound(d, wire[d][i])'
  <2>1. i \in Own(d) /\ Sound(d, wire[d][i])
    BY <1>5 DEF Framed
  <2>2. wire[d][i].id \in kept'[d] => wire[d][i].id \in kept[d] \/ (d = c /\ wire[d][i].id = ctx[w].id)
    BY <1>2 DEF Types
  <2>3. d = c /\ wire[d][i].id = ctx[w].id =>
          wire[d][i].announce = ctx[w].announce /\ Right(wire[d][i])
    BY <1>1, <1>2, <2>1 DEF Framed, Told
  <2>4. wire[d][i].id \in kept'[d] => wire[d][i].announce # "close" /\ Right(wire[d][i])
    BY <1>2, <2>1, <2>2, <2>3 DEF Sound
  <2> QED
    BY <1>2, <2>4 DEF Sound, Right, HasFrame, OwnSize
<1> QED
  BY <1>4, <1>6, <1>7 DEF Framed

LEMMA FramedStep ==
  ASSUME Types, Served, Numbers, Orders, Framed, [Next]_vars
  PROVE  Framed'
<1>1. CASE UNCHANGED <<pc, conn, ctx, wire, kept, digits>>
  BY <1>1, QuietSame, FramedQuiet
<1>2. ASSUME NEW w \in Workers, NEW c \in Conns, Pop(w, c)
      PROVE  Framed'
  <2>1. UNCHANGED <<ctx, wire, kept, digits>> /\ pc'[w] = "ingress"
        /\ \A v \in Workers \ {w} : pc'[v] = pc[v] /\ conn'[v] = conn[v]
    BY <1>2 DEF Pop, history, Types
  <2> QED
    BY <2>1, QuietSame, FramedQuiet
<1>3. ASSUME NEW w \in Workers, IngressFails(w)
      PROVE  Framed'
  <2>1. PICK r \in Contexts : ctx' = [ctx EXCEPT ![w] = r]
    BY <1>3, IngressFailed
  <2>2. pc' = [pc EXCEPT ![w] = "close"] /\ conn[w] \in Conns /\ UNCHANGED <<kept, conn, digits>>
    BY <1>3, IngressFailed
  <2>3. Quiet
    BY <1>3, <2>2, IngressFailed, QuietSame, QuietWrite
  <2>4. pc'[w] = "close" /\ \A v \in Workers \ {w} : pc'[v] = pc[v] /\ ctx'[v] = ctx[v]
    BY <2>1, <2>2 DEF Types
  <2> QED
    BY <2>2, <2>3, <2>4, FramedQuiet
<1>4. ASSUME NEW w \in Workers, ReadHeader(w)
      PROVE  Framed'
  <2>1. /\ UNCHANGED <<wire, kept, conn, digits>>
        /\ \E r : ctx' = [ctx EXCEPT ![w] = r] /\ pc' = [pc EXCEPT ![w] = "validate"]
    BY <1>4 DEF ReadHeader, Set
  <2>2. pc'[w] = "validate" /\ \A v \in Workers \ {w} : pc'[v] = pc[v] /\ ctx'[v] = ctx[v]
    BY <2>1 DEF Types
  <2> QED
    BY <2>1, <2>2, QuietSame, FramedQuiet
<1>5. ASSUME NEW w \in Workers, Handle(w) \/ Format(w) \/ Copy(w)
      PROVE  Framed'
  BY <1>5, FramedHandle, FramedFormat, FramedCopy
<1>8. ASSUME NEW w \in Workers, Send(w)
      PROVE  Framed'
  BY <1>8, FramedSend
<1>9. ASSUME NEW w \in Workers, Keep(w)
      PROVE  Framed'
  BY <1>9, FramedKeep
<1>10. ASSUME NEW w \in Workers, Drop(w) \/ Close(w)
       PROVE  Framed'
  <2>1. /\ UNCHANGED <<ctx, conn, wire, kept, digits>>
        /\ \E p \in {"close", "closeAndBreak", "notify", "notifyAndBreak"} :
             pc' = [pc EXCEPT ![w] = p]
    BY <1>10 DEF Drop, Close, history
  <2>2. /\ pc'[w] \in {"close", "closeAndBreak", "notify", "notifyAndBreak"}
        /\ \A v \in Workers \ {w} : pc'[v] = pc[v]
    BY <2>1 DEF Types
  <2> QED
    BY <2>1, <2>2, QuietSame, FramedQuiet
<1>11. ASSUME NEW w \in Workers, Notify(w)
       PROVE  Framed'
  <2>1. /\ conn[w] \in Conns /\ (\E p \in {"release", "exit"} : pc' = [pc EXCEPT ![w] = p])
        /\ UNCHANGED <<ctx, conn, kept, digits>> /\ Shutdown(conn[w])
    BY <1>11, ConnIs DEF Notify
  <2>2. pc'[w] \in {"release", "exit"} /\ \A v \in Workers \ {w} : pc'[v] = pc[v]
    BY <2>1 DEF Types
  <2> QED
    BY <2>1, <2>2, ShutdownWrites, FramedQuiet
<1>12. ASSUME NEW w \in Workers, Release(w)
       PROVE  Framed'
  <2>1. UNCHANGED <<wire, kept, digits>> /\ pc'[w] = "pop"
        /\ \A v \in Workers \ {w} : pc'[v] = pc[v] /\ conn'[v] = conn[v] /\ ctx'[v] = ctx[v]
    BY <1>12 DEF Release, Done, Set, history, Types
  <2> QED
    BY <2>1, QuietSame, FramedQuiet
<1>13. ASSUME NEW c \in Conns, Accept(c) \/ WaitRoom(c) \/ WaitRoomCloses(c) \/ Sends(c)
       PROVE  UNCHANGED <<pc, conn, ctx, wire, kept, digits>>
  BY <1>13, ArrivedFrom DEF Accept, WaitRoom, WaitRoomCloses, history, worker
<1>14. SigTerm \/ UNCHANGED vars => UNCHANGED <<pc, conn, ctx, wire, kept, digits>>
  BY DEF SigTerm, vars, history, worker
<1>15. CASE WaitRoomNotifies
  <2>1. ending \in Conns /\ Shutdown(ending) /\ UNCHANGED <<pc, conn, ctx, kept, digits>>
    BY <1>15 DEF WaitRoomNotifies, Types, worker
  <2> QED
    BY <2>1, ShutdownWrites, FramedQuiet
<1> QED
  BY <1>1, <1>2, <1>3, <1>4, <1>5, <1>8, <1>9, <1>10, <1>11, <1>12, <1>13, <1>14, <1>15
     DEF Next, WorkerStep, Sends

-----------------------------------------------------------------------------
(***************************************************************************)
(* The invariant, and what follows from it.                                *)
(***************************************************************************)
LEMMA IInvInit ==
  ASSUME Init
  PROVE  IInv
<1>1. Types
  BY TypesInit
<1>2. \A c \in Conns : Heads(c) = {} /\ Responses(c) = {} /\ Own(c) = {} /\ Waiting(c) = {}
                       /\ Answered(c) = {}
  BY DEF Init, Heads, Responses, Own, Waiting, Answered
<1>3. Served
  BY DEF Init, Served, Serving, Closing
<1>4. Ending /\ Numbers /\ WireIsOwn /\ Allocated
  BY DEF Init, Ending, Numbers, Open, WireIsOwn, Allocated
<1>5. Orders
  BY <1>2 DEF Init, Orders, InboxOrder, AnswerOrder, Covered, InOrder, Answering
<1>6. Framed
  BY <1>2 DEF Init, Framed, Ready, Told
<1> QED
  BY <1>1, <1>3, <1>4, <1>5, <1>6 DEF IInv, Orders

LEMMA IInvStep ==
  ASSUME IInv, [Next]_vars
  PROVE  IInv'
<1>1. Types /\ Served /\ Ending /\ Numbers /\ WireIsOwn /\ Allocated /\ Orders /\ Framed
  BY DEF IInv, Orders
<1>2. Types' /\ Served' /\ Ending'
  BY <1>1, TypesStep, ServedStep, EndingStep
<1>3. Numbers' /\ WireIsOwn' /\ Allocated'
  BY <1>1, NumbersStep, WireStep, AllocatedStep
<1>4. Orders' /\ Framed'
  BY <1>1, OrdersStep, FramedStep
<1> QED
  BY <1>2, <1>3, <1>4 DEF IInv, Orders

(* The inductive invariant of the pipeline (worker_thread and what it      *)
(* calls).                                                                 *)
THEOREM Inductive == Spec => []IInv
<1>1. Init => IInv
  BY IInvInit
<1>2. IInv /\ [Next]_vars => IInv'
  BY IInvStep
<1> QED
  BY <1>1, <1>2, PTL DEF Spec

LEMMA OneServes ==
  ASSUME Served, Types, NEW c \in Conns
  PROVE  LET by == {w \in Workers : conn[w] = c /\ pc[w] \notin {"notify", "notifyAndBreak",
                                                                 "release", "exit"}}
         IN  Cardinality(by) = IF where[c] = "served" THEN 1 ELSE 0
<1> DEFINE by == {w \in Workers : conn[w] = c /\ pc[w] \notin {"notify", "notifyAndBreak",
                                                               "release", "exit"}}
<1>1. \A w \in by : pc[w] \in Serving /\ where[c] = "served"
  BY WorkerIs DEF Closing
<1>2. CASE where[c] = "served"
  <2>1. PICK w \in Workers : conn[w] = c /\ pc[w] \in Serving
    BY <1>2 DEF Served
  <2>2. w \in by
    BY <2>1 DEF Serving
  <2>3. by = {w}
    BY <1>1, <2>1, <2>2 DEF Served
  <2> HIDE DEF by
  <2>4. Cardinality(by) = 1
    BY <2>3, FS_Singleton
  <2> QED
    BY <1>2, <2>4 DEF by
<1>3. CASE where[c] # "served"
  <2>1. by = {}
    BY <1>1, <1>3
  <2> HIDE DEF by
  <2>2. Cardinality(by) = 0
    BY <2>1, FS_EmptySet
  <2> QED
    BY <1>3, <2>2 DEF by
<1> QED
  BY <1>2, <1>3

(* TypeOK (worker_thread, queue_pop): every variable has its type, and a   *)
(* connection is with exactly one worker while it is served and with none  *)
(* otherwise.                                                              *)
THEOREM TypeCorrect == Spec => []TypeOK
<1>1. IInv => TypeOK
  <2> SUFFICES ASSUME IInv PROVE TypeOK
    OBVIOUS
  <2>1. Types /\ Served /\ Ending /\ AnswerOrder
    BY DEF IInv
  <2>2. \A c \in Conns : /\ sent[c] \in 0 .. MaxSent[c]
                         /\ bodies[c] \cup skipped[c] \cup kept[c] \subseteq 1 .. sent[c]
    <3>1. \A c \in Conns : MaxSent[c] \in Nat /\ sent[c] \in Nat /\ sent[c] <= MaxSent[c]
      BY <2>1, RequestAssumption DEF Types
    <3>2. \A c \in Conns : /\ bodies[c] \subseteq 1 .. sent[c]
                           /\ skipped[c] \subseteq 1 .. sent[c] /\ kept[c] \subseteq 1 .. sent[c]
      BY <2>1 DEF AnswerOrder, Types
    <3> QED
      BY <3>1, <3>2
  <2>3. /\ where \in [Conns -> {"new", "queued", "served", "kept", "closed"}]
        /\ fd \in [Conns -> Fds \cup {None}]
        /\ protocol \in [Conns -> {"UNKNOWN", "HTTP10", "HTTP11"}]
        /\ pc \in [Workers -> {"pop", "ingress", "validate", "format", "copy", "send", "finish",
                               "close", "closeAndBreak", "notify", "notifyAndBreak", "release",
                               "exit"}]
        /\ conn \in [Workers -> Conns \cup {None}]
        /\ ending \in Conns \cup {None} /\ (ending # None => where[ending] = "closed")
    BY <2>1 DEF Types, Serving, Closing, Ending
  <2> QED
    BY <2>1, <2>2, <2>3, OneServes DEF TypeOK
<1> QED
  BY <1>1, Inductive, PTL

(* WireIsOwn (close_connection, send_response): whoever is given the       *)
(* descriptor number of a connection that a worker or the wait room has    *)
(* closed sees nothing of it but the alert that SSL_shutdown writes too    *)
(* late.                                                                   *)
THEOREM OwnWire == Spec => []WireIsOwn
<1>1. IInv => WireIsOwn
  BY DEF IInv
<1> QED
  BY <1>1, Inductive, PTL

(* AnswersInOrder (read_http_headers, process_ingress, send_response):     *)
(* whatever the bodies of the requests hold, requests sent ahead are       *)
(* answered in their order, at most once, and what is left out was cut off *)
(* behind an earlier header. Text of a body that is taken for a request    *)
(* takes its place in the same order.                                      *)
THEOREM OrderedAnswers == Spec => []AnswersInOrder
<1>1. IInv => AnswersInOrder
  <2> SUFFICES ASSUME IInv, NEW c \in Conns
               PROVE  /\ \A i, j \in Own(c) : i < j => wire[c][i].id < wire[c][j].id
                      /\ Answered(c) \subseteq ((1 .. sent[c]) \ bodies[c]) \cup bodies[c]
                      /\ \A k \in Answered(c) : \A n \in 1 .. k :
                           n \in Answered(c) \cup skipped[c]
    BY DEF AnswersInOrder, Own, Answered
  <2> QED
    BY DEF IInv, AnswerOrder, InOrder
<1> QED
  BY <1>1, Inductive, PTL

(* ContextsAccounted (worker_thread, cleanup_request_resources): only      *)
(* keep-alive and the end of a worker leave a context behind.              *)
THEOREM AccountedContexts == Spec => []ContextsAccounted
<1>1. IInv => ContextsAccounted
  BY AccountedFrom DEF IInv
<1> QED
  BY <1>1, Inductive, PTL

(* KeptIsFramed (the handlers, send_response, should_keep_alive): the      *)
(* client of a connection that was kept open knows where the next response *)
(* begins: its header is complete and declares the length of its own file, *)
(* unless the size does not fit an int, another worker has come between    *)
(* int_to_string and the copy, the file was not mapped or a write was      *)
(* short.                                                                  *)
THEOREM FramedWhenKept == Spec => []KeptIsFramed
<1>1. IInv => KeptIsFramed
  <2> SUFFICES ASSUME IInv, NEW c \in Conns, NEW i \in Responses(c),
                      wire[c][i].id \in kept[c], wire[c][i].flaws = {},
                      wire[c][i].req.method # "PUT", OwnSize(wire[c][i].req) < IntLimit
               PROVE  /\ wire[c][i].whole /\ wire[c][i].announce = "keep-alive"
                      /\ wire[c][i].declared = OwnSize(wire[c][i].req)
                      /\ wire[c][i].body = IF wire[c][i].req.method = "GET"
                                           THEN wire[c][i].declared ELSE 0
    BY DEF KeptIsFramed
  <2>1. wire[c][i].id > 0
    BY DEF IInv, AnswerOrder, Types
  <2>2. Sound(c, wire[c][i])
    BY <2>1 DEF IInv, Framed, Own
  <2> QED
    BY <2>2 DEF Sound, Right, HasFrame
<1> QED
  BY <1>1, Inductive, PTL

=============================================================================
