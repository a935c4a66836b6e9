----------------------------- MODULE HttpParse -----------------------------
(***************************************************************************)
(* A worker takes in one HTTP/1 request: demux_protocol (src/src/socket.c),*)
(* read_http_headers and parse_http1 (src/src/http1.c) and the verdicts of *)
(* process_ingress (src/src/http_common.c).                                *)
(*                                                                         *)
(* A byte is "sp", "cr", "lf", "colon" or "nul", or a symbol that stands   *)
(* for a piece of text. What the peer sends arrives in pieces of any size. *)
(***************************************************************************)
EXTENDS Integers, Sequences, SequencesExt, FiniteSetsExt, Selection

CONSTANTS
  Streams,     \* what the peer may send before it closes or falls silent
  Preface,     \* the connection preface of HTTP/2
  MaxHeader,   \* MAX_HEADER_SIZE - 1: room in the buffer
  MaxWord,     \* longest method and version that is kept (15)
  MaxUri, MaxKey, MaxValue,   \* 4095, 127, 4095
  MaxHeaders,  \* 128
  Faults       \* what may happen: "EAGAIN" (a starved socket), "EIO"

Byte == UNION {Range(s) : s \in Streams \cup {Preface}}

ASSUME ParseAssumption ==
  /\ MaxHeader \in Nat \ {0} /\ MaxWord \in Nat \ {0} /\ MaxUri \in Nat \ {0}
  /\ MaxKey \in Nat \ {0} /\ MaxValue \in Nat \ {0} /\ MaxHeaders \in Nat \ {0}
  /\ Faults \subseteq {"EAGAIN", "EIO"} /\ Preface # << >>
  /\ \A s \in Streams \cup {Preface} : s \in Seq(Byte)

VARIABLES
  stream,     \* what the peer sends
  got,        \* header_bytes_read
  taken,      \* bytes taken off the socket so far
  peeked,     \* bytes demux_protocol saw
  overshoot,  \* body_overshoot_bytes
  protocol,   \* of the conn_t
  request,    \* ctx->request.h1 and where the parser stopped
  verdict,    \* 0, or the status_code set; -2 and -4, the results of
              \* read_http_headers that end in a silent close
  pc

vars == <<stream, got, taken, peeked, overshoot, protocol, request, verdict, pc>>

EndMark == <<"cr", "lf", "cr", "lf">>

(* strstr(buf, "\r\n\r\n"): where the mark ends in the C string s, else 0. *)
EndOfHeader(s) ==
  LET ends == {k \in 4 .. Len(s) :
                 SubSeq(s, k - 3, k) = EndMark /\ \A j \in 1 .. k : s[j] # "nul"}
  IN  IF ends = {} THEN 0 ELSE Min(ends)

Start == [at |-> "METHOD", method |-> << >>, uri |-> << >>, version |-> << >>,
          key |-> << >>, value |-> << >>, headers |-> << >>]

-----------------------------------------------------------------------------
(***************************************************************************)
(* Mistakes this code could have.                                          *)
(***************************************************************************)

(* The room test is off by one: a field takes one byte too many.           *)
PutPastEnd(st, field, limit, b) ==
  IF Len(st[field]) <= limit THEN [st EXCEPT ![field] = Append(@, b)] ELSE st

(* Only the bytes of the last read are searched for the end of the header. *)
ReadSearchesPiece(n) ==
  /\ pc = "read" /\ got < MaxHeader /\ n <= MaxHeader - got
  /\ LET found == EndOfHeader(SubSeq(stream, got + 1, got + n))
     IN  IF found > 0
         THEN /\ overshoot' = n - found
              /\ got' = got + found /\ pc' = "parse"
         ELSE got' = got + n /\ UNCHANGED <<overshoot, pc>>
  /\ taken' = taken + n
  /\ UNCHANGED <<stream, peeked, protocol, request, verdict>>

(* The current key is not reset for the next header line.                  *)
EndHeaderKeepsKey(st) ==
  LET hs == Append(st.headers, [key |-> st.key, value |-> st.value])
  IN  [st EXCEPT !.headers = hs, !.value = << >>,
                 !.at = IF Len(hs) >= MaxHeaders THEN "BODY" ELSE "HEADER_KEY"]

-----------------------------------------------------------------------------
(* parse_http1, one byte at a time.                                        *)
(* dest[count++] = *p, while there is room.                                *)
Put(st, field, limit, b) ==
  IF Len(st[field]) < limit THEN [st EXCEPT ![field] = Append(@, b)] ELSE st

EndHeader(st) ==
  LET hs == Append(st.headers, [key |-> st.key, value |-> st.value])
  IN  [st EXCEPT !.headers = hs, !.key = << >>, !.value = << >>,
                 !.at = IF Len(hs) >= MaxHeaders THEN "BODY" ELSE "HEADER_KEY"]

InMethod(st, b) ==
  IF b = "sp" THEN [st EXCEPT !.at = "URI"] ELSE Put(st, "method", MaxWord, b)

InUri(st, b) ==
  IF b = "sp" THEN [st EXCEPT !.at = "VERSION"] ELSE Put(st, "uri", MaxUri, b)

InVersion(st, b) ==
  CASE b = "cr" -> st
    [] b = "lf" -> [st EXCEPT !.at = "HEADER_KEY"]
    [] OTHER    -> Put(st, "version", MaxWord, b)

InKey(st, b) ==
  CASE b = "colon" -> [st EXCEPT !.at = "SPACES"]
    [] b = "cr"    -> st
    [] b = "lf"    -> [st EXCEPT !.at = "BODY"]
    [] OTHER       -> Put(st, "key", MaxKey, b)

InValue(st, b) ==
  CASE b = "cr" -> st
    [] b = "lf" -> EndHeader(st)
    [] OTHER    -> Put(st, "value", MaxValue, b)

(* SPACES is the inner loop that skips the spaces after the colon.         *)
Step(st, b) ==
  CASE st.at = "METHOD"       -> InMethod(st, b)
    [] st.at = "URI"          -> InUri(st, b)
    [] st.at = "VERSION"      -> InVersion(st, b)
    [] st.at = "HEADER_KEY"   -> InKey(st, b)
    [] st.at = "SPACES"       -> IF b = "sp" THEN st
                                 ELSE InValue([st EXCEPT !.at = "HEADER_VALUE"], b)
    [] st.at = "HEADER_VALUE" -> InValue(st, b)
    [] OTHER                  -> [st EXCEPT !.at = "DONE"]

Parse(s) ==
  LET run[k \in 0 .. Len(s)] == IF k = 0 THEN Start ELSE Step(run[k - 1], s[k])
  IN  run[Len(s)]

WantsH2c(st) ==
  \E k \in DOMAIN st.headers :
    st.headers[k].key = <<"Upgrade">> /\ Contains(st.headers[k].value, "h2c")

-----------------------------------------------------------------------------
Init ==
  /\ stream \in Streams
  /\ got = 0 /\ taken = 0 /\ peeked = 0 /\ overshoot = 0 /\ request = Start /\ verdict = 0
  /\ protocol = "UNKNOWN" /\ pc = "demux"

(* recv(MSG_PEEK) sees what is there, n bytes, none only of a peer that    *)
(* has closed. Fewer than the preface has: memcmp compares the rest with   *)
(* what the stack holds.                                                   *)
Demux(n) ==
  /\ pc = "demux" /\ pc' = "read"
  /\ n = 0 => stream = << >>
  /\ peeked' = n
  /\ LET seen == SubSeq(stream, 1, n)
         same == IsPrefix(seen, Preface)
     IN  protocol' \in
           CASE n = 0                       -> {"HTTP11"}
             [] n > 0 /\ ~same              -> {"HTTP11"}
             [] same /\ n = Len(Preface)    -> {"HTTP2"}
             [] OTHER                       -> {"HTTP11", "HTTP2"}
  /\ UNCHANGED <<stream, got, taken, overshoot, request, verdict>>

DemuxFails ==
  /\ pc = "demux" /\ "EIO" \in Faults
  /\ pc' = "read" /\ protocol' = "UNKNOWN"
  /\ UNCHANGED <<stream, got, taken, peeked, overshoot, request, verdict>>

(* read_http_headers: conn_read returns n more bytes.                      *)
Read(n) ==
  /\ pc = "read" /\ got < MaxHeader /\ n <= MaxHeader - got
  /\ LET found == EndOfHeader(SubSeq(stream, 1, got + n))
     IN  IF found > 0
         THEN /\ overshoot' = got + n - found
              /\ got' = found /\ pc' = "parse"
         ELSE got' = got + n /\ UNCHANGED <<overshoot, pc>>
  /\ taken' = taken + n
  /\ UNCHANGED <<stream, peeked, protocol, request, verdict>>

Decide(v) ==
  /\ verdict' = v /\ pc' = "done"
  /\ UNCHANGED <<stream, got, taken, peeked, overshoot, request, protocol>>

TooLarge == pc = "read" /\ got >= MaxHeader /\ Decide(431)

PeerClosed == pc = "read" /\ got < MaxHeader /\ got = Len(stream) /\ Decide(-2)

ReadFails == pc = "read" /\ got < MaxHeader /\ "EIO" \in Faults /\ Decide(500)

(* EAGAIN: poll for five seconds, then try again.                          *)
Starve ==
  /\ pc = "read" /\ got < MaxHeader /\ "EAGAIN" \in Faults
  /\ pc' = "poll"
  /\ UNCHANGED <<stream, got, taken, peeked, overshoot, request, verdict, protocol>>

PollReady ==
  /\ pc = "poll" /\ pc' = "read"
  /\ UNCHANGED <<stream, got, taken, peeked, overshoot, request, verdict, protocol>>

PollTimeout == pc = "poll" /\ Decide(-4)

PollFails == pc = "poll" /\ "EIO" \in Faults /\ Decide(500)

(* process_ingress: HTTP/2 is not supported, and is not parsed.            *)
RefuseHttp2 == pc = "parse" /\ protocol = "HTTP2" /\ Decide(505)

ParseRequest ==
  /\ pc = "parse" /\ protocol # "HTTP2"
  /\ request' = Parse(SubSeq(stream, 1, got))
  /\ IF WantsH2c(request')
     THEN verdict' = 101 /\ UNCHANGED protocol
     ELSE /\ verdict' = 0
          /\ protocol' = IF request'.version = <<"HTTP/1.0">> THEN "HTTP10" ELSE protocol
  /\ pc' = "done"
  /\ UNCHANGED <<stream, got, taken, peeked, overshoot>>

Next ==
  \/ \E n \in 0 .. Len(Preface) : n <= Len(stream) /\ Demux(n)
  \/ \E n \in 1 .. MaxHeader : n <= Len(stream) - got /\ Read(n)
  \/ DemuxFails \/ TooLarge \/ PeerClosed \/ ReadFails
  \/ Starve \/ PollReady \/ PollTimeout \/ PollFails
  \/ RefuseHttp2 \/ ParseRequest

Spec == Init /\ [][Next]_vars

-----------------------------------------------------------------------------
(* Every variable has its type, and no field of a request is longer than   *)
(* its array.                                                              *)
TypeOK ==
  /\ got \in 0 .. MaxHeader /\ overshoot \in 0 .. MaxHeader
  /\ taken \in 0 .. MaxHeader /\ peeked \in 0 .. Len(Preface)
  /\ protocol \in {"UNKNOWN", "HTTP10", "HTTP11", "HTTP2"}
  /\ verdict \in {-4, -2, 0, 101, 431, 500, 505}
  /\ pc \in {"demux", "read", "poll", "parse", "done"}
  /\ Len(request.method) <= MaxWord /\ Len(request.uri) <= MaxUri
  /\ Len(request.version) <= MaxWord /\ Len(request.headers) <= MaxHeaders
  /\ \A k \in DOMAIN request.headers :
       Len(request.headers[k].key) <= MaxKey /\ Len(request.headers[k].value) <= MaxValue

(***************************************************************************)
(* PiecesDontMatter (read_http_headers, process_ingress, demux_protocol):  *)
(* however the bytes arrive, a header taken in ends at the first end mark  *)
(* of all that was sent, and what was read behind it is counted as         *)
(* overshoot, to the byte. 431, 500 and both silent closes come only where *)
(* no mark lies in what was read: 431 with the buffer full, the close for  *)
(* a peer that ended early with all it sent read. A peer whose whole       *)
(* preface was seen is not parsed. 505 is answered only to the preface of  *)
(* HTTP/2, with one exception: a peek that saw only a beginning of the     *)
(* preface may, since memcmp reads on in the stack (socket.c:208).         *)
(***************************************************************************)
NoMarkRead == EndOfHeader(SubSeq(stream, 1, taken)) = 0

ShortPeek ==
  /\ peeked \in 1 .. Len(Preface) - 1
  /\ IsPrefix(SubSeq(stream, 1, peeked), Preface)

PiecesDontMatter ==
  LET mark == EndOfHeader(stream)
      whole == pc = "parse" \/ (pc = "done" /\ verdict \in {0, 101, 505})
  IN  /\ whole => mark > 0 /\ got = mark /\ got + overshoot = taken /\ taken <= Len(stream)
      /\ pc = "done" /\ ~whole => NoMarkRead
      /\ verdict = 431 => taken = MaxHeader
      /\ verdict = -2 => taken = Len(stream)
      /\ verdict = 505 => IsPrefix(Preface, stream) \/ ShortPeek
      /\ pc = "done" /\ verdict \in {0, 101} /\ peeked = Len(Preface) => ~IsPrefix(Preface, stream)

(***************************************************************************)
(* ParsesByLines (parse_http1): the byte-wise parser finds the same request*)
(* as cutting the header into words and lines. The method and the URI end  *)
(* at the first two spaces and the version at the next line end; the       *)
(* headers are the lines that follow, cut at their first colon, up to the  *)
(* first line without one or to MaxHeaders of them. Spaces after the colon *)
(* and carriage returns are dropped, and what a field has no room for.     *)
(***************************************************************************)
First(s, b, from) == Min({k \in from .. Len(s) : s[k] = b} \cup {Len(s) + 1})

Cut(s, limit) == SubSeq(s, 1, IF Len(s) < limit THEN Len(s) ELSE limit)

NoCr(s) == Select(s, Byte \ {"cr"})

SkipSpaces(s) == SubSeq(s, Min({k \in 1 .. Len(s) : s[k] # "sp"} \cup {Len(s) + 1}), Len(s))

HeaderOf(line) ==
  LET c == First(line, "colon", 1)
  IN  [key |-> Cut(NoCr(SubSeq(line, 1, c - 1)), MaxKey),
       value |-> Cut(NoCr(SkipSpaces(SubSeq(line, c + 1, Len(line)))), MaxValue)]

MethodEnd(s)  == First(s, "sp", 1)
UriEnd(s)     == First(s, "sp", MethodEnd(s) + 1)
VersionEnd(s) == First(s, "lf", UriEnd(s) + 1)

(* LineEnd(s)[k]: where the k-th line behind the request line ends.        *)
LineEnd(s) ==
  LET end[k \in 0 .. MaxHeaders] ==
        IF k = 0 THEN VersionEnd(s) ELSE First(s, "lf", end[k - 1] + 1)
  IN  end

Line(s, k) == SubSeq(s, LineEnd(s)[k - 1] + 1, LineEnd(s)[k] - 1)

IsHeader(s, k) == LineEnd(s)[k] <= Len(s) /\ Contains(Line(s, k), "colon")

HeaderCount(s) == Min({k \in 1 .. MaxHeaders : ~IsHeader(s, k)} \cup {MaxHeaders + 1}) - 1

RequestByLines(s) ==
  [method  |-> Cut(SubSeq(s, 1, MethodEnd(s) - 1), MaxWord),
   uri     |-> Cut(SubSeq(s, MethodEnd(s) + 1, UriEnd(s) - 1), MaxUri),
   version |-> Cut(NoCr(SubSeq(s, UriEnd(s) + 1, VersionEnd(s) - 1)), MaxWord),
   headers |-> [k \in 1 .. HeaderCount(s) |-> HeaderOf(Line(s, k))]]

ParsesByLines ==
  request # Start =>
    LET r == RequestByLines(SubSeq(stream, 1, got))
    IN  /\ request.method = r.method /\ request.uri = r.uri
        /\ request.version = r.version /\ request.headers = r.headers
=============================================================================
