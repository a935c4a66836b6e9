-------------------------- MODULE HttpParse_proofs --------------------------
(***************************************************************************)
(* That no request outgrows its arrays, and that the pieces in which the   *)
(* bytes arrive do not matter, for every stream and every limit.           *)
(***************************************************************************)
EXTENDS HttpParse, Selection_proofs

-----------------------------------------------------------------------------
(***************************************************************************)
(* Streams are sequences of bytes.                                         *)
(***************************************************************************)
LEMMA StreamsAreSequences ==
  \A s \in Streams \cup {Preface} : s \in Seq(Byte)
BY ParseAssumption

-----------------------------------------------------------------------------
(***************************************************************************)
(* The first end mark of a stream, and of its beginnings.                  *)
(***************************************************************************)
Ends(s) == {k \in 4 .. Len(s) :
              SubSeq(s, k - 3, k) = EndMark /\ \A j \in 1 .. k : s[j] # "nul"}

LEMMA LeastIs ==
  ASSUME NEW S \in SUBSET Nat, S # {}
  PROVE  Min(S) \in S /\ \A y \in S : Min(S) <= y
<1>1. \E x \in S : \A y \in S : x <= y
  BY LeastExists, Zenon
<1> QED
  BY <1>1 DEF Min

(* What strstr finds is the least of the ends, or there is none.           *)
LEMMA MarkIs ==
  ASSUME NEW s \in Seq(Byte)
  PROVE  /\ EndOfHeader(s) \in 0 .. Len(s)
         /\ EndOfHeader(s) = 0 <=> Ends(s) = {}
         /\ Ends(s) # {} => EndOfHeader(s) \in Ends(s)
         /\ \A k \in Ends(s) : EndOfHeader(s) <= k
<1>1. Len(s) \in Nat
  OBVIOUS
<1>2. Ends(s) \in SUBSET Nat /\ \A k \in Ends(s) : k \in 4 .. Len(s)
  BY <1>1 DEF Ends
<1>3. EndOfHeader(s) = IF Ends(s) = {} THEN 0 ELSE Min(Ends(s))
  BY DEF EndOfHeader, Ends
<1>4. CASE Ends(s) = {}
  BY <1>1, <1>3, <1>4
<1>5. CASE Ends(s) # {}
  <2>1. EndOfHeader(s) \in Ends(s) /\ \A k \in Ends(s) : EndOfHeader(s) <= k
    BY <1>2, <1>3, <1>5, LeastIs
  <2>2. EndOfHeader(s) \in 4 .. Len(s)
    BY <1>2, <2>1
  <2> QED
    BY <1>1, <1>5, <2>1, <2>2
<1> QED
  BY <1>4, <1>5

(* The ends within the first p bytes.                                      *)
LEMMA EndsOfBeginning ==
  ASSUME NEW s \in Seq(Byte), NEW p \in 0 .. Len(s)
  PROVE  /\ SubSeq(s, 1, p) \in Seq(Byte) /\ Len(SubSeq(s, 1, p)) = p
         /\ Ends(SubSeq(s, 1, p)) = {k \in Ends(s) : k <= p}
<1> DEFINE t == SubSeq(s, 1, p)
<1>1. Len(s) \in Nat /\ \A i \in 1 .. Len(s) : s[i] \in Byte
  OBVIOUS
<1>2. t \in Seq(Byte) /\ Len(t) = p /\ \A i \in 1 .. p : t[i] = s[i]
  <2>1. \A i \in 1 .. p : s[i] \in Byte
    BY <1>1
  <2> QED
    BY <1>1, <2>1, SubSeqProperties
<1> HIDE DEF t
<1>3. ASSUME NEW k \in 4 .. p
      PROVE  SubSeq(t, k - 3, k) = SubSeq(s, k - 3, k)
  BY <1>1, <1>2, <1>3
<1>4. ASSUME NEW k \in 4 .. p
      PROVE  (\A j \in 1 .. k : t[j] # "nul") <=> (\A j \in 1 .. k : s[j] # "nul")
  BY <1>1, <1>2, <1>4
<1>5. 4 .. Len(t) = {k \in 4 .. Len(s) : k <= p}
  BY <1>1, <1>2
<1>6. Ends(t) = {k \in Ends(s) : k <= p}
  BY <1>1, <1>2, <1>3, <1>4, <1>5 DEF Ends
<1> QED
  BY <1>2, <1>6 DEF t

(* A beginning has the stream's own mark, or none.                         *)
LEMMA MarkOfBeginning ==
  ASSUME NEW s \in Seq(Byte), NEW p \in 0 .. Len(s)
  PROVE  EndOfHeader(SubSeq(s, 1, p)) =
           IF EndOfHeader(s) # 0 /\ EndOfHeader(s) <= p THEN EndOfHeader(s) ELSE 0
<1> DEFINE t == SubSeq(s, 1, p)
           m == EndOfHeader(s)
           l == EndOfHeader(t)
<1>1. t \in Seq(Byte) /\ Ends(t) = {k \in Ends(s) : k <= p} /\ Len(s) \in Nat
  BY EndsOfBeginning
<1>2. /\ m \in Nat /\ (m = 0 <=> Ends(s) = {}) /\ (Ends(s) # {} => m \in Ends(s))
      /\ \A k \in Ends(s) : m <= k /\ k \in Nat
  <2>1. \A k \in Ends(s) : k \in Nat
    BY <1>1 DEF Ends
  <2>2. \A k \in 0 .. Len(s) : k \in Nat
    BY <1>1
  <2> QED
    BY <2>1, <2>2, MarkIs
<1>3. /\ l \in Nat /\ (l = 0 <=> Ends(t) = {}) /\ (Ends(t) # {} => l \in Ends(t))
      /\ \A k \in Ends(t) : l <= k
  <2> HIDE DEF t
  <2>1. Len(t) \in Nat
    BY <1>1
  <2> QED
    BY <1>1, <2>1, MarkIs
<1> HIDE DEF t, m, l
<1>4. l = IF m # 0 /\ m <= p THEN m ELSE 0
  BY <1>1, <1>2, <1>3
<1> QED
  BY <1>4 DEF t, m, l

-----------------------------------------------------------------------------
(***************************************************************************)
(* The states of the parser, with every field within its array.            *)
(***************************************************************************)
Text(limit) == {w \in Seq(Byte) : Len(w) <= limit}

Lines == [key : Text(MaxKey), value : Text(MaxValue)]

Places == {"METHOD", "URI", "VERSION", "HEADER_KEY", "SPACES", "HEADER_VALUE",
           "BODY", "DONE"}

Scanners ==
  [at : Places, method : Text(MaxWord), uri : Text(MaxUri), version : Text(MaxWord),
   key : Text(MaxKey), value : Text(MaxValue), headers : Seq(Lines)]

(* While headers are still taken there is room for one more.               *)
Bounded ==
  {st \in Scanners :
     /\ Len(st.headers) <= MaxHeaders
     /\ st.at \in {"BODY", "DONE"} \/ Len(st.headers) < MaxHeaders}

LEMMA Limits ==
  /\ MaxHeader \in Nat \ {0} /\ MaxWord \in Nat /\ MaxUri \in Nat
  /\ MaxKey \in Nat /\ MaxValue \in Nat /\ MaxHeaders \in Nat \ {0}
BY ParseAssumption

LEMMA EmptyText ==
  ASSUME NEW limit \in Nat
  PROVE  << >> \in Text(limit)
BY DEF Text

LEMMA StartBounded == Start \in Bounded
<1>1. \A limit \in Nat : << >> \in Text(limit)
  BY EmptyText
<1>2. << >> \in Seq(Lines) /\ Len(<< >>) = 0
  OBVIOUS
<1> QED
  BY <1>1, <1>2, Limits DEF Start, Bounded, Scanners, Places

(* A field with room takes a byte more, one without takes none.            *)
LEMMA Longer ==
  ASSUME NEW limit \in Nat, NEW w \in Text(limit), NEW b \in Byte
  PROVE  Len(w) < limit => Append(w, b) \in Text(limit)
<1>1. w \in Seq(Byte) /\ Len(w) \in Nat
  BY DEF Text
<1>2. Append(w, b) \in Seq(Byte) /\ Len(Append(w, b)) = Len(w) + 1
  BY <1>1
<1> QED
  BY <1>1, <1>2 DEF Text

LEMMA PutBounded ==
  ASSUME NEW st \in Bounded, NEW b \in Byte
  PROVE  /\ Put(st, "method", MaxWord, b) \in Bounded
         /\ Put(st, "uri", MaxUri, b) \in Bounded
         /\ Put(st, "version", MaxWord, b) \in Bounded
         /\ Put(st, "key", MaxKey, b) \in Bounded
         /\ Put(st, "value", MaxValue, b) \in Bounded
<1>0. st \in Scanners
  BY DEF Bounded
<1>1. /\ st.method \in Text(MaxWord) /\ st.uri \in Text(MaxUri)
      /\ st.version \in Text(MaxWord) /\ st.key \in Text(MaxKey)
      /\ st.value \in Text(MaxValue)
  BY <1>0 DEF Scanners
<1>2. Put(st, "method", MaxWord, b) \in Bounded
  <2>1. Len(st.method) < MaxWord => Append(st.method, b) \in Text(MaxWord)
    BY <1>1, Limits, Longer
  <2> QED
    BY <1>0, <2>1 DEF Put, Bounded, Scanners
<1>3. Put(st, "uri", MaxUri, b) \in Bounded
  <2>1. Len(st.uri) < MaxUri => Append(st.uri, b) \in Text(MaxUri)
    BY <1>1, Limits, Longer
  <2> QED
    BY <1>0, <2>1 DEF Put, Bounded, Scanners
<1>4. Put(st, "version", MaxWord, b) \in Bounded
  <2>1. Len(st.version) < MaxWord => Append(st.version, b) \in Text(MaxWord)
    BY <1>1, Limits, Longer
  <2> QED
    BY <1>0, <2>1 DEF Put, Bounded, Scanners
<1>5. Put(st, "key", MaxKey, b) \in Bounded
  <2>1. Len(st.key) < MaxKey => Append(st.key, b) \in Text(MaxKey)
    BY <1>1, Limits, Longer
  <2> QED
    BY <1>0, <2>1 DEF Put, Bounded, Scanners
<1>6. Put(st, "value", MaxValue, b) \in Bounded
  <2>1. Len(st.value) < MaxValue => Append(st.value, b) \in Text(MaxValue)
    BY <1>1, Limits, Longer
  <2> QED
    BY <1>0, <2>1 DEF Put, Bounded, Scanners
<1> QED
  BY <1>2, <1>3, <1>4, <1>5, <1>6

(* The parser moves on; it may always stop.                                *)
LEMMA MoveBounded ==
  ASSUME NEW st \in Bounded, NEW at \in Places,
         at \in {"BODY", "DONE"} \/ st.at \notin {"BODY", "DONE"}
  PROVE  [st EXCEPT !.at = at] \in Bounded
<1>1. st \in Scanners
  BY DEF Bounded
<1> QED
  BY <1>1 DEF Bounded, Scanners

(* A header line is complete.                                              *)
LEMMA EndHeaderBounded ==
  ASSUME NEW st \in Bounded, st.at \notin {"BODY", "DONE"}
  PROVE  EndHeader(st) \in Bounded
<1> DEFINE line == [key |-> st.key, value |-> st.value]
           hs == Append(st.headers, line)
<1>1. st \in Scanners /\ Len(st.headers) < MaxHeaders
  BY DEF Bounded
<1>2. line \in Lines /\ st.headers \in Seq(Lines)
  BY <1>1 DEF Scanners, Lines
<1>3. hs \in Seq(Lines) /\ Len(hs) = Len(st.headers) + 1 /\ Len(st.headers) \in Nat
  <2> HIDE DEF line
  <2> QED
    BY <1>2
<1>4. << >> \in Text(MaxKey) /\ << >> \in Text(MaxValue)
  BY Limits, EmptyText
<1>5. EndHeader(st) = [st EXCEPT !.headers = hs, !.key = << >>, !.value = << >>,
                                 !.at = IF Len(hs) >= MaxHeaders THEN "BODY"
                                        ELSE "HEADER_KEY"]
  BY DEF EndHeader
<1> HIDE DEF hs
<1>6. /\ EndHeader(st) \in Scanners /\ EndHeader(st).headers = hs
      /\ EndHeader(st).at = IF Len(hs) >= MaxHeaders THEN "BODY" ELSE "HEADER_KEY"
  BY <1>1, <1>3, <1>4, <1>5 DEF Scanners, Places
<1> QED
  BY <1>1, <1>3, <1>6, Limits DEF Bounded

(* One byte of the input.                                                  *)
LEMMA StepBounded ==
  ASSUME NEW st \in Bounded, NEW b \in Byte
  PROVE  Step(st, b) \in Bounded
<1>1. st.at \in Places
  BY DEF Bounded, Scanners
<1>2. CASE st.at = "METHOD"
  BY <1>2, MoveBounded, PutBounded DEF Step, InMethod, Places
<1>3. CASE st.at = "URI"
  BY <1>3, MoveBounded, PutBounded DEF Step, InUri, Places
<1>4. CASE st.at = "VERSION"
  BY <1>4, MoveBounded, PutBounded DEF Step, InVersion, Places
<1>5. CASE st.at = "HEADER_KEY"
  BY <1>5, MoveBounded, PutBounded DEF Step, InKey, Places
<1>6. CASE st.at = "HEADER_VALUE"
  BY <1>6, EndHeaderBounded, PutBounded DEF Step, InValue
<1>7. CASE st.at = "SPACES"
  <2> DEFINE next == [st EXCEPT !.at = "HEADER_VALUE"]
  <2>1. next \in Bounded
    BY <1>7, MoveBounded DEF Places
  <2>2. next.at = "HEADER_VALUE"
    BY DEF Bounded, Scanners
  <2> HIDE DEF next
  <2>3. InValue(next, b) \in Bounded
    BY <2>1, <2>2, EndHeaderBounded, PutBounded DEF InValue
  <2> QED
    BY <1>7, <2>3 DEF Step, next
<1>8. CASE st.at \in {"BODY", "DONE"}
  BY <1>8, MoveBounded DEF Step, Places
<1> QED
  BY <1>1, <1>2, <1>3, <1>4, <1>5, <1>6, <1>7, <1>8 DEF Places

-----------------------------------------------------------------------------
(***************************************************************************)
(* The run of the parser over a sequence of bytes.                         *)
(***************************************************************************)
(* run[k] is the state after k bytes.                                      *)
Runs(s, run) == run[0] = Start /\ \A k \in 1 .. Len(s) : run[k] = Step(run[k - 1], s[k])

After(s, run, k) == IF k = 0 THEN Start ELSE Step(run[k - 1], s[k])

(* The first n bytes have a run.                                           *)
RunsFor(s, n) == \E f : f = [k \in 0 .. n |-> After(s, f, k)]

(* A run over n bytes goes on for one byte more.                           *)
LEMMA RunExtends ==
  ASSUME NEW s, NEW n \in Nat, RunsFor(s, n)
  PROVE  RunsFor(s, n + 1)
<1>0. PICK f : f = [k \in 0 .. n |-> After(s, f, k)]
  BY DEF RunsFor
<1> DEFINE g == [k \in 0 .. n + 1 |-> IF k <= n THEN f[k] ELSE Step(f[n], s[n + 1])]
<1>1. ASSUME NEW k \in 0 .. n + 1 PROVE g[k] = After(s, g, k)
  <2>1. CASE k \in 0 .. n
    <3>1. g[k] = f[k] /\ (k # 0 => g[k - 1] = f[k - 1])
      BY <2>1
    <3>2. f[k] = After(s, f, k)
      <4> HIDE DEF g
      <4> QED
        BY <1>0, <2>1, Zenon
    <3> HIDE DEF g
    <3> QED
      BY <3>1, <3>2 DEF After
  <2>2. CASE k = n + 1
    <3>1. g[k] = Step(f[n], s[n + 1]) /\ g[k - 1] = f[n] /\ k # 0 /\ k = n + 1
      BY <2>2
    <3> HIDE DEF g
    <3> QED
      BY <3>1 DEF After
  <2> QED
    BY <2>1, <2>2
<1>2. g = [k \in 0 .. n + 1 |-> g[k]]
  OBVIOUS
<1> HIDE DEF g
<1>3. g = [k \in 0 .. n + 1 |-> After(s, g, k)]
  BY <1>1, <1>2
<1> QED
  BY <1>3 DEF RunsFor

LEMMA RunExists ==
  ASSUME NEW s \in Seq(Byte)
  PROVE  RunsFor(s, Len(s))
<1> DEFINE P == {n \in Nat : RunsFor(s, n)}
<1>1. 0 \in P
  <2> DEFINE f == [k \in 0 .. 0 |-> Start]
  <2>1. f = [k \in 0 .. 0 |-> After(s, f, k)]
    BY DEF After
  <2> QED
    BY <2>1 DEF RunsFor
<1>2. ASSUME NEW n \in P PROVE n + 1 \in P
  BY RunExtends
<1>3. P = Nat
  <2>1. P \in SUBSET Nat
    OBVIOUS
  <2> HIDE DEF P
  <2> QED
    BY <1>1, <1>2, <2>1, Induction
<1>4. Len(s) \in Nat
  OBVIOUS
<1> QED
  BY <1>3, <1>4

(* Parse is where a run ends.                                              *)
LEMMA ParseIsRun ==
  ASSUME NEW s \in Seq(Byte)
  PROVE  \E run : Runs(s, run) /\ Parse(s) = run[Len(s)]
<1> DEFINE run == CHOOSE f : f = [k \in 0 .. Len(s) |->
                                   IF k = 0 THEN Start ELSE Step(f[k - 1], s[k])]
<1>1. run = [k \in 0 .. Len(s) |-> IF k = 0 THEN Start ELSE Step(run[k - 1], s[k])]
  BY RunExists DEF RunsFor, After
<1>2. Parse(s) = run[Len(s)]
  BY DEF Parse
<1>3. Len(s) \in Nat
  OBVIOUS
<1> HIDE DEF run
<1>4. run[0] = Start
  BY <1>1, <1>3
<1>5. \A k \in 1 .. Len(s) : run[k] = Step(run[k - 1], s[k])
  BY <1>1, <1>3
<1> QED
  BY <1>2, <1>4, <1>5 DEF Runs

(* Whatever is parsed, every field stays within its array.                 *)
LEMMA ParseBounded ==
  ASSUME NEW s \in Seq(Byte)
  PROVE  Parse(s) \in Bounded
<1>1. PICK run : Runs(s, run) /\ Parse(s) = run[Len(s)]
  BY ParseIsRun
<1>2. Len(s) \in Nat /\ \A k \in 1 .. Len(s) : s[k] \in Byte
  OBVIOUS
<1> DEFINE P == {n \in Nat : n <= Len(s) => run[n] \in Bounded}
<1>3. 0 \in P
  BY <1>1, StartBounded DEF Runs
<1>4. ASSUME NEW n \in P PROVE n + 1 \in P
  <2>1. CASE n + 1 <= Len(s)
    <3>1. run[n] \in Bounded /\ n + 1 \in 1 .. Len(s) /\ (n + 1) - 1 = n /\ n \in Nat
      BY <1>2, <2>1
    <3>2. run[n + 1] = Step(run[n], s[n + 1]) /\ s[n + 1] \in Byte
      BY <1>1, <1>2, <3>1 DEF Runs
    <3>3. run[n + 1] \in Bounded
      BY <3>1, <3>2, StepBounded
    <3> QED
      BY <3>1, <3>3
  <2>2. CASE ~(n + 1 <= Len(s))
    BY <2>2
  <2> QED
    BY <2>1, <2>2
<1>5. P = Nat
  <2>1. P \in SUBSET Nat
    OBVIOUS
  <2> HIDE DEF P
  <2> QED
    BY <1>3, <1>4, <2>1, Induction
<1>6. Len(s) \in P
  <2> HIDE DEF P
  <2> QED
    BY <1>2, <1>5
<1> QED
  BY <1>1, <1>2, <1>6

-----------------------------------------------------------------------------
(***************************************************************************)
(* The reference definition: where words and lines end, and what is kept.  *)
(***************************************************************************)
(* Upwards from p, as far as q.                                            *)
LEMMA Along ==
  ASSUME NEW p \in Nat, NEW q \in Nat, NEW P \in SUBSET Nat, p \in P,
         \A k \in p + 1 .. q : k - 1 \in P => k \in P
  PROVE  p .. q \subseteq P
<1> DEFINE Q == {n \in Nat : n \in p .. q => n \in P}
<1>1. 0 \in Q
  OBVIOUS
<1>2. ASSUME NEW n \in Q PROVE n + 1 \in Q
  OBVIOUS
<1>3. Q = Nat
  <2>1. Q \in SUBSET Nat
    OBVIOUS
  <2> HIDE DEF Q
  <2> QED
    BY <1>1, <1>2, <2>1, Induction
<1> QED
  BY <1>3

(* The first b at or behind from, or the end.                              *)
LEMMA FirstIs ==
  ASSUME NEW s \in Seq(Byte), NEW b, NEW from \in Nat \ {0}, from <= Len(s) + 2
  PROVE  /\ First(s, b, from) \in 1 .. Len(s) + 1
         /\ from <= Len(s) + 1 => from <= First(s, b, from)
         /\ First(s, b, from) <= Len(s) => s[First(s, b, from)] = b
         /\ First(s, b, from) <= Len(s) => from <= First(s, b, from)
         /\ \A k \in from .. First(s, b, from) - 1 : s[k] # b
<1> DEFINE S == {k \in from .. Len(s) : s[k] = b} \cup {Len(s) + 1}
           m == Min(S)
<1>1. Len(s) \in Nat /\ S \in SUBSET Nat /\ S # {}
  OBVIOUS
<1>2. m \in S /\ \A k \in S : m <= k
  <2> HIDE DEF S
  <2> QED
    BY <1>1, LeastIs
<1>3. First(s, b, from) = m
  BY DEF First
<1> HIDE DEF m
<1>4. m <= Len(s) + 1
  BY <1>2
<1>5. m = Len(s) + 1 \/ (m \in from .. Len(s) /\ s[m] = b)
  BY <1>2
<1>6. ASSUME NEW k \in from .. m - 1 PROVE s[k] # b
  BY <1>1, <1>2, <1>4
<1> QED
  BY <1>1, <1>3, <1>4, <1>5, <1>6

(* The text from p to k is that to k - 1 and one byte.                     *)
LEMMA OneByteMore ==
  ASSUME NEW s \in Seq(Byte), NEW p \in Nat \ {0}, NEW k \in p .. Len(s)
  PROVE  /\ SubSeq(s, p, k - 1) \in Seq(Byte) /\ Len(SubSeq(s, p, k - 1)) = k - p
         /\ s[k] \in Byte /\ k \in Nat
         /\ SubSeq(s, p, k) = Append(SubSeq(s, p, k - 1), s[k])
<1> DEFINE t == SubSeq(s, p, k - 1)
           u == SubSeq(s, p, k)
<1>1. Len(s) \in Nat /\ k \in Nat /\ \A i \in 1 .. Len(s) : s[i] \in Byte
  OBVIOUS
<1>2. \A i \in p .. k : s[i] \in Byte
  BY <1>1
<1>3. /\ t \in Seq(Byte) /\ Len(t) = k - p
      /\ \A i \in 1 .. k - p : t[i] = s[p + i - 1]
  BY <1>1, <1>2, SubSeqProperties
<1>4. /\ u \in Seq(Byte) /\ Len(u) = k - p + 1
      /\ \A i \in 1 .. k - p + 1 : u[i] = s[p + i - 1]
  BY <1>1, <1>2, SubSeqProperties
<1>5. s[k] \in Byte
  BY <1>1
<1> HIDE DEF t, u
<1> DEFINE a == Append(t, s[k])
<1>6. /\ a \in Seq(Byte) /\ Len(a) = k - p + 1 /\ a[k - p + 1] = s[k]
      /\ \A i \in 1 .. k - p : a[i] = s[p + i - 1]
  <2>1. /\ a \in Seq(Byte) /\ Len(a) = Len(t) + 1 /\ a[Len(t) + 1] = s[k]
        /\ \A i \in 1 .. Len(t) : a[i] = t[i]
    BY <1>3, <1>5, AppendProperties
  <2> HIDE DEF a
  <2> QED
    BY <1>3, <2>1
<1>7. \A i \in 1 .. k - p + 1 : a[i] = u[i]
  <2> HIDE DEF a
  <2>1. \A i \in 1 .. k - p + 1 : i \in 1 .. k - p \/ i = k - p + 1
    BY <1>1
  <2>2. p + (k - p + 1) - 1 = k
    BY <1>1
  <2> QED
    BY <1>1, <1>4, <1>6, <2>1, <2>2
<1>8. a = u
  <2> HIDE DEF a
  <2> QED
    BY <1>4, <1>6, <1>7, SeqEqual
<1> QED
  BY <1>1, <1>3, <1>5, <1>8 DEF t, u

LEMMA NothingIs ==
  /\ \A s, p : SubSeq(s, p, p - 1) = << >> \/ p \notin Int
  /\ NoCr(<< >>) = << >>
  /\ \A limit \in Nat : Cut(<< >>, limit) = << >>
<1>1. \A s, p : SubSeq(s, p, p - 1) = << >> \/ p \notin Int
  <2> TAKE s, p
  <2> SUFFICES ASSUME p \in Int PROVE SubSeq(s, p, p - 1) = << >>
    OBVIOUS
  <2>1. p - 1 \in Int /\ p - 1 < p
    OBVIOUS
  <2> QED
    BY <2>1, SubSeqEmpty
<1>2. NoCr(<< >>) = << >>
  BY SelectEmpty DEF NoCr
<1>3. \A limit \in Nat : Cut(<< >>, limit) = << >>
  <2> TAKE limit \in Nat
  <2>1. Len(<< >>) = 0
    OBVIOUS
  <2>2. (IF 0 < limit THEN 0 ELSE limit) = 0
    OBVIOUS
  <2>3. SubSeq(<< >>, 1, 0) = << >>
    BY SubSeqEmpty
  <2> QED
    BY <2>1, <2>2, <2>3 DEF Cut
<1> QED
  BY <1>1, <1>2, <1>3

(* What a field keeps of one byte more.                                    *)
LEMMA CutAppend ==
  ASSUME NEW w \in Seq(Byte), NEW b \in Byte, NEW limit \in Nat
  PROVE  Cut(Append(w, b), limit) =
           IF Len(Cut(w, limit)) < limit THEN Append(Cut(w, limit), b) ELSE Cut(w, limit)
<1> DEFINE v == Append(w, b)
<1>1. /\ v \in Seq(Byte) /\ Len(v) = Len(w) + 1 /\ Len(w) \in Nat
      /\ v[Len(w) + 1] = b /\ \A i \in 1 .. Len(w) : v[i] = w[i]
  BY AppendProperties, LenProperties
<1> HIDE DEF v
<1>2. CASE Len(w) < limit
  <2>1. Cut(v, limit) = v
    <3>1. (IF Len(v) < limit THEN Len(v) ELSE limit) = Len(v)
      BY <1>1, <1>2
    <3> QED
      BY <1>1, <3>1, SubSeqFull DEF Cut
  <2>2. Cut(w, limit) = w
    BY <1>2, SubSeqFull DEF Cut
  <2> QED
    BY <1>2, <2>1, <2>2 DEF v
<1>3. CASE ~(Len(w) < limit)
  <2> DEFINE x == SubSeq(v, 1, limit)
             y == SubSeq(w, 1, limit)
  <2>1. Cut(v, limit) = x /\ Cut(w, limit) = y
    BY <1>1, <1>3 DEF Cut
  <2>2. /\ x \in Seq(Byte) /\ Len(x) = limit /\ \A i \in 1 .. limit : x[i] = v[i]
        /\ y \in Seq(Byte) /\ Len(y) = limit /\ \A i \in 1 .. limit : y[i] = w[i]
    BY <1>1, <1>3
  <2> HIDE DEF x, y
  <2>3. \A i \in 1 .. limit : x[i] = y[i]
    BY <1>1, <1>3, <2>2
  <2>4. x = y
    BY <2>2, <2>3, SeqEqual
  <2> QED
    BY <2>1, <2>2, <2>4 DEF v
<1> QED
  BY <1>2, <1>3

LEMMA NoCrAppend ==
  ASSUME NEW w \in Seq(Byte), NEW b \in Byte
  PROVE  /\ NoCr(w) \in Seq(Byte)
         /\ NoCr(Append(w, b)) = IF b = "cr" THEN NoCr(w) ELSE Append(NoCr(w), b)
BY SelectType, SelectAppend DEF NoCr

(* So what a field has taken in of the text from p on, byte by byte.       *)
LEMMA Taken ==
  ASSUME NEW s \in Seq(Byte), NEW p \in Nat \ {0}, NEW k \in p .. Len(s), NEW limit \in Nat
  PROVE  LET w == Cut(SubSeq(s, p, k - 1), limit)
         IN  Cut(SubSeq(s, p, k), limit) = IF Len(w) < limit THEN Append(w, s[k]) ELSE w
<1> DEFINE t == SubSeq(s, p, k - 1)
<1>1. t \in Seq(Byte) /\ s[k] \in Byte /\ SubSeq(s, p, k) = Append(t, s[k])
  BY OneByteMore
<1> HIDE DEF t
<1>2. Cut(Append(t, s[k]), limit) =
        IF Len(Cut(t, limit)) < limit THEN Append(Cut(t, limit), s[k]) ELSE Cut(t, limit)
  BY <1>1, CutAppend
<1> QED
  BY <1>1, <1>2 DEF t

LEMMA TakenNoCr ==
  ASSUME NEW s \in Seq(Byte), NEW p \in Nat \ {0}, NEW k \in p .. Len(s), NEW limit \in Nat
  PROVE  LET w == Cut(NoCr(SubSeq(s, p, k - 1)), limit)
         IN  Cut(NoCr(SubSeq(s, p, k)), limit) =
               IF s[k] # "cr" /\ Len(w) < limit THEN Append(w, s[k]) ELSE w
<1> DEFINE t == SubSeq(s, p, k - 1)
<1>1. t \in Seq(Byte) /\ s[k] \in Byte /\ SubSeq(s, p, k) = Append(t, s[k])
  BY OneByteMore
<1> HIDE DEF t
<1>2. /\ NoCr(t) \in Seq(Byte)
      /\ NoCr(Append(t, s[k])) = IF s[k] = "cr" THEN NoCr(t) ELSE Append(NoCr(t), s[k])
  BY <1>1, NoCrAppend
<1>3. Cut(Append(NoCr(t), s[k]), limit) =
        IF Len(Cut(NoCr(t), limit)) < limit THEN Append(Cut(NoCr(t), limit), s[k])
        ELSE Cut(NoCr(t), limit)
  BY <1>1, <1>2, CutAppend
<1> QED
  BY <1>1, <1>2, <1>3 DEF t

-----------------------------------------------------------------------------
(***************************************************************************)
(* The states of the parser again, and its steps field by field.           *)
(***************************************************************************)
Scan(at, m, u, v, k, x, h) ==
  [at |-> at, method |-> m, uri |-> u, version |-> v, key |-> k, value |-> x, headers |-> h]

(* What a text becomes by a byte.                                          *)
Fill(w, limit, b) == IF Len(w) < limit THEN Append(w, b) ELSE w

LEMMA PutIs ==
  ASSUME NEW at, NEW m, NEW u, NEW v, NEW k, NEW x, NEW h, NEW limit, NEW b
  PROVE  LET st == Scan(at, m, u, v, k, x, h)
         IN  /\ Put(st, "method", limit, b) = Scan(at, Fill(m, limit, b), u, v, k, x, h)
             /\ Put(st, "uri", limit, b) = Scan(at, m, Fill(u, limit, b), v, k, x, h)
             /\ Put(st, "version", limit, b) = Scan(at, m, u, Fill(v, limit, b), k, x, h)
             /\ Put(st, "key", limit, b) = Scan(at, m, u, v, Fill(k, limit, b), x, h)
             /\ Put(st, "value", limit, b) = Scan(at, m, u, v, k, Fill(x, limit, b), h)
BY DEF Put, Scan, Fill

LEMMA InRequestLine ==
  ASSUME NEW m, NEW u, NEW v, NEW k, NEW x, NEW h, NEW b
  PROVE  /\ Step(Scan("METHOD", m, u, v, k, x, h), b) =
              IF b = "sp" THEN Scan("URI", m, u, v, k, x, h)
              ELSE Scan("METHOD", Fill(m, MaxWord, b), u, v, k, x, h)
         /\ Step(Scan("URI", m, u, v, k, x, h), b) =
              IF b = "sp" THEN Scan("VERSION", m, u, v, k, x, h)
              ELSE Scan("URI", m, Fill(u, MaxUri, b), v, k, x, h)
         /\ Step(Scan("VERSION", m, u, v, k, x, h), b) =
              IF b = "lf" THEN Scan("HEADER_KEY", m, u, v, k, x, h)
              ELSE Scan("VERSION", m, u, IF b = "cr" THEN v ELSE Fill(v, MaxWord, b), k, x, h)
<1>1. Step(Scan("METHOD", m, u, v, k, x, h), b) = InMethod(Scan("METHOD", m, u, v, k, x, h), b)
  BY DEF Step, Scan
<1>2. Step(Scan("URI", m, u, v, k, x, h), b) = InUri(Scan("URI", m, u, v, k, x, h), b)
  BY DEF Step, Scan
<1>3. Step(Scan("VERSION", m, u, v, k, x, h), b) = InVersion(Scan("VERSION", m, u, v, k, x, h), b)
  BY DEF Step, Scan
<1>4. \A at, to : [Scan(at, m, u, v, k, x, h) EXCEPT !.at = to] = Scan(to, m, u, v, k, x, h)
  BY DEF Scan
<1> QED
  BY <1>1, <1>2, <1>3, <1>4, PutIs DEF InMethod, InUri, InVersion

(* A complete line is a header more.                                       *)
Ended(m, u, v, k, x, h) ==
  LET hs == Append(h, [key |-> k, value |-> x])
  IN  Scan(IF Len(hs) >= MaxHeaders THEN "BODY" ELSE "HEADER_KEY",
           m, u, v, << >>, << >>, hs)

LEMMA InHeaders ==
  ASSUME NEW m, NEW u, NEW v, NEW k, NEW x, NEW h, NEW b
  PROVE  /\ b = "colon" =>
              Step(Scan("HEADER_KEY", m, u, v, k, x, h), b) = Scan("SPACES", m, u, v, k, x, h)
         /\ b = "lf" =>
              Step(Scan("HEADER_KEY", m, u, v, k, x, h), b) = Scan("BODY", m, u, v, k, x, h)
         /\ b \notin {"colon", "lf"} =>
              Step(Scan("HEADER_KEY", m, u, v, k, x, h), b) =
                Scan("HEADER_KEY", m, u, v, IF b = "cr" THEN k ELSE Fill(k, MaxKey, b), x, h)
         /\ b = "lf" =>
              Step(Scan("HEADER_VALUE", m, u, v, k, x, h), b) = Ended(m, u, v, k, x, h)
         /\ b # "lf" =>
              Step(Scan("HEADER_VALUE", m, u, v, k, x, h), b) =
                Scan("HEADER_VALUE", m, u, v, k,
                     IF b = "cr" THEN x ELSE Fill(x, MaxValue, b), h)
         /\ b = "sp" =>
              Step(Scan("SPACES", m, u, v, k, x, h), b) = Scan("SPACES", m, u, v, k, x, h)
         /\ b # "sp" =>
              Step(Scan("SPACES", m, u, v, k, x, h), b) =
                Step(Scan("HEADER_VALUE", m, u, v, k, x, h), b)
         /\ \A at \in {"BODY", "DONE"} :
              Step(Scan(at, m, u, v, k, x, h), b) = Scan("DONE", m, u, v, k, x, h)
<1> DEFINE hs == Append(h, [key |-> k, value |-> x])
           st(at) == Scan(at, m, u, v, k, x, h)
<1>1. \A at, to : [st(at) EXCEPT !.at = to] = st(to)
  BY DEF Scan
<1>2. Step(st("HEADER_KEY"), b) = InKey(st("HEADER_KEY"), b)
  BY DEF Step, Scan
<1>3. Step(st("HEADER_VALUE"), b) = InValue(st("HEADER_VALUE"), b)
  BY DEF Step, Scan
<1>4. Step(st("SPACES"), b) = IF b = "sp" THEN st("SPACES") ELSE InValue(st("HEADER_VALUE"), b)
  BY <1>1 DEF Step, Scan
<1>5. \A at \in {"BODY", "DONE"} : Step(st(at), b) = st("DONE")
  BY <1>1 DEF Step, Scan
<1>6. EndHeader(st("HEADER_VALUE")) = Ended(m, u, v, k, x, h)
  <2>1. EndHeader(st("HEADER_VALUE")) =
          [st("HEADER_VALUE") EXCEPT !.headers = hs, !.key = << >>, !.value = << >>,
             !.at = IF Len(hs) >= MaxHeaders THEN "BODY" ELSE "HEADER_KEY"]
    BY DEF EndHeader, Scan
  <2>2. Ended(m, u, v, k, x, h) =
          Scan(IF Len(hs) >= MaxHeaders THEN "BODY" ELSE "HEADER_KEY",
               m, u, v, << >>, << >>, hs)
    BY DEF Ended
  <2> HIDE DEF hs
  <2> QED
    BY <2>1, <2>2 DEF Scan
<1>7. InValue(st("HEADER_VALUE"), b) =
        IF b = "lf" THEN Ended(m, u, v, k, x, h)
        ELSE Scan("HEADER_VALUE", m, u, v, k, IF b = "cr" THEN x ELSE Fill(x, MaxValue, b), h)
  BY <1>6, PutIs DEF InValue
<1>8. InKey(st("HEADER_KEY"), b) =
        CASE b = "colon" -> st("SPACES")
          [] b = "lf"    -> st("BODY")
          [] b = "cr"    -> st("HEADER_KEY")
          [] OTHER       -> Scan("HEADER_KEY", m, u, v, Fill(k, MaxKey, b), x, h)
  BY <1>1, PutIs DEF InKey
<1> HIDE DEF st
<1>9. /\ b = "colon" => InKey(st("HEADER_KEY"), b) = st("SPACES")
      /\ b = "lf" => InKey(st("HEADER_KEY"), b) = st("BODY")
      /\ b \notin {"colon", "lf"} =>
           InKey(st("HEADER_KEY"), b) =
             IF b = "cr" THEN st("HEADER_KEY")
             ELSE Scan("HEADER_KEY", m, u, v, Fill(k, MaxKey, b), x, h)
  BY <1>8
<1> QED
  BY <1>2, <1>3, <1>4, <1>5, <1>7, <1>9 DEF st

-----------------------------------------------------------------------------
(***************************************************************************)
(* A run, piece by piece: what a field takes in from p on as long as no    *)
(* byte comes that ends it.                                                *)
(***************************************************************************)
LEMMA MethodPart ==
  ASSUME NEW s \in Seq(Byte), NEW run, Runs(s, run),
         NEW p \in 0 .. Len(s), NEW q \in p .. Len(s), NEW u, NEW v, NEW key, NEW x, NEW h,
         run[p] = Scan("METHOD", << >>, u, v, key, x, h),
         \A j \in p + 1 .. q : s[j] # "sp"
  PROVE  \A k \in p .. q : run[k] = Scan("METHOD", Cut(SubSeq(s, p + 1, k), MaxWord), u, v, key, x, h)
<1> DEFINE P == {k \in Nat : run[k] = Scan("METHOD", Cut(SubSeq(s, p + 1, k), MaxWord), u, v, key, x, h)}
<1>1. p \in Nat /\ q \in Nat /\ Len(s) \in Nat /\ p + 1 \in Nat \ {0} /\ (p + 1) - 1 = p
  OBVIOUS
<1>2. p \in P
  <2>1. SubSeq(s, p + 1, p) = << >>
    BY <1>1, SubSeqEmpty
  <2>2. Cut(SubSeq(s, p + 1, p), MaxWord) = << >>
    BY <2>1, Limits, NothingIs
  <2> QED
    BY <1>1, <2>2
<1>3. ASSUME NEW k \in p + 1 .. q, k - 1 \in P
      PROVE  k \in P
  <2>1. k \in 1 .. Len(s) /\ k \in p + 1 .. Len(s) /\ k \in Nat
    BY <1>1
  <2> DEFINE w == Cut(SubSeq(s, p + 1, k - 1), MaxWord)
  <2>2. run[k - 1] = Scan("METHOD", w, u, v, key, x, h)
    BY <1>3
  <2>3. run[k] = Step(run[k - 1], s[k]) /\ s[k] # "sp"
    BY <2>1 DEF Runs
  <2>4. Cut(SubSeq(s, p + 1, k), MaxWord) = IF Len(w) < MaxWord THEN Append(w, s[k]) ELSE w
    BY <1>1, <2>1, Limits, Taken
  <2> HIDE DEF w
  <2>5. Step(Scan("METHOD", w, u, v, key, x, h), s[k]) = Scan("METHOD", Fill(w, MaxWord, s[k]), u, v, key, x, h)
    BY <2>3, InRequestLine
  <2>6. run[k] = Scan("METHOD", Cut(SubSeq(s, p + 1, k), MaxWord), u, v, key, x, h)
    BY <2>2, <2>3, <2>4, <2>5 DEF Fill
  <2> QED
    BY <2>1, <2>6
<1>4. p .. q \subseteq P
  <2>1. P \in SUBSET Nat
    OBVIOUS
  <2> HIDE DEF P
  <2> QED
    BY <1>1, <1>2, <1>3, <2>1, Along
<1> QED
  BY <1>4

LEMMA UriPart ==
  ASSUME NEW s \in Seq(Byte), NEW run, Runs(s, run),
         NEW p \in 0 .. Len(s), NEW q \in p .. Len(s), NEW m, NEW v, NEW key, NEW x, NEW h,
         run[p] = Scan("URI", m, << >>, v, key, x, h),
         \A j \in p + 1 .. q : s[j] # "sp"
  PROVE  \A k \in p .. q : run[k] = Scan("URI", m, Cut(SubSeq(s, p + 1, k), MaxUri), v, key, x, h)
<1> DEFINE P == {k \in Nat : run[k] = Scan("URI", m, Cut(SubSeq(s, p + 1, k), MaxUri), v, key, x, h)}
<1>1. p \in Nat /\ q \in Nat /\ Len(s) \in Nat /\ p + 1 \in Nat \ {0} /\ (p + 1) - 1 = p
  OBVIOUS
<1>2. p \in P
  <2>1. SubSeq(s, p + 1, p) = << >>
    BY <1>1, SubSeqEmpty
  <2>2. Cut(SubSeq(s, p + 1, p), MaxUri) = << >>
    BY <2>1, Limits, NothingIs
  <2> QED
    BY <1>1, <2>2
<1>3. ASSUME NEW k \in p + 1 .. q, k - 1 \in P
      PROVE  k \in P
  <2>1. k \in 1 .. Len(s) /\ k \in p + 1 .. Len(s) /\ k \in Nat
    BY <1>1
  <2> DEFINE w == Cut(SubSeq(s, p + 1, k - 1), MaxUri)
  <2>2. run[k - 1] = Scan("URI", m, w, v, key, x, h)
    BY <1>3
  <2>3. run[k] = Step(run[k - 1], s[k]) /\ s[k] # "sp"
    BY <2>1 DEF Runs
  <2>4. Cut(SubSeq(s, p + 1, k), MaxUri) = IF Len(w) < MaxUri THEN Append(w, s[k]) ELSE w
    BY <1>1, <2>1, Limits, Taken
  <2> HIDE DEF w
  <2>5. Step(Scan("URI", m, w, v, key, x, h), s[k]) = Scan("URI", m, Fill(w, MaxUri, s[k]), v, key, x, h)
    BY <2>3, InRequestLine
  <2>6. run[k] = Scan("URI", m, Cut(SubSeq(s, p + 1, k), MaxUri), v, key, x, h)
    BY <2>2, <2>3, <2>4, <2>5 DEF Fill
  <2> QED
    BY <2>1, <2>6
<1>4. p .. q \subseteq P
  <2>1. P \in SUBSET Nat
    OBVIOUS
  <2> HIDE DEF P
  <2> QED
    BY <1>1, <1>2, <1>3, <2>1, Along
<1> QED
  BY <1>4

LEMMA VersionPart ==
  ASSUME NEW s \in Seq(Byte), NEW run, Runs(s, run),
         NEW p \in 0 .. Len(s), NEW q \in p .. Len(s), NEW m, NEW u, NEW key, NEW x, NEW h,
         run[p] = Scan("VERSION", m, u, << >>, key, x, h),
         \A j \in p + 1 .. q : s[j] # "lf"
  PROVE  \A k \in p .. q : run[k] = Scan("VERSION", m, u, Cut(NoCr(SubSeq(s, p + 1, k)), MaxWord), key, x, h)
<1> DEFINE P == {k \in Nat : run[k] = Scan("VERSION", m, u, Cut(NoCr(SubSeq(s, p + 1, k)), MaxWord), key, x, h)}
<1>1. p \in Nat /\ q \in Nat /\ Len(s) \in Nat /\ p + 1 \in Nat \ {0} /\ (p + 1) - 1 = p
  OBVIOUS
<1>2. p \in P
  <2>1. SubSeq(s, p + 1, p) = << >>
    BY <1>1, SubSeqEmpty
  <2>2. Cut(NoCr(SubSeq(s, p + 1, p)), MaxWord) = << >>
    BY <2>1, Limits, NothingIs
  <2> QED
    BY <1>1, <2>2
<1>3. ASSUME NEW k \in p + 1 .. q, k - 1 \in P
      PROVE  k \in P
  <2>1. k \in 1 .. Len(s) /\ k \in p + 1 .. Len(s) /\ k \in Nat
    BY <1>1
  <2> DEFINE w == Cut(NoCr(SubSeq(s, p + 1, k - 1)), MaxWord)
  <2>2. run[k - 1] = Scan("VERSION", m, u, w, key, x, h)
    BY <1>3
  <2>3. run[k] = Step(run[k - 1], s[k]) /\ s[k] # "lf"
    BY <2>1 DEF Runs
  <2>4. Cut(NoCr(SubSeq(s, p + 1, k)), MaxWord) = IF s[k] # "cr" /\ Len(w) < MaxWord THEN Append(w, s[k]) ELSE w
    BY <1>1, <2>1, Limits, TakenNoCr
  <2> HIDE DEF w
  <2>5. Step(Scan("VERSION", m, u, w, key, x, h), s[k]) = Scan("VERSION", m, u, IF s[k] = "cr" THEN w ELSE Fill(w, MaxWord, s[k]), key, x, h)
    BY <2>3, InRequestLine
  <2>6. run[k] = Scan("VERSION", m, u, Cut(NoCr(SubSeq(s, p + 1, k)), MaxWord), key, x, h)
    BY <2>2, <2>3, <2>4, <2>5 DEF Fill
  <2> QED
    BY <2>1, <2>6
<1>4. p .. q \subseteq P
  <2>1. P \in SUBSET Nat
    OBVIOUS
  <2> HIDE DEF P
  <2> QED
    BY <1>1, <1>2, <1>3, <2>1, Along
<1> QED
  BY <1>4

LEMMA KeyPart ==
  ASSUME NEW s \in Seq(Byte), NEW run, Runs(s, run),
         NEW p \in 0 .. Len(s), NEW q \in p .. Len(s), NEW m, NEW u, NEW v, NEW x, NEW h,
         run[p] = Scan("HEADER_KEY", m, u, v, << >>, x, h),
         \A j \in p + 1 .. q : s[j] # "colon" /\ s[j] # "lf"
  PROVE  \A k \in p .. q : run[k] = Scan("HEADER_KEY", m, u, v, Cut(NoCr(SubSeq(s, p + 1, k)), MaxKey), x, h)
<1> DEFINE P == {k \in Nat : run[k] = Scan("HEADER_KEY", m, u, v, Cut(NoCr(SubSeq(s, p + 1, k)), MaxKey), x, h)}
<1>1. p \in Nat /\ q \in Nat /\ Len(s) \in Nat /\ p + 1 \in Nat \ {0} /\ (p + 1) - 1 = p
  OBVIOUS
<1>2. p \in P
  <2>1. SubSeq(s, p + 1, p) = << >>
    BY <1>1, SubSeqEmpty
  <2>2. Cut(NoCr(SubSeq(s, p + 1, p)), MaxKey) = << >>
    BY <2>1, Limits, NothingIs
  <2> QED
    BY <1>1, <2>2
<1>3. ASSUME NEW k \in p + 1 .. q, k - 1 \in P
      PROVE  k \in P
  <2>1. k \in 1 .. Len(s) /\ k \in p + 1 .. Len(s) /\ k \in Nat
    BY <1>1
  <2> DEFINE w == Cut(NoCr(SubSeq(s, p + 1, k - 1)), MaxKey)
  <2>2. run[k - 1] = Scan("HEADER_KEY", m, u, v, w, x, h)
    BY <1>3
  <2>3. run[k] = Step(run[k - 1], s[k]) /\ s[k] # "colon" /\ s[k] # "lf"
    BY <2>1 DEF Runs
  <2>4. Cut(NoCr(SubSeq(s, p + 1, k)), MaxKey) = IF s[k] # "cr" /\ Len(w) < MaxKey THEN Append(w, s[k]) ELSE w
    BY <1>1, <2>1, Limits, TakenNoCr
  <2> HIDE DEF w
  <2>5. Step(Scan("HEADER_KEY", m, u, v, w, x, h), s[k]) = Scan("HEADER_KEY", m, u, v, IF s[k] = "cr" THEN w ELSE Fill(w, MaxKey, s[k]), x, h)
    BY <2>3, InHeaders
  <2>6. run[k] = Scan("HEADER_KEY", m, u, v, Cut(NoCr(SubSeq(s, p + 1, k)), MaxKey), x, h)
    BY <2>2, <2>3, <2>4, <2>5 DEF Fill
  <2> QED
    BY <2>1, <2>6
<1>4. p .. q \subseteq P
  <2>1. P \in SUBSET Nat
    OBVIOUS
  <2> HIDE DEF P
  <2> QED
    BY <1>1, <1>2, <1>3, <2>1, Along
<1> QED
  BY <1>4

LEMMA ValuePart ==
  ASSUME NEW s \in Seq(Byte), NEW run, Runs(s, run),
         NEW p \in 0 .. Len(s), NEW q \in p + 1 .. Len(s), NEW m, NEW u, NEW v, NEW key, NEW h,
         run[p + 1] = Step(Scan("HEADER_VALUE", m, u, v, key, << >>, h), s[p + 1]),
         \A j \in p + 1 .. q : s[j] # "lf"
  PROVE  \A k \in p + 1 .. q : run[k] = Scan("HEADER_VALUE", m, u, v, key, Cut(NoCr(SubSeq(s, p + 1, k)), MaxValue), h)
<1> DEFINE P == {k \in Nat : run[k] = Scan("HEADER_VALUE", m, u, v, key, Cut(NoCr(SubSeq(s, p + 1, k)), MaxValue), h)}
<1>1. p \in Nat /\ q \in Nat /\ Len(s) \in Nat /\ p + 1 \in Nat \ {0}
  OBVIOUS
<1>2. ASSUME NEW k \in p + 1 .. q, NEW st, run[k] = Step(st, s[k]),
             st = Scan("HEADER_VALUE", m, u, v, key, Cut(NoCr(SubSeq(s, p + 1, k - 1)), MaxValue), h)
      PROVE  k \in P
  <2>1. k \in 1 .. Len(s) /\ k \in p + 1 .. Len(s) /\ k \in Nat
    BY <1>1
  <2> DEFINE w == Cut(NoCr(SubSeq(s, p + 1, k - 1)), MaxValue)
  <2>2. Cut(NoCr(SubSeq(s, p + 1, k)), MaxValue) =
          IF s[k] # "cr" /\ Len(w) < MaxValue THEN Append(w, s[k]) ELSE w
    BY <1>1, <2>1, Limits, TakenNoCr
  <2>3. st = Scan("HEADER_VALUE", m, u, v, key, w, h)
    BY <1>2
  <2> HIDE DEF w
  <2>4. Step(Scan("HEADER_VALUE", m, u, v, key, w, h), s[k]) =
          Scan("HEADER_VALUE", m, u, v, key, IF s[k] = "cr" THEN w ELSE Fill(w, MaxValue, s[k]), h)
    BY InHeaders
  <2>5. run[k] = Scan("HEADER_VALUE", m, u, v, key, Cut(NoCr(SubSeq(s, p + 1, k)), MaxValue), h)
    BY <1>2, <2>2, <2>3, <2>4 DEF Fill
  <2> QED
    BY <2>1, <2>5
<1>3. p + 1 \in P
  <2>1. SubSeq(s, p + 1, (p + 1) - 1) = << >>
    BY <1>1, SubSeqEmpty
  <2>2. Cut(NoCr(SubSeq(s, p + 1, (p + 1) - 1)), MaxValue) = << >>
    BY <2>1, Limits, NothingIs
  <2> DEFINE st == Scan("HEADER_VALUE", m, u, v, key, << >>, h)
  <2>3. p + 1 \in p + 1 .. q
    BY <1>1
  <2> HIDE DEF P
  <2> QED
    BY <1>2, <2>2, <2>3
<1>4. ASSUME NEW k \in (p + 1) + 1 .. q, k - 1 \in P
      PROVE  k \in P
  <2>1. k \in p + 1 .. q /\ k \in 1 .. Len(s)
    BY <1>1
  <2>2. run[k] = Step(run[k - 1], s[k])
    BY <2>1 DEF Runs
  <2>3. run[k - 1] = Scan("HEADER_VALUE", m, u, v, key,
                          Cut(NoCr(SubSeq(s, p + 1, k - 1)), MaxValue), h)
    BY <1>4
  <2> HIDE DEF P
  <2> QED
    BY <1>2, <2>1, <2>2, <2>3
<1>5. p + 1 .. q \subseteq P
  <2>1. P \in SUBSET Nat
    OBVIOUS
  <2> HIDE DEF P
  <2> QED
    BY <1>1, <1>3, <1>4, <2>1, Along
<1> QED
  BY <1>5

LEMMA SpacePart ==
  ASSUME NEW s \in Seq(Byte), NEW run, Runs(s, run),
         NEW p \in 0 .. Len(s), NEW q \in p .. Len(s),
         NEW m, NEW u, NEW v, NEW key, NEW x, NEW h,
         run[p] = Scan("SPACES", m, u, v, key, x, h),
         \A j \in p + 1 .. q : s[j] = "sp"
  PROVE  \A k \in p .. q : run[k] = Scan("SPACES", m, u, v, key, x, h)
<1> DEFINE P == {k \in Nat : run[k] = Scan("SPACES", m, u, v, key, x, h)}
<1>1. p \in Nat /\ q \in Nat /\ Len(s) \in Nat /\ p \in P
  OBVIOUS
<1>2. ASSUME NEW k \in p + 1 .. q, k - 1 \in P PROVE k \in P
  <2>1. k \in 1 .. Len(s) /\ k \in Nat /\ s[k] = "sp"
    BY <1>1
  <2>2. run[k] = Step(run[k - 1], s[k])
    BY <2>1 DEF Runs
  <2> QED
    BY <1>2, <2>1, <2>2, InHeaders
<1>3. p .. q \subseteq P
  <2>1. P \in SUBSET Nat
    OBVIOUS
  <2> HIDE DEF P
  <2> QED
    BY <1>1, <1>2, <2>1, Along
<1> QED
  BY <1>3

(* Without a line end no header is added, nor behind the last.             *)
InLine(st, m, u, v, h) ==
  \E at \in {"HEADER_KEY", "SPACES", "HEADER_VALUE"} : \E key, x :
    st = Scan(at, m, u, v, key, x, h)

Over(st, m, u, v, h) ==
  \E at \in {"BODY", "DONE"} : \E key, x : st = Scan(at, m, u, v, key, x, h)

LEMMA LinePart ==
  ASSUME NEW s \in Seq(Byte), NEW run, Runs(s, run),
         NEW p \in 0 .. Len(s), NEW q \in p .. Len(s),
         NEW m, NEW u, NEW v, NEW h, InLine(run[p], m, u, v, h),
         \A j \in p + 1 .. q : s[j] # "lf"
  PROVE  \A k \in p .. q : InLine(run[k], m, u, v, h)
<1> DEFINE P == {k \in Nat : InLine(run[k], m, u, v, h)}
<1>1. p \in Nat /\ q \in Nat /\ Len(s) \in Nat /\ p \in P
  OBVIOUS
<1>2. ASSUME NEW k \in p + 1 .. q, k - 1 \in P PROVE k \in P
  <2>1. k \in 1 .. Len(s) /\ k \in Nat /\ s[k] # "lf"
    BY <1>1
  <2>2. run[k] = Step(run[k - 1], s[k])
    BY <2>1 DEF Runs
  <2>3. PICK at, key, x : /\ at \in {"HEADER_KEY", "SPACES", "HEADER_VALUE"}
                            /\ run[k - 1] = Scan(at, m, u, v, key, x, h)
    BY <1>2 DEF InLine
  <2>4. InLine(Step(Scan("HEADER_VALUE", m, u, v, key, x, h), s[k]), m, u, v, h)
    <3>1. Step(Scan("HEADER_VALUE", m, u, v, key, x, h), s[k]) =
            Scan("HEADER_VALUE", m, u, v, key,
                 IF s[k] = "cr" THEN x ELSE Fill(x, MaxValue, s[k]), h)
      BY <2>1, InHeaders
    <3> QED
      BY <3>1 DEF InLine
  <2>5. InLine(Step(Scan("HEADER_KEY", m, u, v, key, x, h), s[k]), m, u, v, h)
    <3>1. CASE s[k] = "colon"
      <4>1. Step(Scan("HEADER_KEY", m, u, v, key, x, h), s[k]) =
              Scan("SPACES", m, u, v, key, x, h)
        BY <3>1, InHeaders
      <4> QED
        BY <4>1 DEF InLine
    <3>2. CASE s[k] # "colon"
      <4>1. Step(Scan("HEADER_KEY", m, u, v, key, x, h), s[k]) =
              Scan("HEADER_KEY", m, u, v,
                   IF s[k] = "cr" THEN key ELSE Fill(key, MaxKey, s[k]), x, h)
        BY <2>1, <3>2, InHeaders
      <4> QED
        BY <4>1 DEF InLine
    <3> QED
      BY <3>1, <3>2
  <2>6. InLine(Step(Scan("SPACES", m, u, v, key, x, h), s[k]), m, u, v, h)
    <3>1. CASE s[k] = "sp"
      <4>1. Step(Scan("SPACES", m, u, v, key, x, h), s[k]) = Scan("SPACES", m, u, v, key, x, h)
        BY <3>1, InHeaders
      <4> QED
        BY <4>1 DEF InLine
    <3>2. CASE s[k] # "sp"
      <4>1. Step(Scan("SPACES", m, u, v, key, x, h), s[k]) =
              Step(Scan("HEADER_VALUE", m, u, v, key, x, h), s[k])
        BY <3>2, InHeaders
      <4> QED
        BY <2>4, <4>1
    <3> QED
      BY <3>1, <3>2
  <2>7. InLine(run[k], m, u, v, h)
    BY <2>2, <2>3, <2>4, <2>5, <2>6
  <2> QED
    BY <2>1, <2>7
<1>3. p .. q \subseteq P
  <2>1. P \in SUBSET Nat
    OBVIOUS
  <2> HIDE DEF P
  <2> QED
    BY <1>1, <1>2, <2>1, Along
<1> QED
  BY <1>3

LEMMA OverPart ==
  ASSUME NEW s \in Seq(Byte), NEW run, Runs(s, run),
         NEW p \in 0 .. Len(s), NEW m, NEW u, NEW v, NEW h, Over(run[p], m, u, v, h)
  PROVE  \A k \in p .. Len(s) : Over(run[k], m, u, v, h)
<1> DEFINE P == {k \in Nat : Over(run[k], m, u, v, h)}
<1>1. p \in Nat /\ Len(s) \in Nat /\ p \in P
  OBVIOUS
<1>2. ASSUME NEW k \in p + 1 .. Len(s), k - 1 \in P PROVE k \in P
  <2>1. k \in 1 .. Len(s) /\ k \in Nat
    BY <1>1
  <2>2. run[k] = Step(run[k - 1], s[k])
    BY <2>1 DEF Runs
  <2>3. PICK at, key, x : at \in {"BODY", "DONE"} /\ run[k - 1] = Scan(at, m, u, v, key, x, h)
    BY <1>2 DEF Over
  <2>4. run[k] = Scan("DONE", m, u, v, key, x, h)
    BY <2>2, <2>3, InHeaders
  <2> QED
    BY <2>1, <2>4 DEF Over
<1>3. p .. Len(s) \subseteq P
  <2>1. P \in SUBSET Nat
    OBVIOUS
  <2> HIDE DEF P
  <2> QED
    BY <1>1, <1>2, <2>1, Along
<1> QED
  BY <1>3

-----------------------------------------------------------------------------
(***************************************************************************)
(* A whole header line.                                                    *)
(***************************************************************************)
(* Places in a part of the text, and in the text.                          *)
LEMMA PartOfText ==
  ASSUME NEW s \in Seq(Byte), NEW p \in 0 .. Len(s), NEW r \in p .. Len(s)
  PROVE  LET t == SubSeq(s, p + 1, r)
         IN  /\ t \in Seq(Byte) /\ Len(t) = r - p
             /\ \A i \in 1 .. r - p : t[i] = s[p + i]
             /\ \A i \in 1 .. r - p + 1 : \A j \in i - 1 .. r - p :
                  SubSeq(t, i, j) = SubSeq(s, p + i, p + j)
<1> DEFINE t == SubSeq(s, p + 1, r)
<1>1. Len(s) \in Nat /\ p \in Nat /\ r \in Nat /\ \A i \in 1 .. Len(s) : s[i] \in Byte
  OBVIOUS
<1>2. /\ t \in Seq(Byte) /\ Len(t) = r - p
      /\ \A i \in 1 .. r - p : t[i] = s[p + i]
  <2>1. p + 1 \in Int /\ r \in Int /\ \A i \in p + 1 .. r : s[i] \in Byte
    BY <1>1
  <2>2. /\ t \in Seq(Byte) /\ Len(t) = IF p + 1 <= r THEN r - (p + 1) + 1 ELSE 0
        /\ \A i \in 1 .. r - (p + 1) + 1 : t[i] = s[p + 1 + i - 1]
    BY <2>1, SubSeqProperties
  <2> HIDE DEF t
  <2> QED
    BY <1>1, <2>2
<1> HIDE DEF t
<1>3. ASSUME NEW i \in 1 .. r - p + 1, NEW j \in i - 1 .. r - p
      PROVE  SubSeq(t, i, j) = SubSeq(s, p + i, p + j)
  <2> DEFINE a == SubSeq(t, i, j)
             b == SubSeq(s, p + i, p + j)
             n == IF i <= j THEN j - i + 1 ELSE 0
  <2>1. i \in Int /\ j \in Int /\ \A k \in i .. j : t[k] \in Byte
    BY <1>1, <1>2
  <2>2. p + i \in Int /\ p + j \in Int /\ \A k \in p + i .. p + j : s[k] \in Byte
    BY <1>1
  <2>3. /\ a \in Seq(Byte) /\ Len(a) = n
        /\ \A k \in 1 .. j - i + 1 : a[k] = t[i + k - 1]
    <3>1. i \in Int
      BY <2>1
    <3>2. j \in Int
      BY <2>1
    <3>3. \A k \in i .. j : t[k] \in Byte
      BY <2>1
    <3> HIDE DEF a
    <3>4. /\ SubSeq(t, i, j) \in Seq(Byte)
          /\ Len(SubSeq(t, i, j)) = IF i <= j THEN j - i + 1 ELSE 0
          /\ \A k \in 1 .. j - i + 1 : SubSeq(t, i, j)[k] = t[i + k - 1]
      BY ONLY <3>1, <3>2, <3>3, SubSeqProperties
    <3> QED
      BY <3>4 DEF a
  <2>4. /\ b \in Seq(Byte) /\ Len(b) = IF p + i <= p + j THEN p + j - (p + i) + 1 ELSE 0
        /\ \A k \in 1 .. p + j - (p + i) + 1 : b[k] = s[p + i + k - 1]
    BY <2>2, SubSeqProperties
  <2> HIDE DEF a, b
  <2>5. Len(b) = Len(a) /\ \A k \in 1 .. Len(a) : a[k] = t[i + k - 1] /\ b[k] = s[p + i + k - 1]
    BY <1>1, <2>1, <2>3, <2>4
  <2>6. \A k \in 1 .. Len(a) : t[i + k - 1] = s[p + (i + k - 1)]
    <3> TAKE k \in 1 .. Len(a)
    <3>1. /\ i \in Int /\ j \in Int /\ i >= 1 /\ j <= r - p /\ k \in 1 .. n
          /\ r \in Int /\ p \in Int
      BY <1>1, <2>3
    <3>2. k \in Int /\ 1 <= k /\ i <= j /\ k <= j - i + 1
      BY <3>1
    <3>3. i + k - 1 \in 1 .. r - p
      BY <3>1, <3>2
    <3> QED
      BY <1>2, <3>3
  <2>7. \A k \in 1 .. Len(a) : a[k] = b[k]
    <3> TAKE k \in 1 .. Len(a)
    <3>1. p + (i + k - 1) = p + i + k - 1
      BY <1>1, <2>1, <2>3
    <3> QED
      BY <2>5, <2>6, <3>1
  <2> QED
    BY <2>3, <2>4, <2>5, <2>7, SeqEqual DEF a, b
<1> QED
  BY <1>2, <1>3 DEF t

(* Where the colon is, and the first byte that is kept of the value.       *)
SplitAt(s, p, q, d, e) ==
  /\ d < e /\ s[d] = "colon"
  /\ \A j \in p + 1 .. d - 1 : s[j] # "colon"
  /\ \A j \in d + 1 .. e - 1 : s[j] = "sp"
  /\ e < q => s[e] # "sp"
  /\ HeaderOf(SubSeq(s, p + 1, q - 1)) =
       [key |-> Cut(NoCr(SubSeq(s, p + 1, d - 1)), MaxKey),
        value |-> Cut(NoCr(SubSeq(s, e, q - 1)), MaxValue)]

LEMMA ColonIs ==
  ASSUME NEW s \in Seq(Byte), NEW p \in 0 .. Len(s), NEW q \in p + 1 .. Len(s),
         Contains(SubSeq(s, p + 1, q - 1), "colon")
  PROVE  \E d \in p + 1 .. q - 1 : \E e \in p + 2 .. q : SplitAt(s, p, q, d, e)
<1> DEFINE t == SubSeq(s, p + 1, q - 1)
           c == First(t, "colon", 1)
           d == p + c
<1>1. Len(s) \in Nat /\ p \in Nat /\ q \in Nat /\ p < q /\ q - 1 \in p .. Len(s)
  OBVIOUS
<1>2. /\ t \in Seq(Byte) /\ Len(t) = q - 1 - p
      /\ \A i \in 1 .. q - 1 - p : t[i] = s[p + i]
      /\ \A i \in 1 .. q - 1 - p + 1 : \A j \in i - 1 .. q - 1 - p :
           SubSeq(t, i, j) = SubSeq(s, p + i, p + j)
  BY <1>1, PartOfText
<1> HIDE DEF t
<1>3. /\ c \in 1 .. Len(t) + 1
      /\ c <= Len(t) => t[c] = "colon"
      /\ \A k \in 1 .. c - 1 : t[k] # "colon"
  <2>1. 1 \in Nat \ {0} /\ 1 <= Len(t) + 2
    BY <1>1, <1>2
  <2> QED
    BY <1>2, <2>1, FirstIs
<1>4. HeaderOf(t) =
        [key |-> Cut(NoCr(SubSeq(t, 1, c - 1)), MaxKey),
         value |-> Cut(NoCr(SkipSpaces(SubSeq(t, c + 1, Len(t)))), MaxValue)]
  BY DEF HeaderOf
<1> HIDE DEF c
<1>5. c \in 1 .. Len(t) /\ t[c] = "colon"
  <2>1. PICK i \in 1 .. Len(t) : t[i] = "colon"
    BY DEF Contains, t
  <2>2. ~(i \in 1 .. c - 1)
    BY <1>3, <2>1
  <2> QED
    BY <1>1, <1>2, <1>3, <2>1, <2>2
<1>6. /\ d \in p + 1 .. q - 1 /\ s[d] = "colon"
      /\ \A j \in p + 1 .. d - 1 : s[j] # "colon"
  <2>1. d \in p + 1 .. q - 1 /\ s[d] = "colon"
    BY <1>1, <1>2, <1>5
  <2>2. ASSUME NEW j \in p + 1 .. d - 1 PROVE s[j] # "colon"
    <3>1. j - p \in 1 .. c - 1 /\ j - p \in 1 .. q - 1 - p /\ p + (j - p) = j
      BY <1>1, <1>2, <1>5
    <3> QED
      BY <1>2, <1>3, <3>1
  <2> QED
    BY <2>1, <2>2
<1>7. SubSeq(t, 1, c - 1) = SubSeq(s, p + 1, d - 1)
  <2>1. c - 1 \in 0 .. q - 1 - p /\ 1 \in 1 .. q - 1 - p + 1 /\ p + (c - 1) = d - 1 /\ 1 - 1 = 0
    BY <1>1, <1>2, <1>5
  <2> QED
    BY <1>2, <2>1
<1> DEFINE w == SubSeq(s, d + 1, q - 1)
<1>8. SubSeq(t, c + 1, Len(t)) = w
  <2>1. /\ c + 1 \in 1 .. q - 1 - p + 1 /\ Len(t) \in (c + 1) - 1 .. q - 1 - p
        /\ p + (c + 1) = d + 1 /\ p + Len(t) = q - 1
    BY <1>1, <1>2, <1>5
  <2> QED
    BY <1>2, <2>1
<1>9. d \in Nat /\ d \in 0 .. Len(s) /\ q - 1 \in d .. Len(s)
  BY <1>1, <1>6
<1> HIDE DEF d
<1>10. /\ w \in Seq(Byte) /\ Len(w) = q - 1 - d
       /\ \A i \in 1 .. q - 1 - d : w[i] = s[d + i]
       /\ \A i \in 1 .. q - 1 - d + 1 : \A j \in i - 1 .. q - 1 - d :
            SubSeq(w, i, j) = SubSeq(s, d + i, d + j)
  BY <1>9, PartOfText
<1> HIDE DEF w
<1> DEFINE S == {k \in 1 .. Len(w) : w[k] # "sp"} \cup {Len(w) + 1}
           f == Min(S)
           e == d + f
<1>11. f \in S /\ \A k \in S : f <= k
  <2>1. S \in SUBSET Nat /\ S # {}
    BY <1>10
  <2> HIDE DEF S
  <2> QED
    BY <2>1, LeastIs
<1>12. SkipSpaces(w) = SubSeq(w, f, Len(w))
  BY DEF SkipSpaces
<1> HIDE DEF f
<1>13. /\ f \in 1 .. Len(w) + 1
       /\ f <= Len(w) => w[f] # "sp"
       /\ \A k \in 1 .. f - 1 : w[k] = "sp"
  <2>1. Len(w) \in Nat
    BY <1>10
  <2>2. f \in 1 .. Len(w) + 1
    BY <1>11, <2>1
  <2>3. f <= Len(w) => w[f] # "sp"
    BY <1>11, <2>1
  <2>4. \A k \in 1 .. f - 1 : w[k] = "sp"
    BY <1>11, <2>1, <2>2
  <2> QED
    BY <2>2, <2>3, <2>4
<1>14. SkipSpaces(w) = SubSeq(s, e, q - 1)
  <2>1. f \in 1 .. q - 1 - d + 1 /\ Len(w) \in f - 1 .. q - 1 - d /\ d + Len(w) = q - 1
    BY <1>9, <1>10, <1>13
  <2> QED
    BY <1>10, <1>12, <2>1
<1>15. /\ e \in p + 2 .. q /\ d < e /\ e \in Nat
       /\ \A j \in d + 1 .. e - 1 : s[j] = "sp"
       /\ e < q => s[e] # "sp"
  <2>1. e \in p + 2 .. q /\ d < e /\ e \in Nat
    BY <1>1, <1>6, <1>9, <1>10, <1>13
  <2>2. ASSUME NEW j \in d + 1 .. e - 1 PROVE s[j] = "sp"
    <3>1. j - d \in 1 .. f - 1 /\ j - d \in 1 .. q - 1 - d /\ d + (j - d) = j
      BY <1>1, <1>9, <1>10, <1>13
    <3> QED
      BY <1>10, <1>13, <3>1
  <2>3. e < q => s[e] # "sp"
    BY <1>1, <1>9, <1>10, <1>13
  <2> QED
    BY <2>1, <2>2, <2>3
<1> HIDE DEF e
<1>16. HeaderOf(t) = [key |-> Cut(NoCr(SubSeq(s, p + 1, d - 1)), MaxKey),
                      value |-> Cut(NoCr(SubSeq(s, e, q - 1)), MaxValue)]
  BY <1>4, <1>7, <1>8, <1>14
<1>17. SplitAt(s, p, q, d, e)
  BY <1>6, <1>15, <1>16 DEF t, SplitAt
<1> QED
  BY <1>6, <1>15, <1>17

(* A line with a colon becomes a header.                                   *)
LEMMA HeaderLine ==
  ASSUME NEW s \in Seq(Byte), NEW run, Runs(s, run),
         NEW p \in 0 .. Len(s), NEW q \in p + 1 .. Len(s), NEW m, NEW u, NEW v, NEW h,
         run[p] = Scan("HEADER_KEY", m, u, v, << >>, << >>, h),
         s[q] = "lf", \A j \in p + 1 .. q - 1 : s[j] # "lf",
         Contains(SubSeq(s, p + 1, q - 1), "colon")
  PROVE  LET hs == Append(h, HeaderOf(SubSeq(s, p + 1, q - 1)))
         IN  run[q] = Scan(IF Len(hs) >= MaxHeaders THEN "BODY" ELSE "HEADER_KEY",
                           m, u, v, << >>, << >>, hs)
<1>d. PICK d \in p + 1 .. q - 1 : \E e \in p + 2 .. q : SplitAt(s, p, q, d, e)
  BY ColonIs
<1>e. PICK e \in p + 2 .. q : SplitAt(s, p, q, d, e)
  BY <1>d
<1>1. /\ d < e /\ s[d] = "colon"
      /\ \A j \in p + 1 .. d - 1 : s[j] # "colon"
      /\ \A j \in d + 1 .. e - 1 : s[j] = "sp"
      /\ e < q => s[e] # "sp"
      /\ HeaderOf(SubSeq(s, p + 1, q - 1)) =
           [key |-> Cut(NoCr(SubSeq(s, p + 1, d - 1)), MaxKey),
            value |-> Cut(NoCr(SubSeq(s, e, q - 1)), MaxValue)]
  BY <1>e DEF SplitAt
<1> DEFINE key == Cut(NoCr(SubSeq(s, p + 1, d - 1)), MaxKey)
           value == Cut(NoCr(SubSeq(s, e, q - 1)), MaxValue)
<1>2. /\ Len(s) \in Nat /\ p \in Nat /\ q \in Nat /\ d \in Nat /\ e \in Nat
      /\ p < d /\ d < e /\ e <= q /\ q <= Len(s)
  BY <1>1
<1>3. run[d] = Scan("SPACES", m, u, v, key, << >>, h)
  <2>1. d - 1 \in p .. Len(s) /\ d \in 1 .. Len(s) /\ d - 1 \in p .. d - 1
    BY <1>2
  <2>2. \A j \in p + 1 .. d - 1 : s[j] # "colon" /\ s[j] # "lf"
    BY <1>1, <1>2
  <2>3. \A k \in p .. d - 1 :
          run[k] = Scan("HEADER_KEY", m, u, v, Cut(NoCr(SubSeq(s, p + 1, k)), MaxKey), << >>, h)
    BY <2>1, <2>2, KeyPart
  <2>4. run[d - 1] = Scan("HEADER_KEY", m, u, v, key, << >>, h)
    BY <2>1, <2>3
  <2>5. run[d] = Step(run[d - 1], s[d])
    BY <2>1 DEF Runs
  <2> HIDE DEF key
  <2> QED
    BY <1>1, <2>4, <2>5, InHeaders
<1> HIDE DEF key
<1>4. run[e - 1] = Scan("SPACES", m, u, v, key, << >>, h)
  <2>1. d \in 0 .. Len(s) /\ e - 1 \in d .. Len(s) /\ e - 1 \in d .. e - 1
    BY <1>2
  <2>2. \A k \in d .. e - 1 : run[k] = Scan("SPACES", m, u, v, key, << >>, h)
    BY <1>1, <1>3, <2>1, SpacePart
  <2> QED
    BY <2>1, <2>2
<1>5. run[q] = Step(Scan("HEADER_VALUE", m, u, v, key, value, h), s[q])
  <2>0. q \in 1 .. Len(s) /\ e \in 1 .. Len(s)
    BY <1>2
  <2>1. CASE e = q
    <3>1. SubSeq(s, e, q - 1) = << >>
      BY <1>2, <2>1, SubSeqEmpty
    <3>2. value = << >>
      BY <3>1, Limits, NothingIs
    <3> HIDE DEF value
    <3>3. run[q] = Step(run[q - 1], s[q])
      BY <2>0 DEF Runs
    <3>4. Step(Scan("SPACES", m, u, v, key, << >>, h), s[q]) =
            Step(Scan("HEADER_VALUE", m, u, v, key, << >>, h), s[q])
      BY InHeaders
    <3> QED
      BY <1>4, <2>1, <3>2, <3>3, <3>4
  <2>2. CASE e < q
    <3>1. run[e] = Step(run[e - 1], s[e])
      BY <2>0 DEF Runs
    <3>2. Step(Scan("SPACES", m, u, v, key, << >>, h), s[e]) =
            Step(Scan("HEADER_VALUE", m, u, v, key, << >>, h), s[e])
      BY <1>1, <2>2, InHeaders
    <3> DEFINE z == e - 1
    <3>3. /\ z \in 0 .. Len(s) /\ q - 1 \in z + 1 .. Len(s) /\ z + 1 = e
          /\ \A j \in z + 1 .. q - 1 : s[j] # "lf"
      BY <1>2, <2>2
    <3>4. run[z + 1] = Step(Scan("HEADER_VALUE", m, u, v, key, << >>, h), s[z + 1])
      BY <1>4, <3>1, <3>2, <3>3
    <3> HIDE DEF z
    <3>5. \A k \in z + 1 .. q - 1 :
            run[k] = Scan("HEADER_VALUE", m, u, v, key,
                          Cut(NoCr(SubSeq(s, z + 1, k)), MaxValue), h)
      BY <3>3, <3>4, ValuePart
    <3>6. q - 1 \in z + 1 .. q - 1
      BY <1>2, <3>3
    <3>7. run[q - 1] = Scan("HEADER_VALUE", m, u, v, key, value, h)
      BY <3>3, <3>5, <3>6
    <3>8. run[q] = Step(run[q - 1], s[q])
      BY <2>0 DEF Runs
    <3> QED
      BY <3>7, <3>8
  <2> QED
    BY <1>2, <2>1, <2>2
<1>6. HeaderOf(SubSeq(s, p + 1, q - 1)) = [key |-> key, value |-> value]
  BY <1>1 DEF key
<1> HIDE DEF value
<1>7. run[q] = Ended(m, u, v, key, value, h)
  BY <1>5, InHeaders
<1> QED
  BY <1>6, <1>7 DEF Ended

(* A line without one ends the headers.                                    *)
LEMMA LastLine ==
  ASSUME NEW s \in Seq(Byte), NEW run, Runs(s, run),
         NEW p \in 0 .. Len(s), NEW q \in p + 1 .. Len(s), NEW m, NEW u, NEW v, NEW h,
         run[p] = Scan("HEADER_KEY", m, u, v, << >>, << >>, h),
         s[q] = "lf", \A j \in p + 1 .. q - 1 : s[j] # "lf",
         ~Contains(SubSeq(s, p + 1, q - 1), "colon")
  PROVE  Over(run[q], m, u, v, h)
<1>1. Len(s) \in Nat /\ p \in Nat /\ q \in Nat /\ q - 1 \in p .. Len(s) /\ q \in 1 .. Len(s)
      /\ q - 1 \in p .. q - 1
  OBVIOUS
<1>2. ASSUME NEW j \in p + 1 .. q - 1 PROVE s[j] # "colon"
  <2> DEFINE t == SubSeq(s, p + 1, q - 1)
  <2>1. Len(t) = q - 1 - p /\ \A i \in 1 .. q - 1 - p : t[i] = s[p + i]
    BY <1>1, PartOfText
  <2> HIDE DEF t
  <2>2. j - p \in 1 .. Len(t) /\ j - p \in 1 .. q - 1 - p /\ p + (j - p) = j
    BY <1>1, <2>1
  <2>3. t[j - p] # "colon"
    BY <2>2 DEF Contains, t
  <2> QED
    BY <2>1, <2>2, <2>3
<1>3. \A k \in p .. q - 1 :
        run[k] = Scan("HEADER_KEY", m, u, v, Cut(NoCr(SubSeq(s, p + 1, k)), MaxKey), << >>, h)
  BY <1>1, <1>2, KeyPart
<1> DEFINE key == Cut(NoCr(SubSeq(s, p + 1, q - 1)), MaxKey)
<1>4. run[q - 1] = Scan("HEADER_KEY", m, u, v, key, << >>, h)
  BY <1>1, <1>3
<1> HIDE DEF key
<1>5. run[q] = Step(run[q - 1], s[q])
  BY <1>1 DEF Runs
<1>6. run[q] = Scan("BODY", m, u, v, key, << >>, h)
  BY <1>4, <1>5, InHeaders
<1> QED
  BY <1>6 DEF Over

-----------------------------------------------------------------------------
(***************************************************************************)
(* The request line, and the ends of the lines behind it.                  *)
(***************************************************************************)
Method(s)  == Cut(SubSeq(s, 1, MethodEnd(s) - 1), MaxWord)
Uri(s)     == Cut(SubSeq(s, MethodEnd(s) + 1, UriEnd(s) - 1), MaxUri)
Version(s) == Cut(NoCr(SubSeq(s, UriEnd(s) + 1, VersionEnd(s) - 1)), MaxWord)

LEMMA WordEnds ==
  ASSUME NEW s \in Seq(Byte)
  PROVE  /\ Len(s) \in Nat
         /\ MethodEnd(s) \in 1 .. Len(s) + 1
         /\ UriEnd(s) \in 1 .. Len(s) + 1
         /\ VersionEnd(s) \in 1 .. Len(s) + 1
         /\ UriEnd(s) <= Len(s) => MethodEnd(s) < UriEnd(s)
         /\ VersionEnd(s) <= Len(s) => UriEnd(s) < VersionEnd(s)
         /\ MethodEnd(s) <= Len(s) => MethodEnd(s) < UriEnd(s)
         /\ UriEnd(s) <= Len(s) => UriEnd(s) < VersionEnd(s)
         /\ MethodEnd(s) <= Len(s) => s[MethodEnd(s)] = "sp"
         /\ UriEnd(s) <= Len(s) => s[UriEnd(s)] = "sp"
         /\ VersionEnd(s) <= Len(s) => s[VersionEnd(s)] = "lf"
         /\ \A j \in 1 .. MethodEnd(s) - 1 : s[j] # "sp"
         /\ \A j \in MethodEnd(s) + 1 .. UriEnd(s) - 1 : s[j] # "sp"
         /\ \A j \in UriEnd(s) + 1 .. VersionEnd(s) - 1 : s[j] # "lf"
<1> DEFINE a == MethodEnd(s)
           b == UriEnd(s)
           c == VersionEnd(s)
<1>1. Len(s) \in Nat
  OBVIOUS
<1>2. /\ a \in 1 .. Len(s) + 1
      /\ a <= Len(s) => s[a] = "sp"
      /\ \A j \in 1 .. a - 1 : s[j] # "sp"
  <2>1. 1 \in Nat \ {0} /\ 1 <= Len(s) + 2
    BY <1>1
  <2> QED
    BY <1>1, <2>1, FirstIs DEF MethodEnd
<1> HIDE DEF a
<1>3. /\ b \in 1 .. Len(s) + 1
      /\ b <= Len(s) => s[b] = "sp" /\ a + 1 <= b
      /\ a + 1 <= Len(s) + 1 => a + 1 <= b
      /\ \A j \in a + 1 .. b - 1 : s[j] # "sp"
  <2>1. a + 1 \in Nat \ {0} /\ a + 1 <= Len(s) + 2
    BY <1>1, <1>2
  <2>2. b = First(s, "sp", a + 1)
    BY DEF UriEnd, a
  <2> HIDE DEF b
  <2> QED
    BY <1>1, <2>1, <2>2, FirstIs
<1> HIDE DEF b
<1>4. /\ c \in 1 .. Len(s) + 1
      /\ c <= Len(s) => s[c] = "lf" /\ b + 1 <= c
      /\ b + 1 <= Len(s) + 1 => b + 1 <= c
      /\ \A j \in b + 1 .. c - 1 : s[j] # "lf"
  <2>1. b + 1 \in Nat \ {0} /\ b + 1 <= Len(s) + 2
    BY <1>1, <1>3
  <2>2. c = First(s, "lf", b + 1)
    BY DEF VersionEnd, b
  <2> HIDE DEF c
  <2> QED
    BY <1>1, <2>1, <2>2, FirstIs
<1> HIDE DEF c
<1>5. /\ b <= Len(s) => a < b
      /\ c <= Len(s) => b < c
      /\ a <= Len(s) => a < b
      /\ b <= Len(s) => b < c
  BY <1>1, <1>2, <1>3, <1>4
<1> QED
  BY <1>1, <1>2, <1>3, <1>4, <1>5 DEF a, b, c

(* Where the parser is at the end of the request line, or of a stream that *)
(* has no complete one.                                                    *)
LEMMA RequestLineIs ==
  ASSUME NEW s \in Seq(Byte), NEW run, Runs(s, run)
  PROVE  /\ VersionEnd(s) <= Len(s) =>
              run[VersionEnd(s)] =
                Scan("HEADER_KEY", Method(s), Uri(s), Version(s), << >>, << >>, << >>)
         /\ VersionEnd(s) = Len(s) + 1 =>
              \E at : run[Len(s)] =
                        Scan(at, Method(s), Uri(s), Version(s), << >>, << >>, << >>)
<1> DEFINE a == MethodEnd(s)
           b == UriEnd(s)
           c == VersionEnd(s)
           M == Method(s)
           U == Uri(s)
           V == Version(s)
<1>0. /\ Len(s) \in Nat /\ a \in Nat /\ b \in Nat /\ c \in Nat
      /\ a \in 1 .. Len(s) + 1 /\ b \in 1 .. Len(s) + 1 /\ c \in 1 .. Len(s) + 1
      /\ b <= Len(s) => a < b
      /\ c <= Len(s) => b < c
      /\ a <= Len(s) => a < b
      /\ b <= Len(s) => b < c
      /\ a <= Len(s) => s[a] = "sp"
      /\ b <= Len(s) => s[b] = "sp"
      /\ c <= Len(s) => s[c] = "lf"
      /\ \A j \in 1 .. a - 1 : s[j] # "sp"
      /\ \A j \in a + 1 .. b - 1 : s[j] # "sp"
      /\ \A j \in b + 1 .. c - 1 : s[j] # "lf"
  BY WordEnds
<1>1. /\ M = Cut(SubSeq(s, 1, a - 1), MaxWord)
      /\ U = Cut(SubSeq(s, a + 1, b - 1), MaxUri)
      /\ V = Cut(NoCr(SubSeq(s, b + 1, c - 1)), MaxWord)
  BY DEF Method, Uri, Version
<1>2. /\ a = Len(s) + 1 => (b = Len(s) + 1 /\ U = << >>)
      /\ b = Len(s) + 1 => (c = Len(s) + 1 /\ V = << >>)
  <2> HIDE DEF a, b, c, M, U, V
  <2>1. /\ a = Len(s) + 1 => b = Len(s) + 1
        /\ b = Len(s) + 1 => c = Len(s) + 1
    BY <1>0
  <2>2. ASSUME NEW x \in Nat, x = Len(s) + 1 PROVE SubSeq(s, x + 1, x - 1) = << >>
    BY <2>2, SubSeqEmpty
  <2>3. a = Len(s) + 1 => U = << >>
    BY <1>0, <1>1, <2>1, <2>2, Limits, NothingIs
  <2>4. b = Len(s) + 1 => V = << >>
    BY <1>0, <1>1, <2>1, <2>2, Limits, NothingIs
  <2> QED
    BY <2>1, <2>3, <2>4
<1> HIDE DEF a, b, c, M, U, V
<1>3. run[0] = Scan("METHOD", << >>, << >>, << >>, << >>, << >>, << >>)
  BY DEF Runs, Start, Scan
<1>4. run[a - 1] = Scan("METHOD", M, << >>, << >>, << >>, << >>, << >>)
  <2>1. 0 \in 0 .. Len(s) /\ a - 1 \in 0 .. Len(s) /\ a - 1 \in 0 .. a - 1
    BY <1>0
  <2>2. \A j \in 0 + 1 .. a - 1 : s[j] # "sp"
    BY <1>0
  <2>3. \A k \in 0 .. a - 1 :
          run[k] = Scan("METHOD", Cut(SubSeq(s, 0 + 1, k), MaxWord),
                        << >>, << >>, << >>, << >>, << >>)
    BY <1>3, <2>1, <2>2, MethodPart
  <2>4. run[a - 1] = Scan("METHOD", Cut(SubSeq(s, 0 + 1, a - 1), MaxWord),
                          << >>, << >>, << >>, << >>, << >>)
    BY <2>1, <2>3
  <2>5. 0 + 1 = 1
    OBVIOUS
  <2> QED
    BY <1>1, <2>4, <2>5
<1>5. CASE a = Len(s) + 1
  <2>1. a - 1 = Len(s)
    BY <1>0, <1>5
  <2> QED
    BY <1>0, <1>2, <1>4, <1>5, <2>1 DEF a, b, c, M, U, V
<1>6. CASE a <= Len(s)
  <2>1. run[a] = Scan("URI", M, << >>, << >>, << >>, << >>, << >>)
    <3>1. a \in 1 .. Len(s) /\ s[a] = "sp"
      BY <1>0, <1>6
    <3>2. run[a] = Step(run[a - 1], s[a])
      BY <3>1 DEF Runs
    <3> QED
      BY <1>4, <3>1, <3>2, InRequestLine
  <2>2. run[b - 1] = Scan("URI", M, U, << >>, << >>, << >>, << >>)
    <3>1. a \in 0 .. Len(s) /\ b - 1 \in a .. Len(s) /\ b - 1 \in a .. b - 1
      BY <1>0, <1>6
    <3>2. \A k \in a .. b - 1 :
            run[k] = Scan("URI", M, Cut(SubSeq(s, a + 1, k), MaxUri), << >>, << >>, << >>, << >>)
      BY <1>0, <2>1, <3>1, UriPart
    <3> QED
      BY <1>1, <3>1, <3>2
  <2>3. CASE b = Len(s) + 1
    <3>1. b - 1 = Len(s)
      BY <1>0, <2>3
    <3> QED
      BY <1>0, <1>2, <2>2, <2>3, <3>1 DEF a, b, c, M, U, V
  <2>4. CASE b <= Len(s)
    <3>1. run[b] = Scan("VERSION", M, U, << >>, << >>, << >>, << >>)
      <4>1. b \in 1 .. Len(s) /\ s[b] = "sp"
        BY <1>0, <2>4
      <4>2. run[b] = Step(run[b - 1], s[b])
        BY <4>1 DEF Runs
      <4> QED
        BY <2>2, <4>1, <4>2, InRequestLine
    <3>2. run[c - 1] = Scan("VERSION", M, U, V, << >>, << >>, << >>)
      <4>1. b \in 0 .. Len(s) /\ c - 1 \in b .. Len(s) /\ c - 1 \in b .. c - 1
        BY <1>0, <2>4
      <4>2. \A k \in b .. c - 1 :
              run[k] = Scan("VERSION", M, U, Cut(NoCr(SubSeq(s, b + 1, k)), MaxWord),
                            << >>, << >>, << >>)
        BY <1>0, <3>1, <4>1, VersionPart
      <4> QED
        BY <1>1, <4>1, <4>2
    <3>3. CASE c = Len(s) + 1
      <4>1. c - 1 = Len(s)
        BY <1>0, <3>3
      <4> QED
        BY <1>0, <3>2, <3>3, <4>1 DEF a, b, c, M, U, V
    <3>4. CASE c <= Len(s)
      <4>1. c \in 1 .. Len(s) /\ s[c] = "lf"
        BY <1>0, <3>4
      <4>2. run[c] = Step(run[c - 1], s[c])
        BY <4>1 DEF Runs
      <4>3. run[c] = Scan("HEADER_KEY", M, U, V, << >>, << >>, << >>)
        BY <3>2, <4>1, <4>2, InRequestLine
      <4> QED
        BY <1>0, <3>4, <4>3 DEF a, b, c, M, U, V
    <3> QED
      BY <1>0, <3>3, <3>4
  <2> QED
    BY <1>0, <2>3, <2>4
<1> QED
  BY <1>0, <1>5, <1>6

(* The ends of the lines, one after the other.                             *)
NextEnd(s, f, k) == IF k = 0 THEN VersionEnd(s) ELSE First(s, "lf", f[k - 1] + 1)

EndsFor(s, n) == \E f : f = [k \in 0 .. n |-> NextEnd(s, f, k)]

LEMMA OneEndMore ==
  ASSUME NEW s, NEW n \in Nat, EndsFor(s, n)
  PROVE  EndsFor(s, n + 1)
<1>0. PICK f : f = [k \in 0 .. n |-> NextEnd(s, f, k)]
  BY DEF EndsFor
<1> DEFINE g == [k \in 0 .. n + 1 |-> IF k <= n THEN f[k] ELSE First(s, "lf", f[n] + 1)]
<1>1. ASSUME NEW k \in 0 .. n + 1 PROVE g[k] = NextEnd(s, g, k)
  <2>1. CASE k \in 0 .. n
    <3>1. g[k] = f[k] /\ (k # 0 => g[k - 1] = f[k - 1])
      BY <2>1
    <3>2. f[k] = NextEnd(s, f, k)
      <4> HIDE DEF g
      <4> QED
        BY <1>0, <2>1, Zenon
    <3> HIDE DEF g
    <3> QED
      BY <3>1, <3>2 DEF NextEnd
  <2>2. CASE k = n + 1
    <3>1. g[k] = First(s, "lf", f[n] + 1) /\ g[k - 1] = f[n] /\ k # 0 /\ k = n + 1
      BY <2>2
    <3> HIDE DEF g
    <3> QED
      BY <3>1 DEF NextEnd
  <2> QED
    BY <2>1, <2>2
<1>2. g = [k \in 0 .. n + 1 |-> g[k]]
  OBVIOUS
<1> HIDE DEF g
<1>3. g = [k \in 0 .. n + 1 |-> NextEnd(s, g, k)]
  BY <1>1, <1>2
<1> QED
  BY <1>3 DEF EndsFor

LEMMA LineEndsExist ==
  ASSUME NEW s \in Seq(Byte)
  PROVE  EndsFor(s, MaxHeaders)
<1> DEFINE P == {n \in Nat : EndsFor(s, n)}
<1>1. 0 \in P
  <2> DEFINE f == [k \in 0 .. 0 |-> VersionEnd(s)]
  <2>1. f = [k \in 0 .. 0 |-> NextEnd(s, f, k)]
    BY DEF NextEnd
  <2> QED
    BY <2>1 DEF EndsFor
<1>2. ASSUME NEW n \in P PROVE n + 1 \in P
  BY OneEndMore
<1>3. P = Nat
  <2>1. P \in SUBSET Nat
    OBVIOUS
  <2> HIDE DEF P
  <2> QED
    BY <1>1, <1>2, <2>1, Induction
<1> QED
  BY <1>3, Limits

LEMMA LineEndIs ==
  ASSUME NEW s \in Seq(Byte)
  PROVE  /\ LineEnd(s)[0] = VersionEnd(s)
         /\ \A k \in 1 .. MaxHeaders : LineEnd(s)[k] = First(s, "lf", LineEnd(s)[k - 1] + 1)
         /\ \A k \in 0 .. MaxHeaders : LineEnd(s)[k] \in 1 .. Len(s) + 1
<1> DEFINE end == CHOOSE f : f = [k \in 0 .. MaxHeaders |->
                                   IF k = 0 THEN VersionEnd(s)
                                   ELSE First(s, "lf", f[k - 1] + 1)]
<1>0. MaxHeaders \in Nat /\ Len(s) \in Nat
  BY Limits
<1>1. end = [k \in 0 .. MaxHeaders |-> IF k = 0 THEN VersionEnd(s)
                                       ELSE First(s, "lf", end[k - 1] + 1)]
  BY <1>0, LineEndsExist DEF EndsFor, NextEnd
<1>2. LineEnd(s) = end
  BY DEF LineEnd
<1> HIDE DEF end
<1>3. end[0] = VersionEnd(s)
  BY <1>0, <1>1
<1>4. \A k \in 1 .. MaxHeaders : end[k] = First(s, "lf", end[k - 1] + 1)
  BY <1>0, <1>1
<1> DEFINE P == {k \in Nat : end[k] \in 1 .. Len(s) + 1}
<1>5. 0 \in P
  BY <1>3, WordEnds
<1>6. ASSUME NEW k \in 0 + 1 .. MaxHeaders, k - 1 \in P PROVE k \in P
  <2>1. k \in 1 .. MaxHeaders /\ k \in Nat
    BY <1>0
  <2>2. end[k - 1] + 1 \in Nat \ {0} /\ end[k - 1] + 1 <= Len(s) + 2
    BY <1>0, <1>6
  <2>3. First(s, "lf", end[k - 1] + 1) \in 1 .. Len(s) + 1
    BY <2>2, FirstIs
  <2> QED
    BY <1>4, <2>1, <2>3
<1>7. 0 .. MaxHeaders \subseteq P
  <2>1. P \in SUBSET Nat /\ 0 \in Nat
    OBVIOUS
  <2> HIDE DEF P
  <2> QED
    BY <1>0, <1>5, <1>6, <2>1, Along
<1> QED
  BY <1>2, <1>3, <1>4, <1>7

-----------------------------------------------------------------------------
(***************************************************************************)
(* The headers, line by line.                                              *)
(***************************************************************************)
LEMMA HeaderCountIs ==
  ASSUME NEW s \in Seq(Byte)
  PROVE  /\ HeaderCount(s) \in 0 .. MaxHeaders
         /\ \A k \in 1 .. HeaderCount(s) : IsHeader(s, k)
         /\ HeaderCount(s) < MaxHeaders => ~IsHeader(s, HeaderCount(s) + 1)
<1> DEFINE S == {k \in 1 .. MaxHeaders : ~IsHeader(s, k)} \cup {MaxHeaders + 1}
           f == Min(S)
<1>1. MaxHeaders \in Nat /\ S \in SUBSET Nat /\ S # {}
  BY Limits
<1>2. f \in S /\ \A k \in S : f <= k
  <2> HIDE DEF S
  <2> QED
    BY <1>1, LeastIs
<1>3. HeaderCount(s) = f - 1
  BY DEF HeaderCount
<1> HIDE DEF f
<1>4. f \in 1 .. MaxHeaders + 1 /\ (f = MaxHeaders + 1 \/ ~IsHeader(s, f))
  BY <1>1, <1>2
<1>5. ASSUME NEW k \in 1 .. f - 1 PROVE IsHeader(s, k)
  BY <1>1, <1>2, <1>4
<1> HIDE DEF S
<1>6. \A k \in 1 .. HeaderCount(s) : IsHeader(s, k)
  BY <1>3, <1>5
<1>7. HeaderCount(s) \in 0 .. MaxHeaders
  BY <1>1, <1>3, <1>4
<1>8. HeaderCount(s) < MaxHeaders => ~IsHeader(s, HeaderCount(s) + 1)
  <2>1. HeaderCount(s) + 1 = f
    BY <1>1, <1>3, <1>4
  <2> QED
    BY <1>1, <1>3, <1>4, <2>1
<1> QED
  BY <1>6, <1>7, <1>8

(* The first k headers.                                                    *)
Headers(s, k) == [j \in 1 .. k |-> HeaderOf(Line(s, j))]

LEMMA OneHeaderMore ==
  ASSUME NEW s, NEW k \in Nat
  PROVE  /\ Headers(s, 0) = << >>
         /\ Len(Headers(s, k + 1)) = k + 1
         /\ Append(Headers(s, k), HeaderOf(Line(s, k + 1))) = Headers(s, k + 1)
<1> DEFINE S == {HeaderOf(Line(s, j)) : j \in 1 .. k + 1}
           h == Headers(s, k)
           g == Headers(s, k + 1)
           x == HeaderOf(Line(s, k + 1))
<1>1. /\ h \in Seq(S) /\ Len(h) = k /\ \A j \in 1 .. k : h[j] = HeaderOf(Line(s, j))
      /\ g \in Seq(S) /\ Len(g) = k + 1 /\ \A j \in 1 .. k + 1 : g[j] = HeaderOf(Line(s, j))
      /\ x \in S
  BY DEF Headers
<1>2. Headers(s, 0) = << >>
  BY DEF Headers
<1> HIDE DEF S, h, g
<1> DEFINE a == Append(h, x)
<1>3. /\ a \in Seq(S) /\ Len(a) = k + 1 /\ a[k + 1] = x
      /\ \A j \in 1 .. k : a[j] = h[j]
  <2> HIDE DEF x
  <2> QED
    BY <1>1, AppendProperties
<1> HIDE DEF a
<1>4. \A j \in 1 .. k + 1 : a[j] = g[j]
  BY <1>1, <1>3
<1>5. a = g
  BY <1>1, <1>3, <1>4, SeqEqual
<1> QED
  BY <1>1, <1>2, <1>5 DEF a, g, h

(* The places of the k-th line.                                            *)
LEMMA LineIs ==
  ASSUME NEW s \in Seq(Byte), NEW k \in 1 .. MaxHeaders, LineEnd(s)[k - 1] <= Len(s)
  PROVE  LET p == LineEnd(s)[k - 1]
             q == LineEnd(s)[k]
         IN  /\ p \in 0 .. Len(s) /\ q \in p + 1 .. Len(s) + 1
             /\ q <= Len(s) => s[q] = "lf"
             /\ \A j \in p + 1 .. q - 1 : s[j] # "lf"
             /\ Line(s, k) = SubSeq(s, p + 1, q - 1)
<1> DEFINE p == LineEnd(s)[k - 1]
           q == LineEnd(s)[k]
<1>1. MaxHeaders \in Nat /\ Len(s) \in Nat /\ k \in Nat /\ k - 1 \in 0 .. MaxHeaders
  BY Limits
<1>2. p \in 1 .. Len(s) + 1 /\ q = First(s, "lf", p + 1)
  BY <1>1, LineEndIs
<1>3. Line(s, k) = SubSeq(s, p + 1, q - 1)
  BY DEF Line
<1>4. p <= Len(s)
  OBVIOUS
<1> HIDE DEF p, q
<1>5. /\ q \in 1 .. Len(s) + 1
      /\ p + 1 <= Len(s) + 1 => p + 1 <= q
      /\ q <= Len(s) => s[q] = "lf"
      /\ \A j \in p + 1 .. q - 1 : s[j] # "lf"
  <2>1. p + 1 \in Nat \ {0} /\ p + 1 <= Len(s) + 2
    BY <1>1, <1>2
  <2> QED
    BY <1>2, <2>1, FirstIs
<1>6. p \in 0 .. Len(s) /\ q \in p + 1 .. Len(s) + 1
  BY <1>1, <1>2, <1>4, <1>5
<1> QED
  BY <1>3, <1>5, <1>6 DEF p, q

(* Where the parser is at the end of the k-th header.                      *)
AtLine(s, run, k) ==
  /\ LineEnd(s)[k] <= Len(s)
  /\ run[LineEnd(s)[k]] =
       Scan(IF k >= MaxHeaders THEN "BODY" ELSE "HEADER_KEY",
            Method(s), Uri(s), Version(s), << >>, << >>, Headers(s, k))

LEMMA HeadersPart ==
  ASSUME NEW s \in Seq(Byte), NEW run, Runs(s, run), VersionEnd(s) <= Len(s)
  PROVE  AtLine(s, run, HeaderCount(s))
<1> DEFINE n == HeaderCount(s)
           P == {k \in Nat : AtLine(s, run, k)}
<1>0. MaxHeaders \in Nat \ {0} /\ n \in 0 .. MaxHeaders /\ n \in Nat /\ Len(s) \in Nat
  BY Limits, HeaderCountIs
<1>1. 0 \in P
  <2>1. LineEnd(s)[0] = VersionEnd(s)
    BY LineEndIs
  <2>2. Headers(s, 0) = << >>
    BY OneHeaderMore
  <2>3. run[VersionEnd(s)] =
          Scan("HEADER_KEY", Method(s), Uri(s), Version(s), << >>, << >>, << >>)
    BY RequestLineIs
  <2> QED
    BY <1>0, <2>1, <2>2, <2>3 DEF AtLine
<1>2. ASSUME NEW k \in 0 + 1 .. n, k - 1 \in P PROVE k \in P
  <2>0. k \in 1 .. MaxHeaders /\ k \in Nat /\ k \in 1 .. n /\ k - 1 \in Nat /\ ~(k - 1 >= MaxHeaders)
    BY <1>0
  <2> DEFINE p == LineEnd(s)[k - 1]
             q == LineEnd(s)[k]
             M == Method(s)
             U == Uri(s)
             V == Version(s)
             h == Headers(s, k - 1)
             hs == Append(h, HeaderOf(SubSeq(s, p + 1, q - 1)))
  <2>1. p <= Len(s) /\ run[p] = Scan("HEADER_KEY", M, U, V, << >>, << >>, h)
    BY <1>2, <2>0 DEF AtLine
  <2>2. /\ p \in 0 .. Len(s) /\ q \in p + 1 .. Len(s) + 1
        /\ q <= Len(s) => s[q] = "lf"
        /\ \A j \in p + 1 .. q - 1 : s[j] # "lf"
        /\ Line(s, k) = SubSeq(s, p + 1, q - 1)
    BY <2>0, <2>1, LineIs
  <2>3. q <= Len(s) /\ Contains(SubSeq(s, p + 1, q - 1), "colon")
    BY <2>0, <2>2, HeaderCountIs DEF IsHeader
  <2>4. q \in p + 1 .. Len(s)
    BY <1>0, <2>2, <2>3
  <2>5. hs = Headers(s, k) /\ Len(hs) = k
    <3>1. (k - 1) + 1 = k
      BY <2>0
    <3>2. Append(h, HeaderOf(Line(s, k))) = Headers(s, k) /\ Len(Headers(s, k)) = k
      BY <2>0, <3>1, OneHeaderMore
    <3> QED
      BY <2>2, <3>2
  <2> HIDE DEF p, q, M, U, V, h
  <2>6. run[q] = Scan(IF Len(hs) >= MaxHeaders THEN "BODY" ELSE "HEADER_KEY",
                      M, U, V, << >>, << >>, hs)
    BY <2>1, <2>2, <2>3, <2>4, HeaderLine
  <2> HIDE DEF hs
  <2>7. run[q] = Scan(IF k >= MaxHeaders THEN "BODY" ELSE "HEADER_KEY",
                      M, U, V, << >>, << >>, Headers(s, k))
    BY <2>5, <2>6
  <2> QED
    BY <2>0, <2>3, <2>7 DEF AtLine, q, M, U, V
<1>3. 0 .. n \subseteq P
  <2>1. P \in SUBSET Nat /\ 0 \in Nat
    OBVIOUS
  <2> HIDE DEF P, n
  <2> QED
    BY <1>0, <1>1, <1>2, <2>1, Along
<1>4. n \in 0 .. n
  BY <1>0
<1> HIDE DEF n
<1>5. AtLine(s, run, n)
  BY <1>3, <1>4
<1> QED
  BY <1>5 DEF n

(* At the end of the input.                                                *)
LEMMA RunIsByLines ==
  ASSUME NEW s \in Seq(Byte), NEW run, Runs(s, run)
  PROVE  \E at, key, x :
           run[Len(s)] = Scan(at, Method(s), Uri(s), Version(s), key, x,
                              Headers(s, HeaderCount(s)))
<1> DEFINE n == HeaderCount(s)
           M == Method(s)
           U == Uri(s)
           V == Version(s)
           h == Headers(s, n)
<1>0. /\ MaxHeaders \in Nat \ {0} /\ n \in 0 .. MaxHeaders /\ Len(s) \in Nat
      /\ Len(s) \in 0 .. Len(s)
      /\ VersionEnd(s) \in 1 .. Len(s) + 1
  BY Limits, HeaderCountIs, WordEnds
<1>1. CASE VersionEnd(s) = Len(s) + 1
  <2>1. n = 0
    <3>1. 0 + 1 \in 1 .. MaxHeaders /\ 1 \in 1 .. MaxHeaders
      BY <1>0
    <3>2. LineEnd(s)[1] = First(s, "lf", LineEnd(s)[1 - 1] + 1)
      BY <3>1, LineEndIs
    <3>3. LineEnd(s)[1 - 1] = Len(s) + 1
      BY <1>1, LineEndIs
    <3>4. LineEnd(s)[1] = First(s, "lf", Len(s) + 2)
      <4>1. (Len(s) + 1) + 1 = Len(s) + 2
        BY <1>0
      <4> QED
        BY <3>2, <3>3, <4>1
    <3>5. First(s, "lf", Len(s) + 2) = Len(s) + 1
      <4>1. Len(s) + 2 \in Nat \ {0} /\ Len(s) + 2 <= Len(s) + 2
        BY <1>0
      <4>2. /\ First(s, "lf", Len(s) + 2) \in 1 .. Len(s) + 1
            /\ First(s, "lf", Len(s) + 2) <= Len(s) =>
                 Len(s) + 2 <= First(s, "lf", Len(s) + 2)
        BY <4>1, FirstIs
      <4> QED
        BY <1>0, <4>2
    <3>6. ~IsHeader(s, 1)
      BY <1>0, <3>4, <3>5 DEF IsHeader
    <3>7. ~(1 \in 1 .. n)
      BY <3>6, HeaderCountIs
    <3> HIDE DEF n
    <3> QED
      BY <1>0, <3>7
  <2>2. h = << >>
    BY <2>1, OneHeaderMore
  <2> HIDE DEF h
  <2>3. \E at : run[Len(s)] = Scan(at, M, U, V, << >>, << >>, h)
    BY <1>1, <2>2, RequestLineIs
  <2> QED
    BY <2>3 DEF h
<1>2. CASE VersionEnd(s) <= Len(s)
  <2> DEFINE p == LineEnd(s)[n]
  <2>1. /\ p <= Len(s)
        /\ run[p] = Scan(IF n >= MaxHeaders THEN "BODY" ELSE "HEADER_KEY",
                         M, U, V, << >>, << >>, h)
    BY <1>2, HeadersPart DEF AtLine
  <2>2. p \in 0 .. Len(s)
    <3>1. p \in 1 .. Len(s) + 1
      BY <1>0, LineEndIs
    <3> QED
      BY <1>0, <2>1, <3>1
  <2>3. ASSUME InLine(run[Len(s)], M, U, V, h) \/ Over(run[Len(s)], M, U, V, h)
        PROVE  \E at, key, x : run[Len(s)] = Scan(at, M, U, V, key, x, h)
    <3> HIDE DEF M, U, V, h
    <3> QED
      BY <2>3 DEF InLine, Over
  <2>4. CASE n = MaxHeaders
    <3>1. Over(run[p], M, U, V, h)
      <4>1. run[p] = Scan("BODY", M, U, V, << >>, << >>, h)
        BY <1>0, <2>1, <2>4
      <4> HIDE DEF p, M, U, V, h
      <4> QED
        BY <4>1 DEF Over
    <3>2. Len(s) \in p .. Len(s)
      BY <1>0, <2>2
    <3> HIDE DEF p, M, U, V, h
    <3>3. Over(run[Len(s)], M, U, V, h)
      BY <2>2, <3>1, <3>2, OverPart
    <3> QED
      BY <2>3, <3>3 DEF M, U, V, h
  <2>5. CASE n < MaxHeaders
    <3> DEFINE q == LineEnd(s)[n + 1]
    <3>1. run[p] = Scan("HEADER_KEY", M, U, V, << >>, << >>, h)
      BY <1>0, <2>1, <2>5
    <3>2. n + 1 \in 1 .. MaxHeaders /\ (n + 1) - 1 = n
      BY <1>0, <2>5
    <3>3. /\ q \in p + 1 .. Len(s) + 1
          /\ q <= Len(s) => s[q] = "lf"
          /\ \A j \in p + 1 .. q - 1 : s[j] # "lf"
          /\ Line(s, n + 1) = SubSeq(s, p + 1, q - 1)
      <4> DEFINE k == n + 1
      <4>1. k \in 1 .. MaxHeaders /\ LineEnd(s)[k - 1] = p /\ LineEnd(s)[k] = q
        BY <3>2
      <4> HIDE DEF k, p, q, n
      <4>2. /\ q \in p + 1 .. Len(s) + 1
            /\ q <= Len(s) => s[q] = "lf"
            /\ \A j \in p + 1 .. q - 1 : s[j] # "lf"
            /\ Line(s, k) = SubSeq(s, p + 1, q - 1)
        BY <2>1, <4>1, LineIs
      <4> QED
        BY <4>2 DEF k
    <3>4. ~(q <= Len(s) /\ Contains(SubSeq(s, p + 1, q - 1), "colon"))
      BY <2>5, <3>3, HeaderCountIs DEF IsHeader
    <3>5. Len(s) \in p .. Len(s) /\ p \in Nat /\ q \in Nat
      BY <1>0, <2>2, <3>3
    <3> HIDE DEF p, q, M, U, V, h
    <3>6. CASE q = Len(s) + 1
      <4>1. InLine(run[p], M, U, V, h)
        BY <3>1 DEF InLine
      <4>2. \A j \in p + 1 .. Len(s) : s[j] # "lf"
        BY <1>0, <3>3, <3>6
      <4>3. InLine(run[Len(s)], M, U, V, h)
        BY <2>2, <3>5, <4>1, <4>2, LinePart
      <4> QED
        BY <2>3, <4>3 DEF M, U, V, h
    <3>7. CASE q <= Len(s)
      <4>1. q \in p + 1 .. Len(s) /\ q \in 0 .. Len(s) /\ Len(s) \in q .. Len(s)
        BY <1>0, <3>3, <3>5, <3>7
      <4>2. Over(run[q], M, U, V, h)
        BY <2>2, <3>1, <3>3, <3>4, <3>7, <4>1, LastLine
      <4>3. Over(run[Len(s)], M, U, V, h)
        BY <4>1, <4>2, OverPart
      <4> QED
        BY <2>3, <4>3 DEF M, U, V, h
    <3> QED
      BY <1>0, <3>3, <3>5, <3>6, <3>7
  <2> QED
    BY <1>0, <2>4, <2>5
<1> QED
  BY <1>0, <1>1, <1>2

(* What the byte-wise parser finds, for every input.                       *)
LEMMA ParserIsRight ==
  ASSUME NEW s \in Seq(Byte)
  PROVE  /\ Parse(s).method = RequestByLines(s).method
         /\ Parse(s).uri = RequestByLines(s).uri
         /\ Parse(s).version = RequestByLines(s).version
         /\ Parse(s).headers = RequestByLines(s).headers
<1>1. PICK run : Runs(s, run) /\ Parse(s) = run[Len(s)]
  BY ParseIsRun
<1>2. PICK at, key, x :
        run[Len(s)] = Scan(at, Method(s), Uri(s), Version(s), key, x,
                           Headers(s, HeaderCount(s)))
  BY <1>1, RunIsByLines
<1> QED
  BY <1>1, <1>2 DEF Scan, RequestByLines, Method, Uri, Version, Headers

-----------------------------------------------------------------------------
(***************************************************************************)
(* The inductive invariant: until the header is complete nothing has been  *)
(* decided or parsed, and no end mark lies within the bytes read so far.   *)
(***************************************************************************)
Types ==
  /\ stream \in Streams
  /\ got \in 0 .. MaxHeader /\ overshoot \in 0 .. MaxHeader
  /\ taken \in 0 .. MaxHeader /\ peeked \in 0 .. Len(Preface)
  /\ protocol \in {"UNKNOWN", "HTTP10", "HTTP11", "HTTP2"}
  /\ verdict \in {-4, -2, 0, 101, 431, 500, 505}
  /\ pc \in {"demux", "read", "poll", "parse", "done"}
  /\ request \in Bounded

(* All that was read was sent, and is header or overshoot.                 *)
WithinStream ==
  /\ got + overshoot = taken /\ taken <= Len(stream)
  /\ pc = "demux" => got = 0 /\ peeked = 0

Mark == EndOfHeader(stream)

Searching == pc \in {"demux", "read", "poll"}

NothingYet ==
  /\ Searching => overshoot = 0 /\ (Mark = 0 \/ got < Mark)
  /\ Searching \/ pc = "parse" => request = Start /\ verdict = 0

FoundMark == pc = "parse" => got = Mark /\ Mark > 0

(* A request is what was parsed of the header, all of it.                  *)
ParsedAll == request # Start => request = Parse(SubSeq(stream, 1, got))

LooksLikeHttp2 ==
  /\ protocol = "HTTP2" => IsPrefix(Preface, stream) \/ ShortPeek
  /\ peeked = Len(Preface) /\ IsPrefix(Preface, stream) => protocol = "HTTP2"

IInv ==
  /\ Types /\ WithinStream /\ NothingYet /\ FoundMark /\ ParsedAll /\ LooksLikeHttp2
  /\ PiecesDontMatter

LEMMA PrefaceIs == Preface \in Seq(Byte) /\ Len(Preface) \in Nat \ {0}
BY ParseAssumption, StreamsAreSequences

LEMMA StreamIs ==
  ASSUME Types
  PROVE  /\ stream \in Seq(Byte) /\ Len(stream) \in Nat
         /\ Mark \in 0 .. Len(stream) /\ Mark \in Nat
<1>1. stream \in Seq(Byte)
  BY StreamsAreSequences DEF Types
<1>2. Len(stream) \in Nat
  BY <1>1
<1>3. Mark \in 0 .. Len(stream)
  BY <1>1, MarkIs DEF Mark
<1> QED
  BY <1>1, <1>2, <1>3

(* The first mark of the stream is among the bytes read, or none is.       *)
LEMMA MarkRead ==
  ASSUME Types, WithinStream
  PROVE  NoMarkRead <=> Mark = 0 \/ taken < Mark
<1>1. stream \in Seq(Byte) /\ taken \in 0 .. Len(stream) /\ Mark \in Nat
  BY StreamIs, Limits DEF Types, WithinStream
<1>2. EndOfHeader(SubSeq(stream, 1, taken)) = IF Mark # 0 /\ Mark <= taken THEN Mark ELSE 0
  BY <1>1, MarkOfBeginning DEF Mark
<1> QED
  BY <1>1, <1>2 DEF NoMarkRead

(* Before the header is whole there is nothing to say.                     *)
LEMMA NotYet ==
  ASSUME pc \in {"demux", "read", "poll"}, verdict = 0
  PROVE  PiecesDontMatter
BY DEF PiecesDontMatter

LEMMA InitInv ==
  ASSUME Init
  PROVE  IInv
<1>1. Types
  BY StartBounded, Limits DEF Init, Types
<1>2. Len(stream) \in Nat /\ Mark \in Nat /\ Len(Preface) \in Nat \ {0}
  BY <1>1, StreamIs, PrefaceIs
<1>3. PiecesDontMatter
  BY NotYet DEF Init
<1> QED
  BY <1>1, <1>2, <1>3 DEF Init, IInv, WithinStream, NothingYet, FoundMark, ParsedAll,
                         LooksLikeHttp2, Searching

-----------------------------------------------------------------------------
(***************************************************************************)
(* The steps.                                                              *)
(***************************************************************************)
(* The peek takes the peer for one of HTTP/2 if it sees the whole preface, *)
(* and otherwise only if all it sees is a beginning of the preface.        *)
LEMMA DemuxInv ==
  ASSUME IInv, NEW n \in 0 .. Len(Preface), n <= Len(stream), Demux(n)
  PROVE  IInv'
<1> USE DEF IInv
<1>0. /\ UNCHANGED <<stream, got, taken, overshoot, request, verdict>>
      /\ pc = "demux" /\ pc' = "read" /\ peeked' = n
  BY DEF Demux
<1>1. stream \in Seq(Byte) /\ Len(stream) \in Nat /\ Mark \in Nat /\ Mark' = Mark
  BY <1>0, StreamIs DEF Mark
<1>2. Preface \in Seq(Byte) /\ Len(Preface) \in Nat \ {0}
  BY PrefaceIs
<1> DEFINE seen == SubSeq(stream, 1, n)
           same == IsPrefix(seen, Preface)
<1>3. /\ protocol' \in {"HTTP11", "HTTP2"}
      /\ protocol' = "HTTP2" => n # 0 /\ same
      /\ n = Len(Preface) /\ same => protocol' = "HTTP2"
  BY <1>2 DEF Demux
<1>4. n = Len(Preface) => (same <=> IsPrefix(Preface, stream))
  <2> SUFFICES ASSUME n = Len(Preface) PROVE same <=> IsPrefix(Preface, stream)
    OBVIOUS
  <2>1. seen \in Seq(Byte) /\ Len(seen) = n /\ n \in 0 .. Len(stream)
    BY <1>1, <1>2, EndsOfBeginning
  <2>2. SubSeq(seen, 1, n) = seen /\ SubSeq(Preface, 1, n) = Preface
    <3> HIDE DEF seen
    <3> QED
      BY <1>2, <2>1
  <2>3. same <=> seen = Preface
    <3>1. same <=> SubSeq(seen, 1, n) = SubSeq(Preface, 1, n)
      <4> HIDE DEF seen
      <4>1. Len(seen) <= Len(Preface)
        BY <1>2, <2>1
      <4> QED
        BY <2>1, <4>1 DEF IsPrefix
    <3> QED
      BY <2>2, <3>1
  <2>4. IsPrefix(Preface, stream) <=> Preface = seen
    BY <1>1, <1>2, <2>2 DEF IsPrefix
  <2> QED
    BY <2>3, <2>4
<1>5. protocol' = "HTTP2" => IsPrefix(Preface, stream) \/ ShortPeek'
  <2> SUFFICES ASSUME protocol' = "HTTP2", n # Len(Preface) PROVE ShortPeek'
    BY <1>3, <1>4
  <2>1. n \in 1 .. Len(Preface) - 1
    BY <1>2, <1>3
  <2> QED
    BY <1>0, <1>3, <2>1 DEF ShortPeek
<1> HIDE DEF seen, same
<1>6. Types'
  BY <1>0, <1>3 DEF Types
<1>7. LooksLikeHttp2'
  BY <1>0, <1>3, <1>4, <1>5 DEF LooksLikeHttp2
<1>8. WithinStream' /\ NothingYet' /\ FoundMark' /\ ParsedAll'
  BY <1>0, <1>1 DEF WithinStream, NothingYet, FoundMark, ParsedAll, Searching
<1>9. PiecesDontMatter'
  <2>1. pc' = "read" /\ verdict' = 0
    BY <1>0 DEF NothingYet, Searching
  <2> QED
    BY <2>1 DEF PiecesDontMatter
<1> QED
  BY <1>6, <1>7, <1>8, <1>9

(* A piece arrives: the mark is looked for in all that was read.           *)
LEMMA ReadInv ==
  ASSUME IInv, NEW n \in 1 .. MaxHeader, n <= Len(stream) - got, Read(n)
  PROVE  IInv'
<1> USE DEF IInv
<1>0. /\ UNCHANGED <<stream, peeked, protocol, request, verdict>>
      /\ pc = "read" /\ n <= MaxHeader - got /\ taken' = taken + n
  BY DEF Read
<1>1. /\ stream \in Seq(Byte) /\ Len(stream) \in Nat /\ Mark \in Nat /\ Mark' = Mark
      /\ got \in Nat /\ got \in 0 .. MaxHeader /\ MaxHeader \in Nat /\ n \in Nat
      /\ overshoot = 0 /\ (Mark = 0 \/ got < Mark) /\ request = Start /\ verdict = 0
      /\ taken = got /\ ShortPeek' = ShortPeek
  <2>1. Mark' = Mark /\ ShortPeek' = ShortPeek
    BY <1>0 DEF Mark, ShortPeek
  <2>2. overshoot = 0 /\ (Mark = 0 \/ got < Mark) /\ request = Start /\ verdict = 0
    BY <1>0 DEF NothingYet, Searching
  <2>3. taken = got /\ got \in Nat
    BY <2>2, Limits DEF Types, WithinStream
  <2> QED
    BY <1>0, <2>1, <2>2, <2>3, StreamIs, Limits DEF Types
<1> DEFINE p == got + n
           found == EndOfHeader(SubSeq(stream, 1, p))
<1>2. found = IF Mark # 0 /\ Mark <= p THEN Mark ELSE 0
  <2>1. p \in 0 .. Len(stream)
    BY <1>1
  <2> HIDE DEF p
  <2> QED
    BY <1>1, <2>1, MarkOfBeginning DEF Mark
<1>3. IF found > 0
      THEN overshoot' = got + n - found /\ got' = found /\ pc' = "parse"
      ELSE got' = got + n /\ UNCHANGED <<overshoot, pc>>
  BY DEF Read
<1> HIDE DEF found, p
<1>4. CASE Mark # 0 /\ Mark <= got + n
  <2>1. got' = Mark /\ overshoot' = got + n - Mark /\ pc' = "parse"
    BY <1>1, <1>2, <1>3, <1>4 DEF p
  <2>2. Types'
    BY <1>0, <1>1, <1>4, <2>1 DEF Types
  <2>3. WithinStream' /\ NothingYet' /\ FoundMark' /\ ParsedAll' /\ LooksLikeHttp2'
    BY <1>0, <1>1, <1>4, <2>1
      DEF WithinStream, NothingYet, FoundMark, ParsedAll, LooksLikeHttp2, Searching
  <2>4. PiecesDontMatter'
    <3>1. Mark' > 0 /\ got' = Mark' /\ got' + overshoot' = taken' /\ taken' <= Len(stream')
      BY <1>0, <1>1, <1>4, <2>1
    <3> QED
      BY <1>0, <1>1, <2>1, <3>1 DEF PiecesDontMatter, Mark
  <2> QED
    BY <2>2, <2>3, <2>4
<1>5. CASE ~(Mark # 0 /\ Mark <= got + n)
  <2>1. got' = got + n /\ overshoot' = 0 /\ pc' = "read"
    BY <1>0, <1>1, <1>2, <1>3, <1>5 DEF p
  <2>2. Types'
    BY <1>0, <1>1, <2>1 DEF Types
  <2>3. WithinStream' /\ NothingYet' /\ FoundMark' /\ ParsedAll' /\ LooksLikeHttp2'
    BY <1>0, <1>1, <1>5, <2>1
      DEF WithinStream, NothingYet, FoundMark, ParsedAll, LooksLikeHttp2, Searching
  <2>4. PiecesDontMatter'
    <3>1. pc' = "read" /\ verdict' = 0
      BY <1>0, <1>1, <2>1
    <3> QED
      BY <3>1 DEF PiecesDontMatter
  <2> QED
    BY <2>2, <2>3, <2>4
<1> QED
  BY <1>4, <1>5

(* A verdict without parsing: what each may be.                            *)
LEMMA DecideInv ==
  ASSUME IInv, NEW v, Decide(v),
         \/ v \in {-4, 500} /\ pc \in {"read", "poll"}
         \/ v = 431 /\ pc = "read" /\ got >= MaxHeader
         \/ v = -2 /\ pc = "read" /\ got = Len(stream)
         \/ v = 505 /\ pc = "parse" /\ protocol = "HTTP2"
  PROVE  IInv'
<1> USE DEF IInv
<1>0. /\ UNCHANGED <<stream, got, taken, peeked, overshoot, request, protocol>>
      /\ verdict' = v /\ pc' = "done"
  BY DEF Decide
<1>1. /\ Len(stream) \in Nat /\ Mark \in Nat /\ Mark' = Mark /\ Mark <= Len(stream)
      /\ got \in 0 .. MaxHeader /\ MaxHeader \in Nat /\ overshoot \in Nat
      /\ NoMarkRead' = NoMarkRead /\ ShortPeek' = ShortPeek
  <2>1. Mark' = Mark /\ NoMarkRead' = NoMarkRead /\ ShortPeek' = ShortPeek
    BY <1>0 DEF Mark, NoMarkRead, ShortPeek
  <2> QED
    BY <2>1, StreamIs, Limits DEF Types
<1>2. Types'
  BY <1>0 DEF Types
<1>3. WithinStream' /\ NothingYet' /\ FoundMark' /\ ParsedAll' /\ LooksLikeHttp2'
  BY <1>0, <1>1 DEF WithinStream, NothingYet, FoundMark, ParsedAll, LooksLikeHttp2, Searching
<1>4. ASSUME v # 505
      PROVE  /\ NoMarkRead /\ v \in {-4, -2, 431, 500} /\ taken = got
             /\ v = 431 => taken = MaxHeader
             /\ v = -2 => taken = Len(stream)
  <2>1. pc \in {"read", "poll"}
    BY <1>4
  <2>2. overshoot = 0 /\ (Mark = 0 \/ got < Mark)
    BY <2>1 DEF NothingYet, Searching
  <2>3. taken = got
    BY <1>1, <2>2 DEF WithinStream
  <2>4. NoMarkRead
    BY <2>2, <2>3, MarkRead
  <2> QED
    BY <1>1, <1>4, <2>3, <2>4
<1>5. ASSUME v = 505
      PROVE  /\ IsPrefix(Preface, stream) \/ ShortPeek
             /\ Mark > 0 /\ got = Mark /\ got + overshoot = taken /\ taken <= Len(stream)
  BY <1>5 DEF LooksLikeHttp2, FoundMark, WithinStream
<1>6. PiecesDontMatter'
  <2>1. CASE v = 505
    BY <1>0, <1>1, <1>5, <2>1 DEF PiecesDontMatter, Mark
  <2>2. CASE v # 505
    BY <1>0, <1>1, <1>4, <2>2 DEF PiecesDontMatter, Mark
  <2> QED
    BY <2>1, <2>2
<1> QED
  BY <1>2, <1>3, <1>6

(* The header is parsed.                                                   *)
LEMMA ParseInv ==
  ASSUME IInv, ParseRequest
  PROVE  IInv'
<1> USE DEF IInv
<1>0. /\ UNCHANGED <<stream, got, taken, peeked, overshoot>>
      /\ pc = "parse" /\ pc' = "done" /\ protocol # "HTTP2"
      /\ verdict' \in {0, 101} /\ (protocol' = protocol \/ protocol' = "HTTP10")
      /\ request' = Parse(SubSeq(stream, 1, got))
  BY DEF ParseRequest
<1>1. /\ stream \in Seq(Byte) /\ Len(stream) \in Nat /\ Mark \in Nat /\ Mark' = Mark
      /\ got = Mark /\ Mark > 0 /\ got + overshoot = taken /\ taken <= Len(stream)
      /\ got \in 0 .. Len(stream)
      /\ peeked = Len(Preface) => ~IsPrefix(Preface, stream)
  <2>1. Mark' = Mark
    BY <1>0 DEF Mark
  <2> QED
    BY <1>0, <2>1, StreamIs DEF FoundMark, WithinStream, LooksLikeHttp2
<1>2. request' \in Bounded
  <2>1. SubSeq(stream, 1, got) \in Seq(Byte)
    BY <1>1, EndsOfBeginning
  <2> QED
    BY <1>0, <2>1, ParseBounded
<1>3. Types'
  BY <1>0, <1>2 DEF Types
<1>4. WithinStream' /\ NothingYet' /\ FoundMark' /\ ParsedAll' /\ LooksLikeHttp2'
  BY <1>0, <1>1 DEF WithinStream, NothingYet, FoundMark, ParsedAll, LooksLikeHttp2, Searching
<1>5. PiecesDontMatter'
  BY <1>0, <1>1 DEF PiecesDontMatter, Mark
<1> QED
  BY <1>3, <1>4, <1>5

(* Waiting for more, and failing to peek, read nothing.                    *)
LEMMA WaitInv ==
  ASSUME IInv, DemuxFails \/ Starve \/ PollReady \/ UNCHANGED vars
  PROVE  IInv'
<1> USE DEF IInv
<1>0. /\ UNCHANGED <<stream, got, taken, peeked, overshoot, request, verdict>>
      /\ protocol' = protocol \/ (pc = "demux" /\ protocol' = "UNKNOWN")
      /\ pc' = pc \/ (pc \in {"demux", "read", "poll"} /\ pc' \in {"read", "poll"})
  BY DEF DemuxFails, Starve, PollReady, vars
<1>1. Mark' = Mark /\ NoMarkRead' = NoMarkRead /\ ShortPeek' = ShortPeek
  BY <1>0 DEF Mark, NoMarkRead, ShortPeek
<1>2. Types'
  BY <1>0 DEF Types
<1>3. WithinStream' /\ NothingYet' /\ FoundMark' /\ ParsedAll' /\ LooksLikeHttp2'
  BY <1>0, <1>1, PrefaceIs
    DEF WithinStream, NothingYet, FoundMark, ParsedAll, LooksLikeHttp2, Searching
<1>4. PiecesDontMatter'
  <2>1. CASE pc' = pc
    BY <1>0, <1>1, <2>1 DEF PiecesDontMatter, Mark
  <2>2. CASE pc' \in {"read", "poll"} /\ verdict' = 0
    BY <2>2 DEF PiecesDontMatter
  <2> QED
    BY <1>0, <2>1, <2>2 DEF NothingYet, Searching
<1> QED
  BY <1>2, <1>3, <1>4

LEMMA NextInv ==
  ASSUME IInv, [Next]_vars
  PROVE  IInv'
<1>1. ASSUME NEW n \in 0 .. Len(Preface), n <= Len(stream), Demux(n) PROVE IInv'
  BY <1>1, DemuxInv
<1>2. ASSUME NEW n \in 1 .. MaxHeader, n <= Len(stream) - got, Read(n) PROVE IInv'
  BY <1>2, ReadInv
<1>3. CASE DemuxFails \/ Starve \/ PollReady \/ UNCHANGED vars
  BY <1>3, WaitInv
<1>4. CASE TooLarge \/ PeerClosed \/ ReadFails \/ PollTimeout \/ PollFails
  BY <1>4, DecideInv DEF TooLarge, PeerClosed, ReadFails, PollTimeout, PollFails
<1>5. CASE RefuseHttp2
  BY <1>5, DecideInv DEF RefuseHttp2
<1>6. CASE ParseRequest
  BY <1>6, ParseInv
<1> QED
  BY <1>1, <1>2, <1>3, <1>4, <1>5, <1>6 DEF Next

-----------------------------------------------------------------------------
(* Inductive (demux_protocol, read_http_headers, parse_http1,              *)
(* process_ingress): the invariant holds in every state.                   *)
THEOREM Inductive == Spec => []IInv
<1>1. Init => IInv
  BY InitInv
<1>2. IInv /\ [Next]_vars => IInv'
  BY NextInv
<1> QED
  BY <1>1, <1>2, PTL DEF Spec

(* TypeCorrect (parse_http1): whatever the peer sends, no byte is put past *)
(* the end of the method, the URI, the version, a key or a value, and no   *)
(* header past the last one there is room for.                             *)
THEOREM TypeCorrect == Spec => []TypeOK
<1>1. IInv => TypeOK
  <2> SUFFICES ASSUME IInv PROVE TypeOK
    OBVIOUS
  <2>1. request \in Scanners /\ Len(request.headers) <= MaxHeaders
    BY DEF IInv, Types, Bounded
  <2>2. /\ Len(request.method) <= MaxWord /\ Len(request.uri) <= MaxUri
        /\ Len(request.version) <= MaxWord /\ request.headers \in Seq(Lines)
    BY <2>1 DEF Scanners, Text
  <2>3. \A k \in DOMAIN request.headers : request.headers[k] \in Lines
    BY <2>2
  <2>4. \A l \in Lines : Len(l.key) <= MaxKey /\ Len(l.value) <= MaxValue
    BY DEF Lines, Text
  <2> QED
    BY <2>1, <2>2, <2>3, <2>4 DEF IInv, Types, TypeOK
<1> QED
  BY <1>1, Inductive, PTL

(* TakesWholeHeader (read_http_headers, demux_protocol, process_ingress):  *)
(* for every stream, preface and size of the buffer, and however the bytes *)
(* are cut into pieces, the header that is parsed ends at the first end    *)
(* mark of the stream and overshoot is what was read behind it; 431, 500   *)
(* and the silent closes come only with no mark in what was read; and 505  *)
(* is answered to a stream that is not one of HTTP/2 only after a peek     *)
(* that ended inside the preface.                                          *)
THEOREM TakesWholeHeader == Spec => []PiecesDontMatter
<1>1. IInv => PiecesDontMatter
  BY DEF IInv
<1> QED
  BY <1>1, Inductive, PTL

(* ReadsLines (parse_http1): for every stream and all limits the byte-wise *)
(* parser finds the method, the URI, the version and the headers that      *)
(* cutting the header into words and lines finds.                          *)
THEOREM ReadsLines == Spec => []ParsesByLines
<1>1. IInv => ParsesByLines
  <2> SUFFICES ASSUME IInv, request # Start PROVE ParsesByLines
    BY DEF ParsesByLines
  <2>1. /\ stream \in Seq(Byte) /\ Len(stream) \in Nat /\ got \in 0 .. Len(stream)
        /\ request = Parse(SubSeq(stream, 1, got))
    BY StreamIs DEF IInv, Types, WithinStream, ParsedAll
  <2>2. SubSeq(stream, 1, got) \in Seq(Byte)
    BY <2>1, EndsOfBeginning
  <2> QED
    BY <2>1, <2>2, ParserIsRight DEF ParsesByLines
<1> QED
  BY <1>1, Inductive, PTL
=============================================================================
