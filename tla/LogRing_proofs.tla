-------------------------- MODULE LogRing_proofs --------------------------
(***************************************************************************)
(* Theorems about LogRing, for every number of threads, every ring size,   *)
(* batch size and number of messages: types, nobody asleep who should not  *)
(* be, and every event message accounted for.                              *)
(*                                                                         *)
(* An outdated next_tail may move the tail anywhere, so the types already  *)
(* need an argument: a ring that some slot of was never written to has not *)
(* wrapped, and its writers, if they wait, wait for the last slot.         *)
(***************************************************************************)
EXTENDS LogRing, Selection_proofs

(* A slot is read only after it was written.                               *)
SlotsWritten ==
  \/ \A i \in Slots : entries[i] \in Messages
  \/ /\ head <= tail /\ \A i \in 0 .. tail - 1 : entries[i] \in Messages
     /\ \A t \in Threads : pc[t] = "wait" => next[t] = 0 /\ tail = Size - 1

(* A blocked writer has a message of its own, numbered before it counted   *)
(* the message.                                                            *)
Waiting ==
  \A t \in Threads : pc[t] = "wait" =>
    /\ msg[t] \in Messages /\ msg[t].from = t /\ msg[t].target = "event"
    /\ t \in Producers => msg[t].n < written[t]

(* The batch is empty unless the logger is writing it.                     *)
BatchInUse == pc[Logger] \notin {"access", "event"} => batch = << >>

(* No event message is owed twice, and all are older than what their       *)
(* writers are writing.                                                    *)
OwedOnce ==
  /\ IsInjective(owed)
  /\ \A m \in Range(owed) :
       /\ m \in Events /\ m.n < written[m.from]
       /\ pc[m.from] = "wait" => m.n < msg[m.from].n

IInv ==
  /\ TypeOK /\ SlotsWritten /\ Waiting /\ BatchInUse /\ OwedOnce
  /\ EventsAccounted /\ WakeupsReachLogger

-----------------------------------------------------------------------------
(***************************************************************************)
(* The indices of the ring.                                                *)
(***************************************************************************)
LEMMA Wrap ==
  ASSUME NEW x \in Int, -Size < x, x < 2 * Size
  PROVE  x % Size = IF x < 0 THEN x + Size ELSE IF x < Size THEN x ELSE x - Size
<1> DEFINE r == IF x < 0 THEN x + Size ELSE IF x < Size THEN x ELSE x - Size
           q == IF x < 0 THEN -1 ELSE IF x < Size THEN 0 ELSE 1
<1>1. Size \in Int /\ Size > 0
  BY LogAssumption
<1>2. r \in 0 .. Size - 1 /\ q \in {-1, 0, 1} /\ x = Size * q + r
  BY <1>1
<1> QED
  BY <1>1, <1>2

LEMMA Indices ==
  ASSUME head \in Slots, tail \in Slots
  PROVE  /\ Count = (IF head <= tail THEN tail - head ELSE tail - head + Size)
         /\ Count \in 0 .. Size - 1
         /\ After(tail) = (IF tail = Size - 1 THEN 0 ELSE tail + 1) /\ After(tail) \in Slots
         /\ \A i \in 1 .. Size : (head + i - 1) % Size =
              (IF head + i - 1 < Size THEN head + i - 1 ELSE head + i - 1 - Size)
         /\ \A i \in 0 .. Size : (head + i) % Size =
              (IF head + i < Size THEN head + i ELSE head + i - Size)
         /\ \A i \in 0 .. Size : (head + i) % Size \in Slots
<1>1. head \in Int /\ tail \in Int /\ Size \in Int /\ Size > 0
      /\ 0 <= head /\ head < Size /\ 0 <= tail /\ tail < Size
  BY LogAssumption DEF Slots
<1>2. /\ Count = (IF head <= tail THEN tail - head ELSE tail - head + Size)
      /\ Count \in 0 .. Size - 1
  <2>1. tail - head \in Int /\ -Size < tail - head /\ tail - head < 2 * Size
    BY <1>1
  <2>2. (tail - head) % Size = IF tail - head < 0 THEN tail - head + Size
                               ELSE IF tail - head < Size THEN tail - head
                               ELSE tail - head - Size
    BY <2>1, Wrap
  <2> QED
    BY <1>1, <2>2 DEF Count
<1>w. \A x \in Int : -Size < x /\ x < 2 * Size =>
         x % Size = IF x < 0 THEN x + Size ELSE IF x < Size THEN x ELSE x - Size
  BY Wrap, Zenon
<1>3. /\ After(tail) = (IF tail = Size - 1 THEN 0 ELSE tail + 1) /\ After(tail) \in Slots
  <2> DEFINE x == tail + 1
  <2>1. x \in Int /\ 0 <= x /\ -Size < x /\ x < 2 * Size
    BY <1>1
  <2> HIDE DEF x
  <2>2. x % Size = IF x < Size THEN x ELSE x - Size
    BY <2>1, <1>w, <1>1
  <2> QED
    BY <1>1, <2>2 DEF After, Slots, x
<1>4. ASSUME NEW i \in 0 .. Size
      PROVE  /\ (head + i) % Size = (IF head + i < Size THEN head + i ELSE head + i - Size)
             /\ (head + i) % Size \in Slots
  <2> DEFINE x == head + i
  <2>1. x \in Int /\ 0 <= x /\ -Size < x /\ x < 2 * Size
    BY <1>1
  <2> HIDE DEF x
  <2>2. x % Size = IF x < Size THEN x ELSE x - Size
    BY <2>1, <1>w, <1>1
  <2> QED
    BY <1>1, <2>1, <2>2 DEF Slots, x
<1>5. ASSUME NEW i \in 1 .. Size
      PROVE  (head + i - 1) % Size =
               (IF head + i - 1 < Size THEN head + i - 1 ELSE head + i - 1 - Size)
  <2>1. i - 1 \in 0 .. Size /\ head + i - 1 = head + (i - 1)
    BY <1>1
  <2>2. (head + (i - 1)) % Size =
           (IF head + (i - 1) < Size THEN head + (i - 1) ELSE head + (i - 1) - Size)
    BY <1>4, <2>1
  <2> QED
    BY <2>1, <2>2
<1> QED
  BY <1>2, <1>3, <1>4, <1>5

(***************************************************************************)
(* The messages in the ring: what a store appends and a grab takes out.    *)
(***************************************************************************)
LEMMA QueuedType ==
  ASSUME TypeOK, SlotsWritten
  PROVE  Queued \in Seq(Messages) /\ Len(Queued) = Count
<1>1. head \in Slots /\ tail \in Slots /\ Count \in 0 .. Size - 1
  BY Indices DEF TypeOK
<1>2. ASSUME NEW i \in 1 .. Count PROVE entries[(head + i - 1) % Size] \in Messages
  <2> DEFINE k == (head + i - 1) % Size
  <2>1. /\ i \in 1 .. Size /\ head \in 0 .. Size - 1 /\ tail \in 0 .. Size - 1 /\ Size \in Nat
        /\ k = (IF head + i - 1 < Size THEN head + i - 1 ELSE head + i - 1 - Size)
    BY <1>1, Indices, LogAssumption DEF Slots
  <2>2. k \in Slots
    BY <2>1 DEF Slots
  <2>3. head <= tail => k \in 0 .. tail - 1
    <3>1. Count = IF head <= tail THEN tail - head ELSE tail - head + Size
      BY <1>1, Indices
    <3> QED
      BY <2>1, <3>1
  <2> HIDE DEF k
  <2> QED
    BY <2>2, <2>3 DEF SlotsWritten, k
<1> QED
  BY <1>1, <1>2 DEF Queued

LEMMA QueuedStored ==
  ASSUME TypeOK, SlotsWritten, NEW m \in Messages, After(tail) # head,
         entries' = [entries EXCEPT ![tail] = m], tail' = After(tail), head' = head
  PROVE  Queued' = Append(Queued, m)
<1>1. /\ head \in Slots /\ tail \in Slots /\ tail' \in Slots /\ head' \in Slots
      /\ head \in 0 .. Size - 1 /\ tail \in 0 .. Size - 1 /\ Size \in Nat
  BY Indices, LogAssumption DEF TypeOK, Slots
<1>2. /\ Count = (IF head <= tail THEN tail - head ELSE tail - head + Size)
      /\ After(tail) = (IF tail = Size - 1 THEN 0 ELSE tail + 1)
      /\ \A i \in 1 .. Size : (head + i - 1) % Size =
              (IF head + i - 1 < Size THEN head + i - 1 ELSE head + i - 1 - Size)
  BY <1>1, Indices
<1>3. Count' = Count + 1 /\ Count \in 0 .. Size - 2
  <2>1. Count' = IF head' <= tail' THEN tail' - head' ELSE tail' - head' + Size
    <3>1. tail' - head' \in Int /\ -Size < tail' - head' /\ tail' - head' < 2 * Size
      BY <1>1 DEF Slots
    <3>2. (tail' - head') % Size = IF tail' - head' < 0 THEN tail' - head' + Size
                                   ELSE IF tail' - head' < Size THEN tail' - head'
                                   ELSE tail' - head' - Size
      BY <3>1, Wrap
    <3> QED
      BY <1>1, <3>2 DEF Count, Slots
  <2> QED
    BY <1>1, <1>2, <2>1
<1>n. Count \in Nat
  BY <1>1, <1>3
<1>4. Queued \in Seq(Messages) /\ Len(Queued) = Count
  BY QueuedType
<1>5. \A i \in 1 .. Count + 1 :
        entries'[(head + i - 1) % Size] =
          IF i = Count + 1 THEN m ELSE entries[(head + i - 1) % Size]
  <2> TAKE i \in 1 .. Count + 1
  <2>1. (head + i - 1) % Size \in 0 .. Size - 1 /\ ((head + i - 1) % Size = tail <=> i = Count + 1)
    BY <1>1, <1>2, <1>3
  <2> QED
    BY <2>1 DEF TypeOK, Slots
<1>6. Queued' = [i \in 1 .. Count + 1 |-> entries'[(head + i - 1) % Size]]
  BY <1>3 DEF Queued
<1>7. \A i \in 1 .. Count : Queued[i] = entries[(head + i - 1) % Size]
  BY DEF Queued
<1>8. /\ Append(Queued, m) \in Seq(Messages) /\ Len(Append(Queued, m)) = Count + 1
      /\ \A i \in 1 .. Count : Append(Queued, m)[i] = Queued[i]
      /\ Append(Queued, m)[Count + 1] = m
  BY <1>4, AppendProperties
<1>9. \A i \in 1 .. Count + 1 : Append(Queued, m)[i] = entries'[(head + i - 1) % Size]
  <2> TAKE i \in 1 .. Count + 1
  <2>1. CASE i = Count + 1
    BY <1>5, <1>8, <2>1
  <2>2. CASE i \in 1 .. Count
    BY <1>5, <1>7, <1>8, <2>2
  <2>3. i = Count + 1 \/ i \in 1 .. Count
    BY <1>n
  <2> QED
    BY <2>1, <2>2, <2>3, Zenon
<1>10. Append(Queued, m) = [i \in 1 .. Count + 1 |-> Append(Queued, m)[i]]
  <2>1. \A s \in Seq(Messages) : s = [i \in 1 .. Len(s) |-> s[i]]
    OBVIOUS
  <2> QED
    BY <1>8, <2>1
<1> QED
  BY <1>6, <1>9, <1>10

LEMMA SamePlace ==
  ASSUME NEW h \in 0 .. Size - 1, NEW g \in 0 .. Size - 1,
         NEW k \in 0 .. Size, NEW i \in 1 .. Size, h + k + i <= 2 * Size,
         g = (IF h + k < Size THEN h + k ELSE h + k - Size)
  PROVE  (g + i - 1) % Size = (h + (k + i) - 1) % Size
<1> DEFINE x == g + i - 1
           y == h + (k + i) - 1
<1>1. /\ x \in Int /\ -Size < x /\ x < 2 * Size /\ 0 <= x
      /\ y \in Int /\ -Size < y /\ y < 2 * Size /\ 0 <= y
      /\ (IF x < Size THEN x ELSE x - Size) = (IF y < Size THEN y ELSE y - Size)
  BY LogAssumption
<1> HIDE DEF x, y
<1>w. \A z \in Int : -Size < z /\ z < 2 * Size =>
         z % Size = IF z < 0 THEN z + Size ELSE IF z < Size THEN z ELSE z - Size
  BY Wrap, Zenon
<1>2. x % Size = (IF x < Size THEN x ELSE x - Size)
  BY <1>w, <1>1
<1>3. y % Size = (IF y < Size THEN y ELSE y - Size)
  BY <1>w, <1>1
<1>4. x % Size = y % Size
  BY <1>1, <1>2, <1>3
<1> QED
  BY <1>4 DEF x, y

LEMMA Turned ==
  ASSUME head \in 0 .. Size - 1, tail \in 0 .. Size - 1, NEW n \in 0 .. Count,
         Count = IF head <= tail THEN tail - head ELSE tail - head + Size,
         head' = IF head + n < Size THEN head + n ELSE head + n - Size
  PROVE  (IF head' <= tail THEN tail - head' ELSE tail - head' + Size) = Count - n
BY LogAssumption

LEMMA QueuedTaken ==
  ASSUME TypeOK, SlotsWritten, NEW n \in 0 .. Count,
         entries' = entries, tail' = tail, head' = (head + n) % Size
  PROVE  /\ SubSeq(Queued, 1, n) \in Seq(Messages) /\ Len(SubSeq(Queued, 1, n)) = n
         /\ Queued' \in Seq(Messages) /\ SubSeq(Queued, 1, n) \o Queued' = Queued
<1>1. /\ head \in 0 .. Size - 1 /\ tail \in 0 .. Size - 1 /\ Size \in Nat
      /\ head \in Slots /\ tail \in Slots
  BY LogAssumption DEF TypeOK, Slots
<1>2. /\ Count = (IF head <= tail THEN tail - head ELSE tail - head + Size)
      /\ Count \in 0 .. Size - 1
      /\ \A i \in 1 .. Size : (head + i - 1) % Size =
              (IF head + i - 1 < Size THEN head + i - 1 ELSE head + i - 1 - Size)
      /\ \A i \in 0 .. Size : (head + i) % Size =
              (IF head + i < Size THEN head + i ELSE head + i - Size)
  BY <1>1, Indices
<1>3. n \in Nat /\ n <= Count /\ Count \in Nat /\ n \in 0 .. Size
  BY <1>1, <1>2
<1>4. /\ head' = (IF head + n < Size THEN head + n ELSE head + n - Size)
      /\ head' \in 0 .. Size - 1
  BY <1>1, <1>2, <1>3
<1>w. \A x \in Int : -Size < x /\ x < 2 * Size =>
         x % Size = IF x < 0 THEN x + Size ELSE IF x < Size THEN x ELSE x - Size
  BY Wrap, Zenon
<1>t. (IF head' <= tail THEN tail - head' ELSE tail - head' + Size) = Count - n
  <2>1. /\ head \in 0 .. Size - 1 /\ tail \in 0 .. Size - 1
        /\ Count = IF head <= tail THEN tail - head ELSE tail - head + Size
        /\ head' = IF head + n < Size THEN head + n ELSE head + n - Size
    BY <1>1, <1>2, <1>4
  <2> QED
    BY <2>1, Turned, Zenon
<1>5. Count' = Count - n
  <2> DEFINE x == tail - head'
  <2>1. x \in Int /\ -Size < x /\ x < Size /\ x < 2 * Size
    BY <1>1, <1>4
  <2>2. Count' = x % Size
    BY DEF Count
  <2> HIDE DEF x
  <2>3. x % Size = IF x < 0 THEN x + Size ELSE x
    BY <1>w, <2>1
  <2> QED
    BY <1>1, <1>4, <1>t, <2>2, <2>3 DEF x
<1>s. \A h \in 0 .. Size - 1 : \A g \in 0 .. Size - 1 : \A k \in 0 .. Size : \A i \in 1 .. Size :
        h + k + i <= 2 * Size /\ g = (IF h + k < Size THEN h + k ELSE h + k - Size)
        => (g + i - 1) % Size = (h + (k + i) - 1) % Size
  BY SamePlace, Zenon
<1>6. \A i \in 1 .. Count - n : (head' + i - 1) % Size = (head + (n + i) - 1) % Size
  <2> TAKE i \in 1 .. Count - n
  <2>1. i \in 1 .. Size /\ head + n + i <= 2 * Size
    BY <1>1, <1>2, <1>3
  <2> QED
    BY <1>s, <1>1, <1>3, <1>4, <2>1, Zenon
<1>7. Queued \in Seq(Messages) /\ Len(Queued) = Count
  BY QueuedType
<1>8. \A i \in 1 .. Count : Queued[i] = entries[(head + i - 1) % Size] /\ Queued[i] \in Messages
  <2>1. \A i \in 1 .. Count : Queued[i] = entries[(head + i - 1) % Size]
    BY DEF Queued
  <2>2. \A i \in 1 .. Count : Queued[i] \in Messages
    BY <1>7
  <2> QED
    BY <2>1, <2>2
<1> DEFINE q == [i \in 1 .. Count - n |-> Queued[n + i]]
<1>9. Queued' = q
  <2>1. Queued' = [i \in 1 .. Count - n |-> entries[(head' + i - 1) % Size]]
    BY <1>5 DEF Queued
  <2>2. \A i \in 1 .. Count - n : entries[(head' + i - 1) % Size] = Queued[n + i]
    <3> TAKE i \in 1 .. Count - n
    <3>1. n + i \in 1 .. Count
      BY <1>3
    <3> QED
      BY <1>6, <1>8, <3>1
  <2> QED
    BY <2>1, <2>2
<1>10. q \in Seq(Messages) /\ Len(q) = Count - n
  <2>1. \A i \in 1 .. Count - n : n + i \in 1 .. Count
    BY <1>3
  <2> QED
    BY <1>3, <1>8, <2>1
<1>11. /\ SubSeq(Queued, 1, n) \in Seq(Messages) /\ Len(SubSeq(Queued, 1, n)) = n
       /\ \A i \in 1 .. n : SubSeq(Queued, 1, n)[i] = Queued[i]
  BY <1>3, <1>7, <1>8, SubSeqProperties
<1>12. SubSeq(Queued, 1, n) \o q = Queued
  <2> DEFINE b == SubSeq(Queued, 1, n)
  <2>1. \A i \in 1 .. Count - n : q[i] = Queued[n + i]
    OBVIOUS
  <2>2. b \in Seq(Messages) /\ Len(b) = n /\ \A i \in 1 .. n : b[i] = Queued[i]
    BY <1>11
  <2> HIDE DEF b, q
  <2>3. /\ b \o q \in Seq(Messages) /\ Len(b \o q) = Len(b) + Len(q)
        /\ \A i \in 1 .. Len(b) + Len(q) : (b \o q)[i] = IF i <= Len(b) THEN b[i] ELSE q[i - Len(b)]
    BY <1>10, <2>2, ConcatProperties
  <2>4. Len(b \o q) = Count /\ \A i \in 1 .. Count : (b \o q)[i] = Queued[i]
    BY <1>3, <1>10, <2>1, <2>2, <2>3
  <2> QED
    BY <1>7, <2>3, <2>4 DEF b
<1> QED
  BY <1>9, <1>10, <1>11, <1>12

-----------------------------------------------------------------------------
(***************************************************************************)
(* Types.                                                                  *)
(***************************************************************************)
LEMMA NewMessages ==
  ASSUME TypeOK
  PROVE  /\ \A p \in Producers : \A target \in {"access", "event"} :
              [from |-> p, n |-> written[p], target |-> target] \in Messages
         /\ [from |-> Logger, n |-> 0, target |-> "event"] \in Messages
BY LogAssumption DEF TypeOK, Messages, Threads

LEMMA StoreType ==
  ASSUME TypeOK, NEW t \in Threads, t \notin not_full, NEW m \in Messages,
         NEW nextTail \in Slots, Store(t, m, nextTail), UNCHANGED <<shutdown, batch>>,
         written' \in [Producers -> 0 .. MaxWrites]
  PROVE  TypeOK'
<1>1. 0 \in Slots
  BY LogAssumption DEF Slots
<1>2. owed' \in Seq(Messages) /\ entries' \in [Slots -> Messages \cup {NoMsg}]
  BY DEF TypeOK, Store
<1>3. pc' \in [Threads -> {"idle", "wait", "grab", "access", "event", "warn", "exit"}]
      /\ msg' \in [Threads -> Messages \cup {NoMsg}] /\ next' \in [Threads -> Slots]
  BY <1>1 DEF TypeOK, Store, Return
<1>4. not_full' \subseteq {u \in Threads : pc'[u] = "wait"}
  BY DEF TypeOK, Store, Return
<1>5. spoiled' \in BOOLEAN
  BY Zenon DEF TypeOK, Store
<1> QED
  BY <1>2, <1>3, <1>4, <1>5 DEF TypeOK, Store

LEMMA WriteType ==
  ASSUME TypeOK, NEW t \in Threads, pc[t] \in {"idle", "warn"}, NEW m \in Messages,
         Write(t, m), written' \in [Producers -> 0 .. MaxWrites]
  PROVE  TypeOK'
<1>1. t \notin not_full /\ After(tail) \in Slots /\ 0 \in Slots
  BY Indices, LogAssumption DEF TypeOK, Slots
<1>2. CASE Store(t, m, After(tail))
  BY <1>1, <1>2, StoreType DEF Write
<1>3. CASE Return(t) /\ UNCHANGED <<ring, not_empty, not_full, owed, spoiled>>
  <2>1. UNCHANGED <<entries, head, tail, not_empty, not_full, owed, spoiled, shutdown, batch>>
    BY <1>3 DEF Write, ring
  <2>2. pc' \in [Threads -> {"idle", "wait", "grab", "access", "event", "warn", "exit"}]
        /\ msg' \in [Threads -> Messages \cup {NoMsg}] /\ next' \in [Threads -> Slots]
    BY <1>1, <1>3 DEF TypeOK, Return
  <2>3. not_full' \subseteq {u \in Threads : pc'[u] = "wait"}
        /\ (not_empty' => pc'[Logger] = "grab")
    BY <1>1, <1>3, <2>1 DEF TypeOK, Return, Threads
  <2> QED
    BY <2>1, <2>2, <2>3 DEF TypeOK
<1>4. CASE /\ Sleep(t)
           /\ pc' = [pc EXCEPT ![t] = "wait"] /\ msg' = [msg EXCEPT ![t] = m]
           /\ next' = [next EXCEPT ![t] = After(tail)]
           /\ UNCHANGED <<ring, not_empty, owed, spoiled>>
  <2>1. UNCHANGED <<entries, head, tail, not_empty, owed, spoiled, shutdown, batch>>
    BY <1>4 DEF Write, ring
  <2>2. pc' \in [Threads -> {"idle", "wait", "grab", "access", "event", "warn", "exit"}]
        /\ msg' \in [Threads -> Messages \cup {NoMsg}] /\ next' \in [Threads -> Slots]
    BY <1>1, <1>4 DEF TypeOK
  <2>3. not_full' \subseteq {u \in Threads : pc'[u] = "wait"}
        /\ (not_empty' => pc'[Logger] = "grab")
    BY <1>1, <1>4, <2>1 DEF TypeOK, Sleep, Threads
  <2> QED
    BY <2>1, <2>2, <2>3 DEF TypeOK
<1> QED
  BY <1>2, <1>3, <1>4 DEF Write

LEMMA GrabTakes ==
  ASSUME TypeOK, SlotsWritten, Grab
  PROVE  \E n \in 0 .. Count :
           /\ n \in Nat /\ n <= Batch
           /\ batch' = SubSeq(Queued, 1, n) /\ head' = (head + n) % Size
           /\ head' = (IF head + n < Size THEN head + n ELSE head + n - Size)
           /\ head' \in Slots
           /\ batch' \in Seq(Messages) /\ Len(batch') = n
           /\ Queued' \in Seq(Messages) /\ batch' \o Queued' = Queued
<1> DEFINE n == IF Count < Batch THEN Count ELSE Batch
<1>1. Count \in 0 .. Size - 1 /\ Size \in Nat /\ Batch \in Nat
  BY Indices, LogAssumption DEF TypeOK
<1>2. n \in 0 .. Count /\ n \in Nat /\ n <= Batch /\ n \in 0 .. Size
  BY <1>1
<1>3. batch' = SubSeq(Queued, 1, n) /\ head' = (head + n) % Size
      /\ entries' = entries /\ tail' = tail
  BY DEF Grab
<1> HIDE DEF n
<1>4. /\ (head + n) % Size = (IF head + n < Size THEN head + n ELSE head + n - Size)
      /\ (head + n) % Size \in Slots
  BY <1>2, Indices DEF TypeOK
<1>5. /\ SubSeq(Queued, 1, n) \in Seq(Messages) /\ Len(SubSeq(Queued, 1, n)) = n
      /\ Queued' \in Seq(Messages) /\ SubSeq(Queued, 1, n) \o Queued' = Queued
  BY <1>2, <1>3, QueuedTaken, Zenon
<1> QED
  BY <1>2, <1>3, <1>4, <1>5, Zenon

(* Settling: what is still owed is a part of what was.                     *)
LEMMA SettleType ==
  ASSUME TypeOK, SettleBatch
  PROVE  owed' \in Seq(Messages) /\ batch' = << >> /\ batch' \in Seq(Messages) /\ Len(batch') = 0
<1>1. owed \in Seq(Messages)
  BY DEF TypeOK
<1>2. Select(owed, Messages \ ToSet(batch)) \in Seq(Messages)
  BY <1>1, SelectType, Zenon
<1> QED
  BY <1>2 DEF SettleBatch

LEMMA TypeStep ==
  ASSUME TypeOK, SlotsWritten, Waiting, [Next]_vars
  PROVE  TypeOK'
<1>t. Logger \in Threads /\ Producers \subseteq Threads
  BY DEF Threads
<1>1. ASSUME NEW p \in Producers, NEW target \in {"access", "event"}, LogWrite(p, target)
      PROVE  TypeOK'
  <2> DEFINE m == [from |-> p, n |-> written[p], target |-> target]
  <2>1. m \in Messages
    BY NewMessages
  <2>2. pc[p] \in {"idle", "warn"} /\ Write(p, m) /\ p \in Threads
    BY <1>1, <1>t DEF LogWrite
  <2>3. written' \in [Producers -> 0 .. MaxWrites]
    BY <1>1, LogAssumption DEF LogWrite, TypeOK
  <2> HIDE DEF m
  <2> QED
    BY <2>1, <2>2, <2>3, WriteType
<1>2. ASSUME NEW t \in Threads, Resume(t) PROVE TypeOK'
  <2>1. CASE Store(t, msg[t], next[t])
    <3>1. msg[t] \in Messages /\ next[t] \in Slots /\ t \notin not_full
          /\ UNCHANGED <<shutdown, batch>> /\ written' \in [Producers -> 0 .. MaxWrites]
      BY <1>2 DEF Resume, Waiting, TypeOK
    <3> QED
      BY <2>1, <3>1, StoreType
  <2>2. CASE Return(t) /\ UNCHANGED <<ring, not_empty, not_full, owed, spoiled>>
    <3>1. UNCHANGED <<entries, head, tail, not_empty, not_full, owed, spoiled>>
          /\ UNCHANGED <<shutdown, batch, written>>
      BY <1>2, <2>2 DEF Resume, ring
    <3>2. pc' \in [Threads -> {"idle", "wait", "grab", "access", "event", "warn", "exit"}]
          /\ msg' \in [Threads -> Messages \cup {NoMsg}] /\ next' \in [Threads -> Slots]
      BY <2>2, LogAssumption DEF TypeOK, Return, Slots
    <3>3. not_full' \subseteq {u \in Threads : pc'[u] = "wait"}
          /\ (not_empty' => pc'[Logger] = "grab")
      BY <1>2, <1>t, <2>2, <3>1 DEF TypeOK, Return, Resume
    <3> QED
      BY <3>1, <3>2, <3>3 DEF TypeOK
  <2>3. CASE Sleep(t) /\ UNCHANGED <<ring, not_empty, pc, msg, next, owed, spoiled>>
    <3>1. UNCHANGED <<entries, head, tail, not_empty, pc, msg, next, owed, spoiled>>
          /\ UNCHANGED <<shutdown, batch, written>>
      BY <1>2, <2>3 DEF Resume, ring
    <3> QED
      BY <1>2, <2>3, <3>1 DEF TypeOK, Sleep, Resume
  <2> QED
    BY <1>2, <2>1, <2>2, <2>3 DEF Resume
<1>3. CASE LoggerSleep
  BY <1>3 DEF LoggerSleep, TypeOK, ring, history
<1>4. CASE LoggerExit
  BY <1>4 DEF LoggerExit, TypeOK, ring, history
<1>5. CASE Grab
  <2>1. head' \in Slots /\ batch' \in Seq(Messages) /\ Len(batch') <= Batch
    BY <1>5, GrabTakes
  <2>2. /\ UNCHANGED <<entries, tail, shutdown, not_empty, msg, next, written, owed, spoiled>>
        /\ not_full' = {} /\ pc' = [pc EXCEPT ![Logger] = "access"] /\ ~not_empty
    BY <1>5 DEF Grab, history
  <2> QED
    BY <2>1, <2>2 DEF TypeOK
<1>6. CASE WriteAccess
  BY <1>6 DEF WriteAccess, TypeOK, ring, history
<1>7. CASE WriteAccessFails
  <2>1. /\ UNCHANGED <<entries, head, tail, shutdown, not_empty, not_full, msg, next>>
        /\ UNCHANGED <<written, owed>> /\ pc[Logger] = "access"
        /\ pc' = [pc EXCEPT ![Logger] = "warn"] /\ batch' = << >>
    BY <1>7 DEF WriteAccessFails, ring
  <2>2. spoiled' \in BOOLEAN
    BY <1>7, Zenon DEF WriteAccessFails, TypeOK, Has
  <2>3. batch' \in Seq(Messages) /\ Len(batch') <= Batch
    BY <2>1, LogAssumption
  <2>4. /\ pc' \in [Threads -> {"idle", "wait", "grab", "access", "event", "warn", "exit"}]
        /\ not_full' \subseteq {u \in Threads : pc'[u] = "wait"}
        /\ ~not_empty'
    BY <2>1 DEF TypeOK
  <2> QED
    BY <2>1, <2>2, <2>3, <2>4 DEF TypeOK
<1>8. ASSUME NEW then \in {"grab", "warn"}, pc[Logger] = "event",
             pc' = [pc EXCEPT ![Logger] = then], SettleBatch,
             UNCHANGED <<ring, shutdown, not_empty, not_full, msg, next, written, spoiled>>
      PROVE  TypeOK'
  <2>1. UNCHANGED <<entries, head, tail, shutdown, not_empty, not_full, msg, next>>
        /\ UNCHANGED <<written, spoiled>>
    BY <1>8 DEF ring
  <2>2. owed' \in Seq(Messages) /\ batch' \in Seq(Messages) /\ Len(batch') <= Batch
    BY <1>8, SettleType, LogAssumption
  <2>3. /\ pc' \in [Threads -> {"idle", "wait", "grab", "access", "event", "warn", "exit"}]
        /\ not_full' \subseteq {u \in Threads : pc'[u] = "wait"}
        /\ ~not_empty'
    <3>1. /\ pc[Logger] = "event" /\ UNCHANGED <<not_full, not_empty>>
          /\ \/ pc' = [pc EXCEPT ![Logger] = "grab"]
             \/ pc' = [pc EXCEPT ![Logger] = "warn"]
      BY <1>8, <2>1
    <3> QED
      BY <3>1 DEF TypeOK
  <2> QED
    BY <2>1, <2>2, <2>3 DEF TypeOK
<1>9. CASE WriteEvent
  BY <1>8, <1>9 DEF WriteEvent
<1>10. CASE WriteEventFails
  BY <1>8, <1>10 DEF WriteEventFails
<1>11. CASE Warn
  <2> DEFINE m == [from |-> Logger, n |-> 0, target |-> "event"]
  <2>1. m \in Messages
    BY NewMessages
  <2>2. pc[Logger] \in {"idle", "warn"} /\ Write(Logger, m)
        /\ written' \in [Producers -> 0 .. MaxWrites]
    BY <1>11 DEF Warn, TypeOK
  <2> HIDE DEF m
  <2> QED
    BY <1>t, <2>1, <2>2, WriteType, Zenon
<1>12. CASE Shutdown
  BY <1>12 DEF Shutdown, TypeOK, ring, history
<1>13. ASSUME NEW t \in Threads, SpuriousWakeup(t) PROVE TypeOK'
  <2>1. UNCHANGED <<entries, head, tail, shutdown, pc, msg, next, batch, written, owed, spoiled>>
    BY <1>13 DEF SpuriousWakeup, ring, history
  <2>2. not_full' \subseteq not_full
    BY <1>13 DEF SpuriousWakeup
  <2>3. not_empty' \in BOOLEAN /\ (not_empty' => not_empty)
    BY <1>13, Zenon DEF SpuriousWakeup, TypeOK
  <2> QED
    BY <2>1, <2>2, <2>3 DEF TypeOK
<1>14. CASE UNCHANGED vars
  BY <1>14 DEF vars, TypeOK, ring, history
<1> QED
  BY <1>t, <1>1, <1>2, <1>3, <1>4, <1>5, <1>6, <1>7, <1>9, <1>10, <1>11, <1>12, <1>13, <1>14
     DEF Next, LoggerStep

LEMMA StoreWrites ==
  ASSUME TypeOK, SlotsWritten, NEW t \in Threads, NEW m \in Messages, NEW nextTail \in Slots,
         Store(t, m, nextTail), pc[t] = "wait" \/ nextTail = After(tail)
  PROVE  SlotsWritten'
<1>1. /\ head \in 0 .. Size - 1 /\ tail \in 0 .. Size - 1 /\ Size \in Nat /\ head' = head
      /\ entries' = [entries EXCEPT ![tail] = m] /\ entries'[tail] = m
      /\ \A i \in Slots \ {tail} : entries'[i] = entries[i]
      /\ tail' = nextTail
  BY LogAssumption DEF TypeOK, Slots, Store
<1>2. \A u \in Threads : pc'[u] = "wait" => pc[u] = "wait" /\ next'[u] = next[u]
  BY DEF Store, Return, TypeOK
<1>3. CASE \A i \in Slots \ {tail} : entries[i] \in Messages
  <2>1. \A i \in Slots : entries'[i] \in Messages
    BY <1>1, <1>3
  <2> QED
    BY <2>1 DEF SlotsWritten
<1>4. CASE /\ head <= tail /\ \A i \in 0 .. tail - 1 : entries[i] \in Messages
           /\ \A u \in Threads : pc[u] = "wait" => next[u] = 0 /\ tail = Size - 1
  <2>1. CASE tail = Size - 1
    BY <1>1, <1>3, <1>4, <2>1 DEF Slots
  <2>2. CASE tail # Size - 1
    <3>1. nextTail = tail + 1
      BY <1>1, <1>4, <2>2, Indices DEF Slots
    <3>2. head' <= tail' /\ \A i \in 0 .. tail' - 1 : entries'[i] \in Messages
      BY <1>1, <1>4, <3>1 DEF Slots
    <3>3. \A u \in Threads : pc'[u] # "wait"
      BY <1>2, <1>4, <2>2
    <3> QED
      BY <3>2, <3>3 DEF SlotsWritten
  <2> QED
    BY <2>1, <2>2
<1> QED
  BY <1>3, <1>4 DEF SlotsWritten

(* Nothing is taken out or stored, and nobody starts to wait.              *)
LEMMA SlotsKept ==
  ASSUME SlotsWritten, UNCHANGED ring,
         \A t \in Threads : pc'[t] = "wait" => pc[t] = "wait" /\ next'[t] = next[t]
  PROVE  SlotsWritten'
<1>1. UNCHANGED <<entries, head, tail>>
  BY DEF ring
<1> QED
  BY <1>1 DEF SlotsWritten

LEMMA WriteWrites ==
  ASSUME TypeOK, SlotsWritten, NEW t \in Threads, NEW m \in Messages, Write(t, m)
  PROVE  SlotsWritten'
<1>1. /\ head \in 0 .. Size - 1 /\ tail \in 0 .. Size - 1 /\ Size \in Nat
      /\ After(tail) = (IF tail = Size - 1 THEN 0 ELSE tail + 1) /\ After(tail) \in Slots
  BY LogAssumption, Indices DEF TypeOK, Slots
<1>2. CASE Store(t, m, After(tail))
  BY <1>1, <1>2, StoreWrites
<1>3. CASE Return(t) /\ UNCHANGED ring
  <2>1. \A u \in Threads : pc'[u] = "wait" => pc[u] = "wait" /\ next'[u] = next[u]
    BY <1>3 DEF Return, TypeOK
  <2> QED
    BY <1>3, <2>1, SlotsKept
<1>4. CASE /\ After(tail) = head /\ UNCHANGED ring
           /\ pc' = [pc EXCEPT ![t] = "wait"] /\ next' = [next EXCEPT ![t] = After(tail)]
  <2>1. UNCHANGED <<entries, head, tail>>
    BY <1>4 DEF ring
  <2>2. head <= tail => tail = Size - 1 /\ After(tail) = 0
    BY <1>1, <1>4
  <2>3. \A u \in Threads : pc'[u] = "wait" =>
           \/ pc[u] = "wait" /\ next'[u] = next[u]
           \/ next'[u] = After(tail)
    BY <1>4 DEF TypeOK
  <2> QED
    BY <2>1, <2>2, <2>3 DEF SlotsWritten
<1> QED
  BY <1>2, <1>3, <1>4 DEF Write

LEMMA SlotsStep ==
  ASSUME TypeOK, SlotsWritten, Waiting, [Next]_vars
  PROVE  SlotsWritten'
<1>t. Logger \in Threads /\ Producers \subseteq Threads
  BY DEF Threads
<1>1. ASSUME NEW p \in Producers, NEW target \in {"access", "event"}, LogWrite(p, target)
      PROVE  SlotsWritten'
  BY <1>1, <1>t, NewMessages, WriteWrites DEF LogWrite
<1>2. ASSUME NEW t \in Threads, Resume(t) PROVE SlotsWritten'
  <2>1. CASE Store(t, msg[t], next[t])
    <3>1. pc[t] = "wait" /\ msg[t] \in Messages /\ next[t] \in Slots
      BY <1>2 DEF Resume, Waiting, TypeOK
    <3> QED
      BY <2>1, <3>1, StoreWrites
  <2>2. CASE Return(t) /\ UNCHANGED ring
    <3>1. \A u \in Threads : pc'[u] = "wait" => pc[u] = "wait" /\ next'[u] = next[u]
      BY <2>2 DEF Return, TypeOK
    <3> QED
      BY <2>2, <3>1, SlotsKept
  <2>3. CASE UNCHANGED <<ring, pc, next>>
    BY <2>3, SlotsKept
  <2> QED
    BY <1>2, <2>1, <2>2, <2>3 DEF Resume
<1>3. CASE Grab
  <2>1. PICK n \in 0 .. Count : head' = (IF head + n < Size THEN head + n ELSE head + n - Size)
    BY <1>3, GrabTakes
  <2>2. /\ entries' = entries /\ tail' = tail /\ next' = next
        /\ \A u \in Threads : pc'[u] = "wait" => pc[u] = "wait"
    BY <1>3, <1>t DEF Grab, TypeOK
  <2>3. head <= tail => head' <= tail
    <3>1. /\ head \in 0 .. Size - 1 /\ tail \in 0 .. Size - 1 /\ Size \in Nat
          /\ Count = IF head <= tail THEN tail - head ELSE tail - head + Size
      BY Indices, LogAssumption DEF TypeOK, Slots
    <3> QED
      BY <2>1, <3>1
  <2> QED
    BY <2>2, <2>3 DEF SlotsWritten
<1>4. CASE Warn
  BY <1>4, <1>t, NewMessages, WriteWrites DEF Warn
<1>5. CASE \/ LoggerSleep \/ LoggerExit \/ WriteAccess \/ WriteAccessFails
           \/ WriteEvent \/ WriteEventFails \/ Shutdown
           \/ (\E t \in Threads : SpuriousWakeup(t)) \/ UNCHANGED vars
  <2>1. UNCHANGED <<ring, next>>
    BY <1>5 DEF LoggerSleep, LoggerExit, WriteAccess, WriteAccessFails, WriteEvent,
                WriteEventFails, Shutdown, SpuriousWakeup, vars
  <2>2. \A u \in Threads : pc'[u] = "wait" => pc[u] = "wait"
    BY <1>5, <1>t DEF LoggerSleep, LoggerExit, WriteAccess, WriteAccessFails, WriteEvent,
                WriteEventFails, Shutdown, SpuriousWakeup, vars, TypeOK
  <2> QED
    BY <2>1, <2>2, SlotsKept
<1> QED
  BY <1>t, <1>1, <1>2, <1>3, <1>4, <1>5 DEF Next, LoggerStep

-----------------------------------------------------------------------------
(***************************************************************************)
(* What a blocked writer holds, and when the batch is empty.               *)
(***************************************************************************)
LEMMA WaitingStep ==
  ASSUME TypeOK, Waiting, [Next]_vars
  PROVE  Waiting'
<1>t. Logger \in Threads /\ Producers \subseteq Threads /\ Logger \notin Producers
  BY LogAssumption DEF Threads
<1> SUFFICES ASSUME NEW u \in Threads, pc'[u] = "wait"
             PROVE  /\ msg'[u] \in Messages /\ msg'[u].from = u /\ msg'[u].target = "event"
                    /\ u \in Producers => msg'[u].n < written'[u]
  BY DEF Waiting
<1>k. ASSUME pc[u] = "wait", msg'[u] = msg[u],
             u \in Producers => written'[u] \in Nat /\ written[u] <= written'[u]
      PROVE  /\ msg'[u] \in Messages /\ msg'[u].from = u /\ msg'[u].target = "event"
             /\ u \in Producers => msg'[u].n < written'[u]
  <2>1. /\ msg[u] \in Messages /\ msg[u].from = u /\ msg[u].target = "event"
        /\ u \in Producers => msg[u].n < written[u]
    BY <1>k DEF Waiting
  <2>2. msg[u].n \in Nat
    BY <2>1, LogAssumption DEF Messages
  <2>3. u \in Producers => written[u] \in Nat
    BY LogAssumption DEF TypeOK
  <2> QED
    BY <1>k, <2>1, <2>2, <2>3
<1>r. \A p \in Producers : written[p] \in Nat
  BY LogAssumption DEF TypeOK
<1>1. ASSUME NEW p \in Producers, NEW target \in {"access", "event"}, LogWrite(p, target)
      PROVE  /\ msg'[u] \in Messages /\ msg'[u].from = u /\ msg'[u].target = "event"
             /\ u \in Producers => msg'[u].n < written'[u]
  <2> DEFINE m == [from |-> p, n |-> written[p], target |-> target]
  <2>1. m \in Messages /\ m.from = p /\ m.n = written[p] /\ m.target = target
    BY NewMessages
  <2>2. /\ written' = [written EXCEPT ![p] = @ + 1] /\ Write(p, m) /\ pc[p] = "idle"
    BY <1>1 DEF LogWrite
  <2>3. written'[p] = written[p] + 1
        /\ \A q \in Producers : written'[q] \in Nat /\ written[q] <= written'[q]
    BY <2>2, <1>r DEF TypeOK
  <2> HIDE DEF m
  <2>4. CASE u # p
    <3>1. pc[u] = "wait" /\ msg'[u] = msg[u]
      BY <2>2, <2>4, <1>t DEF Write, Store, Return, TypeOK
    <3> QED
      BY <1>k, <2>3, <3>1
  <2>5. CASE u = p
    <3>1. target = "event" /\ msg'[u] = m
      BY <2>1, <2>2, <2>5, <1>t DEF Write, Store, Return, TypeOK
    <3> QED
      BY <1>r, <2>1, <2>3, <2>5, <3>1
  <2> QED
    BY <2>4, <2>5
<1>2. ASSUME NEW t \in Threads, Resume(t)
      PROVE  pc[u] = "wait" /\ msg'[u] = msg[u] /\ written' = written
  BY <1>2 DEF Resume, Store, Return, TypeOK
<1>3. CASE Warn
  <2> DEFINE m == [from |-> Logger, n |-> 0, target |-> "event"]
  <2>1. m \in Messages /\ m.from = Logger /\ m.target = "event"
    BY NewMessages
  <2>2. Write(Logger, m) /\ written' = written
    BY <1>3 DEF Warn
  <2> HIDE DEF m
  <2>3. CASE u = Logger
    <3>1. msg'[u] = m
      BY <2>2, <2>3, <1>t DEF Write, Store, Return, TypeOK
    <3> QED
      BY <2>1, <2>3, <3>1, <1>t
  <2>4. CASE u # Logger
    <3>1. pc[u] = "wait" /\ msg'[u] = msg[u]
      BY <2>2, <2>4, <1>t DEF Write, Store, Return, TypeOK
    <3> QED
      BY <1>k, <1>r, <2>2, <3>1
  <2> QED
    BY <2>3, <2>4
<1>4. CASE \/ LoggerSleep \/ LoggerExit \/ Grab \/ WriteAccess \/ WriteAccessFails
           \/ WriteEvent \/ WriteEventFails \/ Shutdown
           \/ (\E t \in Threads : SpuriousWakeup(t)) \/ UNCHANGED vars
  <2>1. pc[u] = "wait" /\ msg'[u] = msg[u] /\ written' = written
    BY <1>4, <1>t DEF LoggerSleep, LoggerExit, Grab, WriteAccess, WriteAccessFails,
            WriteEvent, WriteEventFails, Shutdown, SpuriousWakeup, vars, history, TypeOK
  <2> QED
    BY <1>k, <1>r, <2>1
<1>5. ASSUME pc[u] = "wait", msg'[u] = msg[u], written' = written
      PROVE  /\ msg'[u] \in Messages /\ msg'[u].from = u /\ msg'[u].target = "event"
             /\ u \in Producers => msg'[u].n < written'[u]
  BY <1>k, <1>r, <1>5
<1>6. ASSUME NEW t \in Threads, Resume(t)
      PROVE  /\ msg'[u] \in Messages /\ msg'[u].from = u /\ msg'[u].target = "event"
             /\ u \in Producers => msg'[u].n < written'[u]
  BY <1>2, <1>5, <1>6
<1> QED
  BY <1>t, <1>1, <1>3, <1>4, <1>6 DEF Next, LoggerStep

LEMMA BatchStep ==
  ASSUME TypeOK, BatchInUse, [Next]_vars
  PROVE  BatchInUse'
<1>t. Logger \in Threads /\ Producers \subseteq Threads /\ Logger \notin Producers
  BY LogAssumption DEF Threads
<1>1. ASSUME NEW p \in Producers, NEW target \in {"access", "event"}, LogWrite(p, target)
      PROVE  pc'[Logger] = pc[Logger] /\ batch' = batch
  BY <1>1, <1>t DEF LogWrite, Write, Store, Return, TypeOK
<1>2. ASSUME NEW p \in Producers, Resume(p)
      PROVE  pc'[Logger] = pc[Logger] /\ batch' = batch
  BY <1>2, <1>t DEF Resume, Store, Return, TypeOK
<1>3. CASE Warn \/ Resume(Logger) \/ LoggerExit
  BY <1>3 DEF Warn, Write, Resume, LoggerExit, BatchInUse
<1>4. CASE Grab \/ WriteAccess
  BY <1>4, <1>t DEF Grab, WriteAccess, BatchInUse, TypeOK
<1>5. CASE WriteAccessFails \/ WriteEvent \/ WriteEventFails
  BY <1>5 DEF WriteAccessFails, WriteEvent, WriteEventFails, SettleBatch, BatchInUse
<1>6. CASE \/ LoggerSleep \/ Shutdown
           \/ (\E t \in Threads : SpuriousWakeup(t)) \/ UNCHANGED vars
  BY <1>6 DEF LoggerSleep, Shutdown, SpuriousWakeup, vars, BatchInUse
<1> QED
  BY <1>1, <1>2, <1>3, <1>4, <1>5, <1>6 DEF Next, LoggerStep, BatchInUse

-----------------------------------------------------------------------------
(***************************************************************************)
(* Nobody sleeps who should be awake.                                      *)
(***************************************************************************)
LEMMA WriteWakes ==
  ASSUME TypeOK, WakeupsReachLogger, NEW t \in Threads, NEW m, Write(t, m)
  PROVE  WakeupsReachLogger'
<1>1. CASE Store(t, m, After(tail))
  BY <1>1 DEF Write, Store, WakeupsReachLogger
<1>2. CASE Return(t) /\ UNCHANGED <<ring, not_empty, not_full, owed, spoiled>>
  BY <1>2 DEF Write, ring, WakeupsReachLogger
<1>3. CASE ~shutdown /\ UNCHANGED <<ring, not_empty>>
  BY <1>3 DEF Write, ring, WakeupsReachLogger
<1> QED
  BY <1>1, <1>2, <1>3 DEF Write

LEMMA WakeupsStep ==
  ASSUME TypeOK, WakeupsReachLogger, [Next]_vars
  PROVE  WakeupsReachLogger'
<1>t. Logger \in Threads /\ Producers \subseteq Threads
  BY DEF Threads
<1>1. ASSUME NEW p \in Producers, NEW target \in {"access", "event"}, LogWrite(p, target)
      PROVE  WakeupsReachLogger'
  BY <1>1, <1>t, WriteWakes DEF LogWrite
<1>2. CASE Warn
  BY <1>2, <1>t, WriteWakes DEF Warn
<1>3. ASSUME NEW t \in Threads, Resume(t) PROVE WakeupsReachLogger'
  <2>1. CASE Store(t, msg[t], next[t])
    BY <1>3, <2>1 DEF Resume, Store, WakeupsReachLogger
  <2>2. CASE UNCHANGED <<ring, not_empty, not_full>>
    BY <1>3, <2>2 DEF Resume, ring, WakeupsReachLogger
  <2>3. CASE ~shutdown /\ UNCHANGED <<ring, not_empty>>
    BY <1>3, <2>3 DEF Resume, ring, WakeupsReachLogger
  <2> QED
    BY <1>3, <2>1, <2>2, <2>3 DEF Resume
<1>4. CASE Grab \/ LoggerSleep
  BY <1>4 DEF Grab, LoggerSleep, ring, WakeupsReachLogger
<1>5. CASE Shutdown
  BY <1>5 DEF Shutdown, ring, WakeupsReachLogger
<1>7. ASSUME NEW t \in Threads, SpuriousWakeup(t) PROVE WakeupsReachLogger'
  <2>1. /\ UNCHANGED <<head, tail, shutdown>>
        /\ not_empty' => not_empty
        /\ not_full' \subseteq not_full
    BY <1>7, Zenon DEF SpuriousWakeup, ring
  <2> QED
    BY <2>1 DEF WakeupsReachLogger
<1>6. CASE \/ LoggerExit \/ WriteAccess \/ WriteAccessFails \/ WriteEvent \/ WriteEventFails
           \/ UNCHANGED vars
  BY <1>6 DEF LoggerExit, WriteAccess, WriteAccessFails, WriteEvent, WriteEventFails, vars,
              ring, WakeupsReachLogger
<1> QED
  BY <1>t, <1>1, <1>2, <1>3, <1>4, <1>5, <1>6, <1>7 DEF Next, LoggerStep

-----------------------------------------------------------------------------
(***************************************************************************)
(* No event message is owed twice.                                         *)
(***************************************************************************)
(* The numbers of the messages a producer has written only grow, and a     *)
(* producer that starts to wait does so with a new message.                *)
Growing ==
  \A p \in Producers :
    /\ written'[p] \in Nat /\ written[p] <= written'[p]
    /\ pc'[p] = "wait" => \/ pc[p] = "wait" /\ msg'[p] = msg[p]
                          \/ msg'[p].n = written[p]

LEMMA OwedKept ==
  ASSUME TypeOK, OwedOnce, Growing, IsInjective(owed'), Range(owed') \subseteq Range(owed)
  PROVE  OwedOnce'
<1> SUFFICES ASSUME NEW m \in Range(owed')
             PROVE  /\ m \in Events /\ m.n < written'[m.from]
                    /\ pc'[m.from] = "wait" => m.n < msg'[m.from].n
  BY DEF OwedOnce
<1>1. /\ m \in Events /\ m.n < written[m.from]
      /\ pc[m.from] = "wait" => m.n < msg[m.from].n
  BY DEF OwedOnce
<1>2. m.from \in Producers /\ m.n \in Nat /\ written[m.from] \in Nat
  BY <1>1, LogAssumption DEF Events, TypeOK
<1> QED
  BY <1>1, <1>2 DEF Growing

LEMMA OwedStored ==
  ASSUME TypeOK, OwedOnce, Growing, NEW p \in Producers, NEW m \in Events, m.from = p,
         m \notin Range(owed), owed' = Append(owed, m), m.n < written'[p], pc'[p] # "wait"
  PROVE  OwedOnce'
<1>1. owed \in Seq(Messages) /\ m \in Messages
  BY DEF TypeOK, Events, Messages, Threads
<1>2. IsInjective(owed)
  BY DEF OwedOnce
<1>3. IsInjective(owed')
  BY <1>1, <1>2, AppendIsInjective
<1>4. Range(owed') = Range(owed) \cup {m}
  BY <1>1, RangeAppend
<1>5. ASSUME NEW x \in Range(owed)
      PROVE  /\ x \in Events /\ x.n < written'[x.from]
             /\ pc'[x.from] = "wait" => x.n < msg'[x.from].n
  <2>1. /\ x \in Events /\ x.n < written[x.from]
        /\ pc[x.from] = "wait" => x.n < msg[x.from].n
    BY DEF OwedOnce
  <2>2. x.from \in Producers /\ x.n \in Nat /\ written[x.from] \in Nat
    BY <2>1, LogAssumption DEF Events, TypeOK
  <2> QED
    BY <2>1, <2>2 DEF Growing
<1> QED
  BY <1>3, <1>4, <1>5 DEF OwedOnce

(* The messages of producers: new ones are not owed yet.                   *)
LEMMA FreshMessage ==
  ASSUME TypeOK, Waiting, OwedOnce, NEW p \in Producers
  PROVE  /\ \A m : m.from = p /\ m.n = written[p] => m \notin Range(owed)
         /\ pc[p] = "wait" => msg[p] \notin Range(owed)
<1>1. \A m \in Range(owed) :
        /\ m.n \in Nat /\ m.n < written[m.from]
        /\ pc[m.from] = "wait" => m.n < msg[m.from].n
  BY LogAssumption DEF OwedOnce, Events
<1>2. ASSUME NEW m \in Range(owed), m.from = p PROVE m.n # written[p]
  BY <1>1, <1>2
<1>3. ASSUME pc[p] = "wait", msg[p] \in Range(owed) PROVE FALSE
  <2>1. msg[p].from = p
    BY <1>3 DEF Waiting, Threads
  <2> QED
    BY <1>1, <1>3, <2>1
<1> QED
  BY <1>2, <1>3

LEMMA OwedStep ==
  ASSUME TypeOK, Waiting, OwedOnce, [Next]_vars
  PROVE  OwedOnce'
<1>t. Logger \in Threads /\ Producers \subseteq Threads /\ Logger \notin Producers
  BY LogAssumption DEF Threads
<1>r. \A p \in Producers : written[p] \in Nat
  BY LogAssumption DEF TypeOK
<1>i. IsInjective(owed)
  BY DEF OwedOnce
<1>1. ASSUME NEW p \in Producers, NEW target \in {"access", "event"}, LogWrite(p, target)
      PROVE  OwedOnce'
  <2> DEFINE m == [from |-> p, n |-> written[p], target |-> target]
  <2>1. m \in Messages /\ m.from = p /\ m.n = written[p] /\ m.target = target
    BY NewMessages
  <2>2. m.target = "event" => m \in Events
    BY <2>1 DEF Events, Messages
  <2>3. written' = [written EXCEPT ![p] = @ + 1] /\ Write(p, m) /\ pc[p] = "idle"
    BY <1>1 DEF LogWrite
  <2>4. m.n < written'[p] /\ \A q \in Producers : written'[q] \in Nat /\ written[q] <= written'[q]
    BY <2>1, <2>3, <1>r DEF TypeOK
  <2> HIDE DEF m
  <2>5. m \notin Range(owed)
    BY <2>1, FreshMessage
  <2>6. \A q \in Producers :
          pc'[q] = "wait" => \/ pc[q] = "wait" /\ msg'[q] = msg[q]
                             \/ msg'[q].n = written[q]
    BY <2>1, <2>3, <1>t DEF Write, Store, Return, TypeOK
  <2>7. Growing
    BY <2>4, <2>6 DEF Growing
  <2>8. CASE owed' = owed
    BY <2>7, <2>8, <1>i, OwedKept
  <2>9. CASE owed' = Append(owed, m) /\ m.target = "event" /\ pc'[p] # "wait"
    BY <2>1, <2>2, <2>4, <2>5, <2>7, <2>9, OwedStored
  <2> QED
    BY <2>3, <2>8, <2>9, <1>t DEF Write, Store, Return, TypeOK
<1>2. ASSUME NEW p \in Producers, Resume(p) PROVE OwedOnce'
  <2>1. /\ pc[p] = "wait" /\ msg[p] \in Messages /\ msg[p].from = p
        /\ msg[p].target = "event" /\ msg[p].n < written[p]
    BY <1>2, <1>t DEF Resume, Waiting
  <2>2. Growing
    BY <1>2, <1>t, <1>r DEF Resume, Store, Return, TypeOK, Growing
  <2>3. msg[p] \in Events /\ msg[p] \notin Range(owed) /\ msg[p].n < written'[p]
    BY <1>2, <2>1, FreshMessage DEF Resume, Events, Messages
  <2>4. CASE owed' = owed
    BY <2>2, <2>4, <1>i, OwedKept
  <2>5. CASE owed' = Append(owed, msg[p]) /\ pc'[p] # "wait"
    BY <2>1, <2>2, <2>3, <2>5, OwedStored
  <2> QED
    BY <1>2, <1>t, <2>1, <2>4, <2>5 DEF Resume, Store, Return, TypeOK
<1>3. CASE Warn \/ Resume(Logger)
  <2>1. Growing
    BY <1>3, <1>t, <1>r DEF Warn, Write, Resume, Store, Return, TypeOK, Growing
  <2>2. owed' = owed
    BY <1>3 DEF Warn, Write, Resume, Store
  <2> QED
    BY <2>1, <2>2, <1>i, OwedKept
<1>4. CASE WriteEvent \/ WriteEventFails
  <2>1. Growing
    BY <1>4, <1>t, <1>r DEF WriteEvent, WriteEventFails, TypeOK, Growing
  <2>2. owed' = Select(owed, Messages \ ToSet(batch)) /\ owed \in Seq(Messages)
    BY <1>4 DEF WriteEvent, WriteEventFails, SettleBatch, TypeOK
  <2>3. IsInjective(owed')
    BY <2>2, <1>i, SelectInjective
  <2>4. Range(owed') \subseteq Range(owed)
    BY <2>2, SelectRange
  <2> QED
    BY <2>1, <2>3, <2>4, OwedKept
<1>5. CASE \/ LoggerSleep \/ LoggerExit \/ Grab \/ WriteAccess \/ WriteAccessFails
           \/ Shutdown \/ (\E t \in Threads : SpuriousWakeup(t)) \/ UNCHANGED vars
  <2>1. owed' = owed /\ written' = written /\ msg' = msg
    BY <1>5 DEF LoggerSleep, LoggerExit, Grab, WriteAccess, WriteAccessFails,
            Shutdown, SpuriousWakeup, vars, history
  <2>2. \A p \in Producers : pc'[p] = pc[p]
    BY <1>5, <1>t DEF LoggerSleep, LoggerExit, Grab, WriteAccess, WriteAccessFails,
            Shutdown, SpuriousWakeup, vars, TypeOK
  <2>3. Growing
    BY <2>1, <2>2, <1>r DEF Growing
  <2> QED
    BY <2>1, <2>3, <1>i, OwedKept
<1> QED
  BY <1>1, <1>2, <1>3, <1>4, <1>5 DEF Next, LoggerStep

-----------------------------------------------------------------------------
(***************************************************************************)
(* The event messages owed are those of the batch and of the ring.         *)
(***************************************************************************)
LEMMA EmptyConcat ==
  ASSUME NEW S, NEW s \in Seq(S)
  PROVE  << >> \o s = s
OBVIOUS

LEMMA ConcatAppend ==
  ASSUME NEW S, NEW s \in Seq(S), NEW t \in Seq(S), NEW x \in S
  PROVE  s \o Append(t, x) = Append(s \o t, x) /\ s \o t \in Seq(S)
OBVIOUS

LEMMA ConcatApart ==
  ASSUME NEW S, NEW s \in Seq(S), NEW t \in Seq(S), IsInjective(s \o t)
  PROVE  Range(s) \cap Range(t) = {}
<1> SUFFICES ASSUME NEW i \in DOMAIN s, NEW j \in DOMAIN t, s[i] = t[j] PROVE FALSE
  BY DEF Range
<1>1. /\ i \in 1 .. Len(s) /\ j \in 1 .. Len(t) /\ Len(s) \in Nat /\ Len(t) \in Nat
      /\ s \o t \in Seq(S) /\ DOMAIN (s \o t) = 1 .. Len(s) + Len(t)
  OBVIOUS
<1>2. i \in DOMAIN (s \o t) /\ Len(s) + j \in DOMAIN (s \o t) /\ i # Len(s) + j
  BY <1>1
<1>3. (s \o t)[i] = s[i] /\ (s \o t)[Len(s) + j] = t[j]
  BY <1>1
<1> QED
  BY <1>2, <1>3 DEF IsInjective

(* Store: one more message in the ring, owed if it is an event.            *)
LEMMA EventsStored ==
  ASSUME TypeOK, SlotsWritten, EventsAccounted, NEW t \in Threads,
         NEW m \in Messages, m.from = t, NEW nextTail, nextTail # head,
         Store(t, m, nextTail), batch' = batch
  PROVE  EventsAccounted'
<1> SUFFICES ASSUME ~spoiled' PROVE owed' = EventsOf(batch \o Queued')
  BY DEF EventsAccounted
<1>1. ~spoiled /\ nextTail = After(tail)
  BY DEF Store
<1>2. owed = Select(batch \o Queued, Events)
  BY <1>1 DEF EventsAccounted, EventsOf
<1>3. Queued' = Append(Queued, m)
  BY <1>1, QueuedStored DEF Store
<1>4. Queued \in Seq(Messages) /\ batch \in Seq(Messages)
  BY QueuedType DEF TypeOK
<1>5. batch \o Append(Queued, m) = Append(batch \o Queued, m) /\ batch \o Queued \in Seq(Messages)
  BY <1>4, ConcatAppend, Zenon
<1> DEFINE s == batch \o Queued
<1>s. s \in Seq(Messages) /\ m \in Messages
  BY <1>5
<1>e. batch \o Queued' = Append(s, m) /\ owed = Select(s, Events)
  BY <1>2, <1>3, <1>5
<1> HIDE DEF s
<1>6. Select(Append(s, m), Events) =
        IF m \in Events THEN Append(Select(s, Events), m) ELSE Select(s, Events)
  <2>1. \A v \in Seq(Messages) : \A x \in Messages :
          Select(Append(v, x), Events) =
            IF x \in Events THEN Append(Select(v, Events), x) ELSE Select(v, Events)
    BY SelectAppend, Zenon
  <2> QED
    BY <1>s, <2>1
<1>7. m \in Events <=> m.target = "event" /\ t # Logger
  BY LogAssumption DEF Events, Messages, Threads
<1>8. owed' = IF m.target = "event" /\ t # Logger THEN Append(owed, m) ELSE owed
  BY DEF Store
<1>9. EventsOf(batch \o Queued') = Select(Append(s, m), Events)
  BY <1>e, Zenon DEF EventsOf
<1> QED
  BY <1>e, <1>6, <1>7, <1>8, <1>9

(* Nothing moves in or out.                                                *)
LEMMA EventsStay ==
  ASSUME EventsAccounted, UNCHANGED <<ring, batch, owed, spoiled>>
  PROVE  EventsAccounted'
<1>1. UNCHANGED <<entries, head, tail, batch, owed, spoiled>>
  BY DEF ring
<1>2. Count' = Count
  BY <1>1 DEF Count
<1>3. Queued' = Queued
  BY <1>1, <1>2 DEF Queued
<1> QED
  BY <1>1, <1>3 DEF EventsAccounted

LEMMA EventsWritten ==
  ASSUME TypeOK, SlotsWritten, EventsAccounted, NEW t \in Threads,
         NEW m \in Messages, m.from = t, Write(t, m)
  PROVE  EventsAccounted'
<1>1. batch' = batch
  BY DEF Write
<1>2. CASE After(tail) # head /\ Store(t, m, After(tail))
  BY <1>1, <1>2, EventsStored
<1>3. CASE UNCHANGED <<ring, owed, spoiled>>
  BY <1>1, <1>3, EventsStay
<1> QED
  BY <1>2, <1>3 DEF Write

(* A batch moves from the ring into the array.                             *)
LEMMA EventsGrabbed ==
  ASSUME TypeOK, SlotsWritten, BatchInUse, EventsAccounted, Grab
  PROVE  EventsAccounted'
<1>1. batch' \o Queued' = Queued
  BY GrabTakes
<1>2. batch \o Queued = Queued
  <2>1. batch = << >> /\ Queued \in Seq(Messages)
    BY QueuedType DEF Grab, BatchInUse
  <2> QED
    BY <2>1, EmptyConcat
<1>3. owed' = owed /\ spoiled' = spoiled
  BY DEF Grab, history
<1> QED
  BY <1>1, <1>2, <1>3, Zenon DEF EventsAccounted, EventsOf

(* What is owed is what the batch holds, then what the ring holds.         *)
LEMMA EventsSplit ==
  ASSUME TypeOK, SlotsWritten, EventsAccounted, ~spoiled
  PROVE  owed = Select(batch, Events) \o Select(Queued, Events)
<1>1. Queued \in Seq(Messages) /\ batch \in Seq(Messages)
  BY QueuedType DEF TypeOK
<1>2. Select(batch \o Queued, Events) = Select(batch, Events) \o Select(Queued, Events)
  BY <1>1, SelectConcat, Zenon
<1> QED
  BY <1>2 DEF EventsAccounted, EventsOf

LEMMA QueuedSame ==
  ASSUME UNCHANGED ring
  PROVE  Queued' = Queued
<1>1. UNCHANGED <<entries, head, tail>>
  BY DEF ring
<1>2. Count' = Count
  BY <1>1 DEF Count
<1> QED
  BY <1>1, <1>2 DEF Queued

(* A batch without events is given up.                                     *)
LEMMA EventsSkipped ==
  ASSUME TypeOK, SlotsWritten, EventsAccounted, WriteAccessFails
  PROVE  EventsAccounted'
<1> SUFFICES ASSUME ~spoiled' PROVE owed' = EventsOf(batch' \o Queued')
  BY DEF EventsAccounted
<1>1. ~spoiled /\ ~Has("event") /\ batch' = << >> /\ owed' = owed /\ UNCHANGED ring
  BY DEF WriteAccessFails
<1>2. Queued' = Queued /\ Queued \in Seq(Messages) /\ batch \in Seq(Messages)
  BY <1>1, QueuedSame, QueuedType DEF TypeOK
<1>3. owed = Select(batch, Events) \o Select(Queued, Events)
  BY <1>1, EventsSplit
<1>4. Range(batch) \cap Events = {}
  BY <1>1 DEF Has, Range, Events
<1>5. Select(batch, Events) = << >>
  BY <1>2, <1>4, SelectNone
<1>6. Select(Queued, Events) \in Seq(Messages)
  BY <1>2, SelectType
<1>7. owed = Select(Queued, Events)
  BY <1>3, <1>5, <1>6, EmptyConcat
<1>8. batch' \o Queued' = Queued
  BY <1>1, <1>2, EmptyConcat
<1> QED
  BY <1>1, <1>7, <1>8, Zenon DEF EventsOf

(* The events of the batch are written: the others of the ring are owed.   *)
LEMMA EventsSettled ==
  ASSUME TypeOK, SlotsWritten, OwedOnce, EventsAccounted, SettleBatch,
         UNCHANGED <<ring, spoiled>>
  PROVE  EventsAccounted'
<1> SUFFICES ASSUME ~spoiled PROVE owed' = EventsOf(batch' \o Queued')
  BY DEF EventsAccounted
<1> DEFINE a == Select(batch, Events)
           b == Select(Queued, Events)
           E == Messages \ ToSet(batch)
<1>1. Queued' = Queued /\ Queued \in Seq(Messages) /\ batch \in Seq(Messages)
  BY QueuedSame, QueuedType DEF TypeOK
<1>2. owed = a \o b
  BY EventsSplit
<1>3. a \in Seq(Messages) /\ b \in Seq(Messages)
  BY <1>1, SelectType
<1>4. Range(a) = Range(batch) \cap Events /\ Range(b) = Range(Queued) \cap Events
  BY <1>1, SelectRange
<1>5. owed' = Select(owed, E) /\ batch' = << >>
  BY DEF SettleBatch
<1>6. ToSet(batch) = Range(batch)
  BY DEF ToSet, Range
<1>7. Range(Queued) \subseteq Messages
  BY <1>1 DEF Range
<1>8. IsInjective(owed)
  BY DEF OwedOnce
<1> HIDE DEF a, b, E
<1>9. Range(a) \cap Range(b) = {}
  BY <1>2, <1>3, <1>8, ConcatApart, Zenon
<1>10. Range(a) \cap E = {} /\ Range(b) \subseteq E
  BY <1>4, <1>6, <1>7, <1>9 DEF E
<1>11. Select(a, E) = << >>
  BY <1>3, <1>10, SelectNone
<1>12. Select(b, E) = b
  BY <1>3, <1>10, SelectAll
<1>13. Select(a \o b, E) = Select(a, E) \o Select(b, E)
  BY <1>3, SelectConcat, Zenon
<1>14. << >> \o b = b /\ << >> \o Queued = Queued
  BY <1>1, <1>3, EmptyConcat
<1>15. owed' = b
  BY <1>2, <1>5, <1>11, <1>12, <1>13, <1>14, Zenon
<1> QED
  BY <1>1, <1>5, <1>14, <1>15, Zenon DEF EventsOf, b

LEMMA EventsStep ==
  ASSUME IInv, [Next]_vars
  PROVE  EventsAccounted'
<1>t. Logger \in Threads /\ Producers \subseteq Threads
  BY DEF Threads
<1>i. /\ TypeOK /\ SlotsWritten /\ Waiting /\ BatchInUse /\ OwedOnce /\ EventsAccounted
  BY DEF IInv
<1>1. ASSUME NEW p \in Producers, NEW target \in {"access", "event"}, LogWrite(p, target)
      PROVE  EventsAccounted'
  <2> DEFINE m == [from |-> p, n |-> written[p], target |-> target]
  <2>1. m \in Messages /\ m.from = p /\ Write(p, m)
    BY <1>1, <1>i, NewMessages DEF LogWrite
  <2> HIDE DEF m
  <2> QED
    BY <1>t, <1>i, <2>1, EventsWritten
<1>2. ASSUME NEW t \in Threads, Resume(t) PROVE EventsAccounted'
  <2>1. msg[t] \in Messages /\ msg[t].from = t /\ batch' = batch
    BY <1>2, <1>i DEF Resume, Waiting
  <2>2. CASE next[t] # head /\ Store(t, msg[t], next[t])
    BY <1>i, <2>1, <2>2, EventsStored
  <2>3. CASE UNCHANGED <<ring, owed, spoiled>>
    BY <1>i, <2>1, <2>3, EventsStay
  <2> QED
    BY <1>2, <2>2, <2>3 DEF Resume
<1>3. CASE Warn
  <2> DEFINE m == [from |-> Logger, n |-> 0, target |-> "event"]
  <2>1. m \in Messages /\ m.from = Logger /\ Write(Logger, m)
    BY <1>3, <1>i, NewMessages DEF Warn
  <2> HIDE DEF m
  <2> QED
    BY <1>t, <1>i, <2>1, EventsWritten
<1>4. CASE Grab
  BY <1>4, <1>i, EventsGrabbed
<1>5. CASE WriteAccessFails
  BY <1>5, <1>i, EventsSkipped
<1>6. CASE WriteEvent \/ WriteEventFails
  BY <1>6, <1>i, EventsSettled DEF WriteEvent, WriteEventFails
<1>7. CASE \/ LoggerSleep \/ LoggerExit \/ WriteAccess \/ Shutdown
           \/ (\E t \in Threads : SpuriousWakeup(t)) \/ UNCHANGED vars
  <2>1. UNCHANGED <<ring, batch, owed, spoiled>>
    BY <1>7 DEF LoggerSleep, LoggerExit, WriteAccess, Shutdown, SpuriousWakeup, vars, history
  <2> QED
    BY <1>i, <2>1, EventsStay
<1> QED
  BY <1>t, <1>1, <1>2, <1>3, <1>4, <1>5, <1>6, <1>7 DEF Next, LoggerStep

-----------------------------------------------------------------------------
(***************************************************************************)
(* The theorems.                                                           *)
(***************************************************************************)
LEMMA InitIInv ==
  ASSUME Init
  PROVE  IInv
<1>1. TypeOK
  BY LogAssumption DEF Init, TypeOK, Slots, Threads
<1>2. SlotsWritten /\ Waiting /\ BatchInUse /\ WakeupsReachLogger
  BY LogAssumption DEF Init, SlotsWritten, Waiting, BatchInUse, WakeupsReachLogger, Threads
<1>3. OwedOnce
  BY DEF Init, OwedOnce, IsInjective, Range
<1>4. EventsAccounted
  <2>1. Count = 0
    <3>1. head \in Slots /\ tail \in Slots /\ head = tail /\ head = 0
      BY <1>1 DEF Init, TypeOK
    <3> QED
      BY <3>1, Indices
  <2>2. Queued = << >> /\ batch = << >> /\ owed = << >>
    BY <2>1 DEF Init, Queued
  <2>3. batch \o Queued = << >>
    BY <2>2
  <2>4. Select(<< >>, Events) = << >>
    BY SelectEmpty, Zenon
  <2> QED
    BY <2>2, <2>3, <2>4 DEF EventsAccounted, EventsOf
<1> QED
  BY <1>1, <1>2, <1>3, <1>4 DEF IInv

LEMMA Inductive ==
  ASSUME IInv, [Next]_vars
  PROVE  IInv'
<1>1. TypeOK /\ SlotsWritten /\ Waiting /\ BatchInUse /\ OwedOnce /\ WakeupsReachLogger
  BY DEF IInv
<1>2. TypeOK' /\ SlotsWritten' /\ Waiting' /\ BatchInUse' /\ OwedOnce' /\ WakeupsReachLogger'
  BY <1>1, TypeStep, SlotsStep, WaitingStep, BatchStep, OwedStep, WakeupsStep
<1>3. EventsAccounted'
  BY EventsStep
<1> QED
  BY <1>2, <1>3 DEF IInv

LEMMA Invariance == Spec => []IInv
<1>1. Init => IInv
  BY InitIInv
<1>2. IInv /\ [Next]_vars => IInv'
  BY Inductive
<1> QED
  BY <1>1, <1>2, PTL DEF Spec

(***************************************************************************)
(* TypeCorrect (log_write, logger_thread): head, tail and every next_tail  *)
(* index a slot of the ring, a batch fits its array, and the logger takes  *)
(* out only slots that were written, though an outdated next_tail may set  *)
(* the tail anywhere.                                                      *)
(***************************************************************************)
THEOREM TypeCorrect == Spec => []TypeOK
<1>1. IInv => TypeOK
  BY DEF IInv
<1> QED
  BY <1>1, Invariance, PTL

(***************************************************************************)
(* EventsInOrder (log_write, logger_thread): until a message is stored with*)
(* an outdated next_tail or the events of a batch are skipped, the event   *)
(* messages accepted and not yet written are those of the batch and then   *)
(* those of the ring, each once and in the order they were accepted.       *)
(***************************************************************************)
THEOREM EventsInOrder == Spec => []EventsAccounted
<1>1. IInv => EventsAccounted
  BY DEF IInv
<1> QED
  BY <1>1, Invariance, PTL

(***************************************************************************)
(* NobodyOverslept (log_write, logger_thread, logger_shutdown): the logger *)
(* sleeps only beside an empty ring and never through a shutdown, and no   *)
(* writer sleeps through a shutdown.                                       *)
(***************************************************************************)
THEOREM NobodyOverslept == Spec => []WakeupsReachLogger
<1>1. IInv => WakeupsReachLogger
  BY DEF IInv
<1> QED
  BY <1>1, Invariance, PTL

=============================================================================
