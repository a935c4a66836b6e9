-------------------------- MODULE WorkQueue_proofs --------------------------
(***************************************************************************)
(* Theorems about WorkQueue, for every number of threads and connections   *)
(* and every capacity: type correctness, no thread asleep beside work it   *)
(* could do, nobody asleep after the shutdown, and the ring being a FIFO.  *)
(***************************************************************************)
EXTENDS WorkQueue, Sequences, FiniteSetTheorems, TLAPS

-----------------------------------------------------------------------------
(* Stepping an index of the ring: (i + 1) % capacity wraps at the end.     *)
LEMMA Step ==
  ASSUME NEW i \in Slots
  PROVE  /\ (i + 1) % Capacity = IF i + 1 = Capacity THEN 0 ELSE i + 1
         /\ (i + 1) % Capacity \in Slots
BY QueueAssumption DEF Slots

(* Every action, for the case analyses below.                              *)
LEMMA Cases ==
  ASSUME [Next]_vars
  PROVE  \/ \E t \in Pushers, c \in Conns : CallPush(t, c)
         \/ \E t \in Pushers : PushWait(t) \/ Push(t) \/ PusherExits(t)
         \/ \E t \in Poppers : CallPop(t) \/ PopWait(t) \/ Pop(t) \/ PopShutdown(t)
         \/ \E t \in TryPoppers : TryPop(t)
         \/ \E t \in Threads : SpuriousWakeup(t)
         \/ Close
         \/ UNCHANGED vars
BY DEF Next, PusherStep, PopperStep

(* What the wakeup of one sleeper leaves asleep.                           *)
LEMMA SignalLeaves ==
  ASSUME NEW sleepers, NEW left, Signal(sleepers, left)
  PROVE  /\ left \subseteq sleepers
         /\ sleepers # {} => \E t \in sleepers : left = sleepers \ {t}
BY DEF Signal

-----------------------------------------------------------------------------
(* The type invariant is inductive.                                        *)
LEMMA TypeInit == Init => TypeOK
<1> SUFFICES ASSUME Init PROVE TypeOK
  OBVIOUS
<1>1. 0 \in Slots /\ 0 \in 0 .. Capacity
  BY QueueAssumption DEF Slots
<1>2. /\ buf \in [Slots -> Conns \cup {NoConn}]
      /\ pc \in [Threads -> {"idle", "push", "pop", "done"}]
      /\ arg \in [Pushers -> Conns \cup {NoConn}]
      /\ out \in [Takers -> Conns \cup {NoConn}]
  BY DEF Init
<1>3. \A t \in Threads : pc[t] = "idle"
  BY DEF Init
<1> QED
  BY <1>1, <1>2, <1>3 DEF Init, TypeOK, Threads

LEMMA TypeTake ==
  ASSUME TypeOK, NEW t \in Takers, TakeHead(t)
  PROVE  /\ buf' \in [Slots -> Conns \cup {NoConn}]
         /\ head' \in Slots /\ tail' \in Slots /\ count' \in 0 .. Capacity
         /\ shutting_down' \in BOOLEAN
         /\ arg' \in [Pushers -> Conns \cup {NoConn}]
         /\ out' \in [Takers -> Conns \cup {NoConn}]
         /\ not_empty' = not_empty /\ not_full' \subseteq not_full
<1>1. head' \in Slots
  BY Step DEF TypeOK, TakeHead
<1>2. not_full' \subseteq not_full
  BY SignalLeaves DEF TakeHead
<1>3. count' \in 0 .. Capacity
  BY QueueAssumption DEF TypeOK, TakeHead
<1> QED BY <1>1, <1>2, <1>3 DEF TypeOK, TakeHead

LEMMA TypeStep == TypeOK /\ [Next]_vars => TypeOK'
<1> SUFFICES ASSUME TypeOK, [Next]_vars PROVE TypeOK'
  OBVIOUS
<1>1. ASSUME NEW t \in Pushers, NEW c \in Conns, CallPush(t, c) PROVE TypeOK'
  BY <1>1, QueueAssumption DEF CallPush, TypeOK, Threads
<1>2. ASSUME NEW t \in Pushers, PushWait(t) PROVE TypeOK'
  BY <1>2 DEF PushWait, TypeOK, Threads
<1>3. ASSUME NEW t \in Pushers, Push(t) PROVE TypeOK'
  <2>1. tail' \in Slots
    BY <1>3, Step DEF Push, TypeOK
  <2>2. count' \in 0 .. Capacity
    BY <1>3, QueueAssumption DEF Push, TypeOK
  <2>3. not_empty' \subseteq not_empty
    BY <1>3, SignalLeaves DEF Push
  <2>4. buf' \in [Slots -> Conns \cup {NoConn}]
    BY <1>3 DEF Push, TypeOK
  <2>5. not_full' \subseteq {u \in Pushers : pc'[u] = "push"}
    BY <1>3 DEF Push, Awake, TypeOK, Threads
  <2>6. not_empty' \subseteq {u \in Poppers : pc'[u] = "pop"}
    BY <1>3, <2>3, QueueAssumption DEF Push, TypeOK, Threads
  <2> QED
    BY <1>3, <2>1, <2>2, <2>4, <2>5, <2>6 DEF Push, TypeOK, Threads
<1>4. ASSUME NEW t \in Pushers, PusherExits(t) PROVE TypeOK'
  BY <1>4, QueueAssumption DEF PusherExits, TypeOK, Threads
<1>5. ASSUME NEW t \in Poppers, CallPop(t) PROVE TypeOK'
  BY <1>5, QueueAssumption DEF CallPop, TypeOK, Threads
<1>6. ASSUME NEW t \in Poppers, PopWait(t) PROVE TypeOK'
  BY <1>6 DEF PopWait, TypeOK, Threads
<1>7. ASSUME NEW t \in Poppers, Pop(t) PROVE TypeOK'
  <2>1. t \in Takers /\ TakeHead(t)
    BY <1>7 DEF Pop, Takers
  <2>2. not_empty' \subseteq {u \in Poppers : pc'[u] = "pop"}
    BY <1>7, <2>1, TypeTake DEF Pop, Awake, TypeOK, Threads
  <2>3. not_full' \subseteq {u \in Pushers : pc'[u] = "push"}
    BY <1>7, <2>1, TypeTake, QueueAssumption DEF Pop, TypeOK, Threads
  <2>4. /\ pc' \in [Threads -> {"idle", "push", "pop", "done"}]
        /\ \A u \in Pushers : pc'[u] # "pop" /\ (pc'[u] = "push" => arg'[u] \in Conns)
        /\ \A u \in Poppers : pc'[u] # "push"
    BY <1>7, <2>1, QueueAssumption DEF Pop, TakeHead, TypeOK, Threads
  <2> QED
    BY <2>1, <2>2, <2>3, <2>4, TypeTake DEF TypeOK
<1>8. ASSUME NEW t \in Poppers, PopShutdown(t) PROVE TypeOK'
  BY <1>8, QueueAssumption DEF PopShutdown, Awake, TypeOK, Threads
<1>9. ASSUME NEW t \in TryPoppers, TryPop(t) PROVE TypeOK'
  <2>1. t \in Takers /\ TakeHead(t)
    BY <1>9 DEF TryPop, Takers
  <2>2. arg' = arg /\ pc' = pc
    BY <1>9 DEF TryPop, TakeHead
  <2> QED
    BY <2>1, <2>2, TypeTake DEF TypeOK
<1>10. ASSUME NEW t \in Threads, SpuriousWakeup(t) PROVE TypeOK'
  BY <1>10 DEF SpuriousWakeup, TypeOK
<1>11. CASE Close
  BY <1>11 DEF Close, TypeOK
<1>12. CASE UNCHANGED vars
  BY <1>12 DEF vars, TypeOK
<1> QED
  BY <1>1, <1>2, <1>3, <1>4, <1>5, <1>6, <1>7, <1>8, <1>9, <1>10, <1>11, <1>12, Cases

(* Type correctness of the queue: its indices stay inside the ring, its    *)
(* count inside the capacity, and only callers sleep.                      *)
THEOREM TypeCorrect == Spec => []TypeOK
<1>1. Init => TypeOK
  BY TypeInit
<1>2. TypeOK /\ [Next]_vars => TypeOK'
  BY TypeStep
<1> QED
  BY <1>1, <1>2, PTL DEF Spec

-----------------------------------------------------------------------------
(* After the broadcast of the shutdown no popper sleeps: queue_pop tests   *)
(* shutting_down under the mutex that the closing thread holds to set it.  *)
LEMMA SleeperStep ==
  ASSUME TypeOK, NoSleeperAfterClose, [Next]_vars
  PROVE  NoSleeperAfterClose'
<1> USE DEF NoSleeperAfterClose
<1>1. ASSUME NEW t \in Pushers, NEW c \in Conns, CallPush(t, c) PROVE NoSleeperAfterClose'
  BY <1>1 DEF CallPush
<1>2. ASSUME NEW t \in Pushers, PushWait(t) \/ PusherExits(t) PROVE NoSleeperAfterClose'
  BY <1>2 DEF PushWait, PusherExits
<1>3. ASSUME NEW t \in Pushers, Push(t) PROVE NoSleeperAfterClose'
  <2>1. not_empty' \subseteq not_empty
    BY <1>3, SignalLeaves DEF Push
  <2> QED
    BY <1>3, <2>1 DEF Push
<1>4. ASSUME NEW t \in Poppers, CallPop(t) \/ PopWait(t) \/ PopShutdown(t)
      PROVE  NoSleeperAfterClose'
  BY <1>4 DEF CallPop, PopWait, PopShutdown
<1>5. ASSUME NEW t \in Takers, TakeHead(t) PROVE NoSleeperAfterClose'
  BY <1>5 DEF TakeHead
<1>6. ASSUME NEW t \in Threads, SpuriousWakeup(t) PROVE NoSleeperAfterClose'
  BY <1>6 DEF SpuriousWakeup
<1>7. CASE Close
  BY <1>7 DEF Close
<1>8. CASE UNCHANGED vars
  BY <1>8 DEF vars
<1> QED
  BY <1>1, <1>2, <1>3, <1>4, <1>5, <1>6, <1>7, <1>8, Cases DEF Pop, TryPop, Takers

(* Once the queue is shutting down no worker is asleep in queue_pop.       *)
THEOREM ShutdownWakesAll == Spec => []NoSleeperAfterClose
<1>1. Init => NoSleeperAfterClose
  BY DEF Init, NoSleeperAfterClose
<1>2. TypeOK /\ NoSleeperAfterClose /\ [Next]_vars => NoSleeperAfterClose'
  BY SleeperStep
<1> QED
  BY <1>1, <1>2, TypeCorrect, PTL DEF Spec

-----------------------------------------------------------------------------
(* NoLostWakeup is a budget: a push uses up a free slot and, if a popper   *)
(* sleeps, wakes one for the new connection; a pop frees a slot and, if a  *)
(* pusher sleeps, wakes one for it.                                        *)
LEMMA AwakeFinite ==
  /\ IsFiniteSet(AwakePoppers) /\ Cardinality(AwakePoppers) \in Nat
  /\ IsFiniteSet(AwakePushers) /\ Cardinality(AwakePushers) \in Nat
<1>1. AwakePoppers \subseteq Poppers /\ AwakePushers \subseteq Pushers
  BY DEF AwakePoppers, AwakePushers
<1> QED
  BY <1>1, QueueAssumption, FS_Subset, FS_CardinalityType

(* One more awake thread, or one fewer, in a finite set of them.           *)
LEMMA OneMore ==
  ASSUME NEW S, NEW x, IsFiniteSet(S), x \notin S
  PROVE  Cardinality(S \cup {x}) = Cardinality(S) + 1
BY FS_AddElement

LEMMA OneFewer ==
  ASSUME NEW S, NEW x, IsFiniteSet(S), x \in S
  PROVE  Cardinality(S \ {x}) = Cardinality(S) - 1 /\ Cardinality(S \ {x}) \in Nat
BY FS_RemoveElement, FS_CardinalityType

(* A pop, by a worker or by the wait room, pays for the pusher it wakes.   *)
LEMMA TakePays ==
  ASSUME TypeOK, NoLostWakeup, NEW t \in Takers, TakeHead(t),
         \A u \in Pushers : pc'[u] = pc[u]
  PROVE  not_full' # {} => Capacity - count' <= Cardinality(AwakePushers')
<1> SUFFICES ASSUME not_full' # {}
             PROVE  Capacity - count' <= Cardinality(AwakePushers')
  OBVIOUS
<1>1. PICK u \in not_full : not_full' = not_full \ {u}
  BY SignalLeaves DEF TakeHead
<1>2. u \notin AwakePushers /\ AwakePushers' = AwakePushers \cup {u}
  BY <1>1 DEF AwakePushers, TypeOK
<1>3. Cardinality(AwakePushers') = Cardinality(AwakePushers) + 1
  BY <1>2, OneMore, AwakeFinite
<1>4. Capacity - count <= Cardinality(AwakePushers) /\ count' = count - 1
  BY <1>1 DEF NoLostWakeup, TakeHead
<1> QED
  BY <1>3, <1>4, AwakeFinite, QueueAssumption DEF TypeOK

(* A push pays for the popper it wakes, with the slot the pusher fills.    *)
LEMMA PushPays ==
  ASSUME TypeOK, NoLostWakeup, NEW t \in Pushers, Push(t)
  PROVE  NoLostWakeup'
<1>1. ASSUME not_empty' # {} PROVE count' <= Cardinality(AwakePoppers')
  <2>1. PICK u \in not_empty : not_empty' = not_empty \ {u}
    BY <1>1, SignalLeaves DEF Push
  <2>2. u \notin AwakePoppers /\ AwakePoppers' = AwakePoppers \cup {u}
    BY <2>1, QueueAssumption DEF AwakePoppers, TypeOK, Push, Threads
  <2>3. Cardinality(AwakePoppers') = Cardinality(AwakePoppers) + 1
    BY <2>2, OneMore, AwakeFinite
  <2>4. count <= Cardinality(AwakePoppers) /\ count' = count + 1
    BY <2>1 DEF NoLostWakeup, Push
  <2> QED
    BY <2>3, <2>4, AwakeFinite DEF TypeOK
<1>2. ASSUME not_full' # {} PROVE Capacity - count' <= Cardinality(AwakePushers')
  <2>1. t \in AwakePushers /\ AwakePushers' = AwakePushers \ {t}
    BY DEF AwakePushers, TypeOK, Push, Awake, Threads
  <2>2. Cardinality(AwakePushers') = Cardinality(AwakePushers) - 1
    BY <2>1, OneFewer, AwakeFinite
  <2>3. Capacity - count <= Cardinality(AwakePushers) /\ count' = count + 1
    BY <1>2 DEF NoLostWakeup, Push
  <2> QED
    BY <2>2, <2>3, AwakeFinite, QueueAssumption DEF TypeOK
<1> QED
  BY <1>1, <1>2 DEF NoLostWakeup

LEMMA WakeupStep ==
  ASSUME TypeOK, NoLostWakeup, [Next]_vars
  PROVE  NoLostWakeup'
<1>1. ASSUME NEW t \in Pushers, NEW c \in Conns, CallPush(t, c) PROVE NoLostWakeup'
  <2>1. AwakePoppers' = AwakePoppers
    BY <1>1, QueueAssumption DEF CallPush, AwakePoppers, TypeOK, Threads
  <2>2. t \notin AwakePushers /\ AwakePushers' = AwakePushers \cup {t}
    BY <1>1 DEF CallPush, AwakePushers, TypeOK, Threads
  <2>3. Cardinality(AwakePushers') = Cardinality(AwakePushers) + 1
    BY <2>2, OneMore, AwakeFinite
  <2> QED
    BY <1>1, <2>1, <2>3, AwakeFinite, QueueAssumption DEF CallPush, NoLostWakeup, TypeOK
<1>2. ASSUME NEW t \in Pushers, PushWait(t) PROVE NoLostWakeup'
  <2>1. AwakePoppers' = AwakePoppers
    BY <1>2 DEF PushWait, AwakePoppers
  <2>2. t \in AwakePushers /\ AwakePushers' = AwakePushers \ {t}
    BY <1>2 DEF PushWait, AwakePushers, Awake
  <2>3. Cardinality(AwakePushers') \in Nat /\ Capacity - count' = 0
    BY <1>2, <2>2, OneFewer, AwakeFinite, QueueAssumption DEF PushWait
  <2> QED
    BY <1>2, <2>1, <2>3 DEF PushWait, NoLostWakeup
<1>3. ASSUME NEW t \in Pushers, Push(t) PROVE NoLostWakeup'
  BY <1>3, PushPays
<1>4. ASSUME NEW t \in Pushers, PusherExits(t) PROVE NoLostWakeup'
  <2>1. AwakePoppers' = AwakePoppers /\ AwakePushers' = AwakePushers
    BY <1>4, QueueAssumption DEF PusherExits, AwakePoppers, AwakePushers, TypeOK, Threads
  <2> QED
    BY <1>4, <2>1 DEF PusherExits, NoLostWakeup
<1>5. ASSUME NEW t \in Poppers, CallPop(t) PROVE NoLostWakeup'
  <2>1. AwakePushers' = AwakePushers
    BY <1>5, QueueAssumption DEF CallPop, AwakePushers, TypeOK, Threads
  <2>2. t \notin AwakePoppers /\ AwakePoppers' = AwakePoppers \cup {t}
    BY <1>5 DEF CallPop, AwakePoppers, TypeOK, Threads
  <2>3. Cardinality(AwakePoppers') = Cardinality(AwakePoppers) + 1
    BY <2>2, OneMore, AwakeFinite
  <2> QED
    BY <1>5, <2>1, <2>3, AwakeFinite DEF CallPop, NoLostWakeup, TypeOK
<1>6. ASSUME NEW t \in Poppers, PopWait(t) PROVE NoLostWakeup'
  <2>1. AwakePushers' = AwakePushers
    BY <1>6 DEF PopWait, AwakePushers
  <2>2. t \in AwakePoppers /\ AwakePoppers' = AwakePoppers \ {t}
    BY <1>6 DEF PopWait, AwakePoppers, Awake
  <2>3. Cardinality(AwakePoppers') \in Nat /\ count' = 0
    BY <1>6, <2>2, OneFewer, AwakeFinite DEF PopWait
  <2> QED
    BY <1>6, <2>1, <2>3 DEF PopWait, NoLostWakeup
<1>7. ASSUME NEW t \in Poppers, Pop(t) PROVE NoLostWakeup'
  <2>1. not_full' # {} => Capacity - count' <= Cardinality(AwakePushers')
    BY <1>7, TakePays, QueueAssumption DEF Pop, Takers, TypeOK, Threads
  <2>2. t \in AwakePoppers /\ AwakePoppers' = AwakePoppers \ {t}
    BY <1>7 DEF Pop, TakeHead, AwakePoppers, Awake, TypeOK, Threads
  <2>3. Cardinality(AwakePoppers') = Cardinality(AwakePoppers) - 1
    BY <2>2, OneFewer, AwakeFinite
  <2> QED
    BY <1>7, <2>1, <2>3, AwakeFinite DEF Pop, TakeHead, NoLostWakeup, TypeOK
<1>8. ASSUME NEW t \in Poppers, PopShutdown(t) PROVE NoLostWakeup'
  <2>1. AwakePushers' = AwakePushers
    BY <1>8, QueueAssumption DEF PopShutdown, AwakePushers, TypeOK, Threads
  <2>2. t \in AwakePoppers /\ AwakePoppers' = AwakePoppers \ {t}
    BY <1>8 DEF PopShutdown, AwakePoppers, Awake, TypeOK, Threads
  <2>3. Cardinality(AwakePoppers') \in Nat /\ count' = 0
    BY <1>8, <2>2, OneFewer, AwakeFinite DEF PopShutdown
  <2> QED
    BY <1>8, <2>1, <2>3 DEF PopShutdown, NoLostWakeup
<1>9. ASSUME NEW t \in TryPoppers, TryPop(t) PROVE NoLostWakeup'
  <2>1. not_full' # {} => Capacity - count' <= Cardinality(AwakePushers')
    BY <1>9, TakePays DEF TryPop, Takers
  <2>2. AwakePoppers' = AwakePoppers
    BY <1>9 DEF TryPop, TakeHead, AwakePoppers
  <2> QED
    BY <1>9, <2>1, <2>2, AwakeFinite DEF TryPop, TakeHead, NoLostWakeup, TypeOK
<1>10. ASSUME NEW t \in Threads, SpuriousWakeup(t) PROVE NoLostWakeup'
  <2>1. CASE t \in Poppers
    <3>1. AwakePushers' = AwakePushers /\ not_full' = not_full
      BY <1>10, <2>1, QueueAssumption DEF SpuriousWakeup, AwakePushers, TypeOK
    <3>2. t \notin AwakePoppers /\ AwakePoppers' = AwakePoppers \cup {t}
      BY <1>10, <2>1, <3>1, QueueAssumption DEF SpuriousWakeup, AwakePoppers, Awake, TypeOK
    <3>3. Cardinality(AwakePoppers') = Cardinality(AwakePoppers) + 1
      BY <3>2, OneMore, AwakeFinite
    <3> QED
      BY <1>10, <3>1, <3>3, AwakeFinite DEF SpuriousWakeup, NoLostWakeup, TypeOK
  <2>2. CASE t \in Pushers
    <3>1. AwakePoppers' = AwakePoppers /\ not_empty' = not_empty
      BY <1>10, <2>2, QueueAssumption DEF SpuriousWakeup, AwakePoppers, TypeOK
    <3>2. t \notin AwakePushers /\ AwakePushers' = AwakePushers \cup {t}
      BY <1>10, <2>2, <3>1, QueueAssumption DEF SpuriousWakeup, AwakePushers, Awake, TypeOK
    <3>3. Cardinality(AwakePushers') = Cardinality(AwakePushers) + 1
      BY <3>2, OneMore, AwakeFinite
    <3> QED
      BY <1>10, <3>1, <3>3, AwakeFinite, QueueAssumption
         DEF SpuriousWakeup, NoLostWakeup, TypeOK
  <2> QED
    BY <2>1, <2>2 DEF Threads
<1>11. CASE Close
  BY <1>11 DEF Close, NoLostWakeup, AwakePushers
<1>12. CASE UNCHANGED vars
  BY <1>12 DEF vars, NoLostWakeup, AwakePoppers, AwakePushers
<1> QED
  BY <1>1, <1>2, <1>3, <1>4, <1>5, <1>6, <1>7, <1>8, <1>9, <1>10, <1>11, <1>12, Cases

(* No wakeup is lost: a connection is never queued with every popper asleep*)
(* and no pusher sleeps beside a free slot nobody is about to fill.        *)
THEOREM WakeupsSuffice == Spec => []NoLostWakeup
<1>1. Init => NoLostWakeup
  BY DEF Init, NoLostWakeup
<1>2. TypeOK /\ NoLostWakeup /\ [Next]_vars => NoLostWakeup'
  BY WakeupStep
<1> QED
  BY <1>1, <1>2, TypeCorrect, PTL DEF Spec

-----------------------------------------------------------------------------
(* The refinement. The live slots run from head for count slots, and tail  *)
(* is the slot after them.                                                 *)
RingInv == tail = Slot(count)

LEMMA RingTake ==
  ASSUME TypeOK, RingInv, NEW t \in Takers, TakeHead(t)
  PROVE  RingInv' /\ Fifo!Get(t)
<1>1. /\ head \in Slots /\ count \in 1 .. Capacity
      /\ head' = IF head + 1 = Capacity THEN 0 ELSE head + 1
      /\ count' = count - 1 /\ buf' = buf /\ tail' = tail
  BY Step DEF TypeOK, TakeHead
<1>2. RingInv'
  BY <1>1, QueueAssumption DEF RingInv, Slot, Slots
<1>3. Queued # << >> /\ Head(Queued) = buf[head]
  <2>1. Slot(0) = head
    BY <1>1, QueueAssumption DEF Slot, Slots
  <2>2. Len(Queued) = count /\ Queued[1] = buf[head]
    BY <1>1, <2>1 DEF Queued
  <2>3. count # 0 /\ Head(Queued) = Queued[1]
    BY <1>1 DEF Queued
  <2> QED
    BY <2>2, <2>3
<1>4. Queued' = Tail(Queued)
  <2>1. \A i \in 1 .. count - 1 : Slot(i - 1)' = Slot(i)
    BY <1>1, QueueAssumption DEF Slot, Slots
  <2>2. Queued' = [i \in 1 .. count - 1 |-> buf[Slot(i)]]
    BY <1>1, <2>1 DEF Queued
  <2>3. Len(Queued) = count
    BY <1>1 DEF Queued
  <2>4. Tail(Queued) = [i \in 1 .. count - 1 |-> buf[Slot(i)]]
    BY <1>1, <2>3 DEF Queued
  <2> QED
    BY <2>2, <2>4
<1> QED
  BY <1>2, <1>3, <1>4 DEF Fifo!Get, TakeHead

LEMMA RingPush ==
  ASSUME TypeOK, RingInv, NEW t \in Pushers, Push(t)
  PROVE  RingInv' /\ \E c \in Conns : Fifo!Put(c)
<1>1. /\ head \in Slots /\ tail \in Slots /\ count \in 0 .. Capacity - 1
      /\ tail' = IF tail + 1 = Capacity THEN 0 ELSE tail + 1
      /\ head' = head /\ count' = count + 1 /\ buf' = [buf EXCEPT ![tail] = arg[t]]
      /\ buf \in [Slots -> Conns \cup {NoConn}]
  BY Step, QueueAssumption DEF TypeOK, Push
<1>2. RingInv'
  BY <1>1, QueueAssumption DEF RingInv, Slot, Slots
<1>3. arg[t] \in Conns
  BY DEF Push, TypeOK
<1>4. Len(Queued) = count
  BY <1>1 DEF Queued
<1>5. Queued' = Append(Queued, arg[t])
  <2>1. \A i \in 0 .. count - 1 : Slot(i) \in Slots /\ Slot(i) # tail
    BY <1>1, QueueAssumption DEF RingInv, Slot, Slots
  <2>2. Queued' = [i \in 1 .. count + 1 |-> buf'[Slot(i - 1)]]
    BY <1>1 DEF Queued, Slot
  <2>3. \A i \in 1 .. count : buf'[Slot(i - 1)] = buf[Slot(i - 1)]
    BY <1>1, <2>1
  <2>4. buf'[Slot(count)] = arg[t]
    BY <1>1 DEF RingInv
  <2>5. Append(Queued, arg[t]) =
          [i \in 1 .. count + 1 |-> IF i <= count THEN buf[Slot(i - 1)] ELSE arg[t]]
    BY <1>1, <1>4 DEF Queued
  <2> QED
    BY <1>1, <2>2, <2>3, <2>4, <2>5
<1>6. Fifo!Put(arg[t])
  <2>1. Len(Queued) < Capacity
    BY <1>1, <1>4, QueueAssumption
  <2> QED
    BY <1>5, <2>1 DEF Fifo!Put, Push
<1> QED
  BY <1>2, <1>3, <1>6

LEMMA RefinementStep ==
  ASSUME TypeOK, RingInv, [Next]_vars
  PROVE  /\ RingInv'
         /\ [Fifo!Next]_<<Queued, out, shutting_down>>
<1> DEFINE Stutter == UNCHANGED <<Queued, out, shutting_down>>
<1>1. ASSUME UNCHANGED <<buf, head, tail, count>>
      PROVE  RingInv' /\ Queued' = Queued
  BY <1>1 DEF RingInv, Slot, Queued
<1>2. ASSUME NEW t \in Pushers, NEW c \in Conns, CallPush(t, c) PROVE RingInv' /\ Stutter
  BY <1>1, <1>2 DEF CallPush
<1>3. ASSUME NEW t \in Pushers, PushWait(t) \/ PusherExits(t) PROVE RingInv' /\ Stutter
  BY <1>1, <1>3 DEF PushWait, PusherExits
<1>4. ASSUME NEW t \in Poppers, CallPop(t) \/ PopWait(t) \/ PopShutdown(t)
      PROVE  RingInv' /\ Stutter
  BY <1>1, <1>4 DEF CallPop, PopWait, PopShutdown
<1>5. ASSUME NEW t \in Threads, SpuriousWakeup(t) PROVE RingInv' /\ Stutter
  BY <1>1, <1>5 DEF SpuriousWakeup
<1>6. ASSUME Close PROVE RingInv' /\ Fifo!Close
  BY <1>1, <1>6 DEF Close, Fifo!Close
<1>7. ASSUME UNCHANGED vars PROVE RingInv' /\ Stutter
  BY <1>1, <1>7 DEF vars
<1>8. ASSUME NEW t \in Takers, TakeHead(t) PROVE RingInv' /\ Fifo!Get(t)
  BY <1>8, RingTake
<1>9. ASSUME NEW t \in Pushers, Push(t) PROVE RingInv' /\ \E c \in Conns : Fifo!Put(c)
  BY <1>9, RingPush
<1> QED
  BY <1>2, <1>3, <1>4, <1>5, <1>6, <1>7, <1>8, <1>9, Cases
     DEF Fifo!Next, Pop, TryPop, Takers

(* work_queue_t is a bounded FIFO: pushes append, and every connection     *)
(* comes out once, in the order it went in.                                *)
THEOREM QueueIsFifo == Spec => RefinesFifo
<1>1. Init => RingInv
  BY QueueAssumption DEF Init, RingInv, Slot
<1>2. TypeOK /\ RingInv /\ [Next]_vars => RingInv'
  BY RefinementStep
<1>3. Init => Fifo!Init
  <2>1. ASSUME Init PROVE Queued = << >>
    BY <2>1 DEF Init, Queued
  <2> QED
    BY <2>1 DEF Init, Fifo!Init
<1>4. TypeOK /\ RingInv /\ [Next]_vars => [Fifo!Next]_<<Queued, out, shutting_down>>
  BY RefinementStep
<1> QED
  BY <1>1, <1>2, <1>3, <1>4, TypeCorrect, PTL DEF Spec, RefinesFifo, Fifo!Spec
=============================================================================
