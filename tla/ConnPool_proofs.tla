-------------------------- MODULE ConnPool_proofs --------------------------
(***************************************************************************)
(* Theorems about ConnPool, for every number of connections, every size of *)
(* the pool, every clock and every timeout: types, a sweep that misses     *)
(* nothing, a sleep that is not too long, and the refinement of KeepAlive. *)
(*                                                                         *)
(* The inductive invariant IInv says that no two items have one descriptor *)
(* and that what epoll may report, or has reported, is an item with input. *)
(***************************************************************************)
EXTENDS ConnPool, FiniteSetTheorems, WellFoundedInduction, TLAPS

(* time(): a tick has a second, which never decreases and changes by one.  *)
LEMMA TimeType == ASSUME NEW n \in Nat PROVE Time(n) \in Nat
BY ConnPoolAssumption DEF Time

LEMMA TimeMonotone ==
  ASSUME NEW m \in Nat, NEW n \in Nat, m <= n
  PROVE  Time(m) <= Time(n)
BY ConnPoolAssumption DEF Time

LEMMA TimeSteps ==
  ASSUME NEW n \in Nat
  PROVE  Time(n + 1) \in {Time(n), Time(n) + 1}
BY ConnPoolAssumption DEF Time

(* A set of naturals has a least member.                                   *)
LEMMA LeastExists ==
  ASSUME NEW S \in SUBSET Nat, S # {}
  PROVE  \E x \in S : \A y \in S : x <= y
<1> DEFINE R == {ss \in Nat \X Nat : ss[1] < ss[2]}
<1>1. OpToRel(<, Nat) = R
  BY Zenon DEF OpToRel
<1>2. \E x \in S : \A y \in S : ~(<<y, x>> \in R)
  BY <1>1, NatLessThanWellFounded, WFMin, Zenon
<1>3. \A x, y \in Nat : <<y, x>> \in R <=> y < x
  BY DEF R
<1> HIDE DEF R
<1>4. PICK x \in S : \A y \in S : ~(<<y, x>> \in R)
  BY <1>2
<1>5. \A y \in S : ~(y < x)
  BY <1>3, <1>4, S \subseteq Nat, Zenon
<1> QED
  BY <1>5

-----------------------------------------------------------------------------
(* No two items of the array are the same connection.                      *)
Distinct == \A j, k \in 0 .. count - 1 : items[j].fd = items[k].fd => j = k

(* TypeOK without what relates one variable to another.                    *)
Types ==
  /\ clock \in 0 .. LastTick
  /\ items \in [Slots -> Conn] /\ count \in 0 .. Capacity
  /\ pc \in {"drain", "wait", "events", "sweep"}
  /\ wakeAt \in 0 .. LastTick + MaxTick
  /\ events \subseteq Fds /\ i \in 0 .. Capacity /\ now \in 0 .. Time(clock)

(* A connection is in the pool or elsewhere, and only there open.          *)
Places ==
  /\ away \subseteq Fds /\ away \cap PooledFds = {} /\ Distinct
  /\ readable \subseteq away \cup PooledFds
  /\ registered \subseteq away \cup PooledFds /\ armed \subseteq registered

(* Whatever epoll may still report is in the pool. What it has reported is *)
(* too, until it is handled, with the input that was reported.             *)
Reported ==
  /\ armed \subseteq PooledFds /\ events \subseteq PooledFds \cap readable
  /\ events \cap armed = {} /\ (pc # "events" => events = {})

IInv == Types /\ Places /\ Reported /\ SweepFindsAll

(* The two operations on the array.                                        *)
LEMMA Added ==
  ASSUME Types, Distinct, NEW c \in Conn, PoolAdd(c)
  PROVE  /\ items' \in [Slots -> Conn] /\ count' \in 0 .. Capacity
         /\ Pooled' = Pooled \cup {c} /\ PooledFds' = PooledFds \cup {c.fd}
         /\ c.fd \notin PooledFds => Distinct'
<1>1. /\ count \in Slots /\ count < Capacity /\ count \in Nat
      /\ count + 1 \in 0 .. Capacity /\ 0 .. count - 1 \subseteq Slots \ {count}
  BY ConnPoolAssumption DEF Types, PoolAdd, Slots
<1>2. items' \in [Slots -> Conn] /\ count' = count + 1 /\ items'[count] = c
  BY <1>1 DEF Types, PoolAdd
<1>3. \A j \in 0 .. count - 1 : j \in Slots /\ items'[j] = items[j]
  BY <1>1 DEF Types, PoolAdd
<1>4. Pooled' = Pooled \cup {c}
  <2>1. \A j \in 0 .. count' - 1 : j = count \/ j \in 0 .. count - 1
    BY <1>1, <1>2
  <2>2. 0 .. count - 1 \subseteq 0 .. count' - 1 /\ count \in 0 .. count' - 1
    BY <1>1, <1>2
  <2> QED
    BY <1>2, <1>3, <2>1, <2>2 DEF Pooled
<1>5. PooledFds' = PooledFds \cup {c.fd}
  BY <1>4 DEF PooledFds
<1>6. ASSUME c.fd \notin PooledFds PROVE Distinct'
  <2>1. \A j \in 0 .. count - 1 : items[j].fd # c.fd
    BY <1>6 DEF PooledFds, Pooled
  <2> QED
    BY <1>1, <1>2, <1>3, <2>1 DEF Distinct
<1> QED
  BY <1>1, <1>2, <1>4, <1>5, <1>6

LEMMA Removed ==
  ASSUME Types, Distinct, NEW k \in 0 .. count - 1, SwapOut(k)
  PROVE  /\ items' \in [Slots -> Conn] /\ count' \in 0 .. Capacity
         /\ Pooled' = Pooled \ {items[k]}
         /\ PooledFds' = PooledFds \ {items[k].fd}
         /\ Distinct'
<1>1. /\ k \in Slots /\ count \in Nat \ {0}
      /\ count' = count - 1 /\ count' \in 0 .. Capacity
      /\ \A j \in 0 .. count - 1 : j \in Slots
  BY ConnPoolAssumption DEF Types, SwapOut, Slots
<1>2. items' \in [Slots -> Conn]
  BY <1>1 DEF Types, SwapOut
<1>3. \A j \in 0 .. count' - 1 :
        items'[j] = IF j = k THEN items[count - 1] ELSE items[j]
  BY <1>1 DEF Types, SwapOut
<1>4. Distinct'
  BY <1>1, <1>3 DEF Distinct
<1>5. \A j \in 0 .. count - 1 : items[j] = items[k] => j = k
  BY <1>1 DEF Distinct
<1>6. Pooled' = Pooled \ {items[k]}
  <2>1. ASSUME NEW c \in Pooled' PROVE c \in Pooled \ {items[k]}
    <3>1. PICK j \in 0 .. count' - 1 : c = items'[j]
      BY <2>1 DEF Pooled
    <3>2. CASE j = k
      BY <1>1, <1>3, <1>5, <3>1, <3>2 DEF Pooled
    <3>3. CASE j # k
      BY <1>1, <1>3, <1>5, <3>1, <3>3 DEF Pooled
    <3> QED
      BY <3>2, <3>3
  <2>2. ASSUME NEW c \in Pooled \ {items[k]} PROVE c \in Pooled'
    <3>1. PICK j \in 0 .. count - 1 : c = items[j]
      BY <2>2 DEF Pooled
    <3>2. CASE j = count - 1
      <4>1. k \in 0 .. count' - 1 /\ items'[k] = c
        BY <1>1, <1>3, <2>2, <3>1, <3>2
      <4> QED
        BY <4>1 DEF Pooled
    <3>3. CASE j # count - 1
      <4>1. j \in 0 .. count' - 1 /\ items'[j] = c
        BY <1>1, <1>3, <2>2, <3>1, <3>3
      <4> QED
        BY <4>1 DEF Pooled
    <3> QED
      BY <3>2, <3>3
  <2> QED
    BY <2>1, <2>2
<1>7. \A c \in Pooled : c.fd = items[k].fd => c = items[k]
  BY DEF Distinct, Pooled
<1>8. items[k] \in Pooled
  BY DEF Pooled
<1>9. PooledFds' = PooledFds \ {items[k].fd}
  BY <1>6, <1>7, <1>8 DEF PooledFds
<1> QED
  BY <1>1, <1>2, <1>4, <1>6, <1>9

-----------------------------------------------------------------------------
(* The pool depends on the array alone.                                    *)
LEMMA SameArray ==
  ASSUME UNCHANGED array
  PROVE  /\ Pooled' = Pooled /\ PooledFds' = PooledFds
         /\ Distinct' = Distinct
BY DEF array, Pooled, PooledFds, Distinct

(* The members of the pool have their types.                               *)
LEMMA PooledType ==
  ASSUME Types
  PROVE  /\ \A j \in 0 .. count - 1 : j \in Slots /\ items[j] \in Conn
         /\ Pooled \subseteq Conn /\ PooledFds \subseteq Fds
<1>1. \A j \in 0 .. count - 1 : j \in Slots /\ items[j] \in Conn
  BY ConnPoolAssumption DEF Types, Slots
<1> QED
  BY <1>1 DEF Pooled, PooledFds, Conn

(* An event names an item of the pool, and HandleEvent removes that item.  *)
LEMMA EventNamesItem ==
  ASSUME IInv, NEW f \in Fds, HandleEvent(f)
  PROVE  /\ \E k \in 0 .. count - 1 : items[k].fd = f /\ SwapOut(k)
         /\ \/ away' = away \cup {f} /\ UNCHANGED <<epoll, readable>>
            \/ CloseFd(f) /\ UNCHANGED away
<1> DEFINE found == {j \in 0 .. count - 1 : items[j].fd = f}
<1>1. f \in PooledFds
  BY DEF HandleEvent, IInv, Reported
<1>2. found # {} /\ found \subseteq Nat
  BY <1>1 DEF PooledFds, Pooled, IInv, Types
<1>3. \E j \in found : \A k \in found : j <= k
  <2> HIDE DEF found
  <2> QED
    BY <1>2, LeastExists
<1>4. (CHOOSE j \in found : \A k \in found : j <= k) \in found
  <2> HIDE DEF found
  <2> QED
    BY <1>3
<1>5. /\ SwapOut(CHOOSE j \in found : \A k \in found : j <= k)
      /\ \/ away' = away \cup {f} /\ UNCHANGED <<epoll, readable>>
         \/ CloseFd(f) /\ UNCHANGED away
  BY <1>2 DEF HandleEvent
<1> QED
  BY <1>4, <1>5

(* pool_nearest_timeout_ms finds the earliest deadline.                    *)
LEMMA NearestIsLeast ==
  ASSUME Types, count # 0
  PROVE  /\ Nearest(count) \in Nat
         /\ \A k \in 0 .. count - 1 : Nearest(count) <= items[k].deadline
<1> DEFINE S == {items[k].deadline : k \in 0 .. count - 1}
<1>1. \A k \in 0 .. count - 1 : items[k].deadline \in Nat
  BY PooledType DEF Conn, Deadlines
<1>2. S \subseteq Nat /\ items[0].deadline \in S
  BY <1>1 DEF Types
<1>3. \A k \in 0 .. count - 1 : items[k].deadline \in S
  OBVIOUS
<1>4. Nearest(count) = Min(S)
  BY DEF Nearest
<1> HIDE DEF S
<1>5. \E x \in S : \A y \in S : x <= y
  BY <1>2, LeastExists
<1>6. Min(S) \in S /\ \A y \in S : Min(S) <= y
  BY <1>5 DEF Min
<1> QED
  BY <1>2, <1>3, <1>4, <1>6

(* The timeout is capped at MAX_TICK_MS, and not negative.                 *)
LEMMA TimeoutType ==
  ASSUME Types
  PROVE  TimeoutTicks \in 0 .. MaxTick
<1>1. MaxTick \in Nat /\ TicksPerSecond \in Nat \ {0}
  BY ConnPoolAssumption
<1>2. CASE count = 0
  BY <1>1, <1>2 DEF TimeoutTicks
<1>3. CASE count # 0
  <2>1. Nearest(count) \in Nat
    BY <1>3, NearestIsLeast
  <2>2. Time(clock) \in Nat
    BY TimeType, ConnPoolAssumption DEF Types
  <2> DEFINE diff == Nearest(count) - Time(clock)
  <2>3. diff \in Int /\ diff * TicksPerSecond \in Int
    BY <1>1, <2>1, <2>2
  <2>4. diff > 0 => diff * TicksPerSecond > 0
    <3> HIDE DEF diff
    <3> QED
      BY <1>1, <2>3
  <2>5. TimeoutTicks = IF diff * TicksPerSecond > MaxTick THEN MaxTick
                        ELSE IF diff <= 0 THEN 0 ELSE diff * TicksPerSecond
    BY <1>3 DEF TimeoutTicks
  <2> QED
    <3> HIDE DEF diff
    <3> QED
      BY <1>1, <2>3, <2>4, <2>5
<1> QED
  BY <1>2, <1>3

(* The invariant holds at the start, and each step keeps it.               *)
LEMMA InvInit == Init => IInv
<1> SUFFICES ASSUME Init PROVE IInv
  OBVIOUS
<1>1. Time(0) \in Nat /\ 0 \in Deadlines
  BY TimeType, ConnPoolAssumption DEF Deadlines, Time
<1>2. PooledFds = {} /\ Distinct
  BY DEF Init, PooledFds, Pooled, Distinct
<1>3. items \in [Slots -> Conn]
  BY <1>1 DEF Init, Conn
<1>4. Types
  BY <1>1, <1>3, ConnPoolAssumption DEF Init, Types
<1> QED
  BY <1>2, <1>4 DEF Init, IInv, Places, Reported, SweepFindsAll

(* The other threads.                                                      *)
LEMMA InvElsewhere ==
  ASSUME IInv, NEW f \in Fds,
         Open(f) \/ WorkerCloses(f) \/ WorkerReads(f) \/ Input(f)
  PROVE  IInv'
<1>1. UNCHANGED <<clock, array, thread>>
  BY DEF Open, WorkerCloses, WorkerReads, Input, thread
<1>2. PooledFds' = PooledFds /\ Distinct'
  BY <1>1, SameArray DEF IInv, Places
<1>3. Types' /\ SweepFindsAll'
  BY <1>1 DEF IInv, Types, SweepFindsAll, array, thread
<1>4. Places'
  BY <1>2 DEF IInv, Places, Open, WorkerCloses, WorkerReads, Input, epoll
<1>5. Reported'
  BY <1>1, <1>2 DEF IInv, Places, Reported, Open, WorkerCloses, WorkerReads, Input, epoll, thread
<1> QED
  BY <1>3, <1>4, <1>5 DEF IInv

(* The clock.                                                              *)
LEMMA InvTick ==
  ASSUME IInv, Tick
  PROVE  IInv'
<1>1. UNCHANGED <<away, readable, epoll, array, thread>> /\ clock' = clock + 1
  BY DEF Tick
<1>2. PooledFds' = PooledFds /\ Distinct'
  BY <1>1, SameArray DEF IInv, Places
<1>3. clock \in Nat /\ clock' \in 0 .. LastTick
  BY ConnPoolAssumption DEF IInv, Types, Tick
<1>4. Time(clock) \in Nat /\ Time(clock)' \in Nat /\ Time(clock) <= Time(clock)'
  <2>1. Time(clock)' = Time(clock + 1)
    BY <1>1 DEF Time
  <2> QED
    BY <1>3, <2>1, TimeType, TimeSteps
<1>5. Types' /\ SweepFindsAll'
  BY <1>1, <1>3, <1>4 DEF IInv, Types, SweepFindsAll, array, thread
<1>6. Places' /\ Reported'
  BY <1>1, <1>2 DEF IInv, Places, Reported, epoll, thread
<1> QED
  BY <1>5, <1>6 DEF IInv

(* A connection that a worker may have given any deadline of the present.  *)
LEMMA Dated ==
  ASSUME Types, NEW f \in Fds, NEW d \in 0 .. Time(clock) + KeepSeconds
  PROVE  [fd |-> f, deadline |-> d] \in Conn
<1>1. Time(clock) \in Nat /\ Time(LastTick) \in Nat /\ Time(clock) <= Time(LastTick)
  BY TimeType, TimeMonotone, ConnPoolAssumption DEF Types
<1>2. d \in Deadlines
  BY <1>1, ConnPoolAssumption DEF Deadlines
<1> QED
  BY <1>2 DEF Conn

(* The drain loop: pool_add and io_watcher_add, or close_connection.       *)
LEMMA InvEnter ==
  ASSUME IInv, NEW f \in Fds, Enter(f)
  PROVE  IInv'
<1>1. /\ f \in away /\ f \notin PooledFds /\ away' = away \ {f}
      /\ pc = "drain" /\ UNCHANGED <<clock, thread>> /\ events = {}
  BY DEF Enter, IInv, Places, Reported
<1>2. CASE \E d \in 0 .. Time(clock) + KeepSeconds : PoolAdd([fd |-> f, deadline |-> d])
           /\ registered' = registered \cup {f} /\ armed' = armed \cup {f}
           /\ UNCHANGED readable
  <2>1. PICK d \in 0 .. Time(clock) + KeepSeconds : PoolAdd([fd |-> f, deadline |-> d])
    BY <1>2
  <2>2. [fd |-> f, deadline |-> d] \in Conn
    BY Dated DEF IInv
  <2>3. /\ items' \in [Slots -> Conn] /\ count' \in 0 .. Capacity
        /\ PooledFds' = PooledFds \cup {f} /\ Distinct'
    BY <1>1, <2>1, <2>2, Added DEF IInv, Places
  <2>4. Types' /\ SweepFindsAll'
    BY <1>1, <2>3 DEF IInv, Types, SweepFindsAll, thread
  <2>5. Places'
    BY <1>1, <1>2, <2>3 DEF IInv, Places
  <2>6. Reported'
    BY <1>1, <1>2, <2>3 DEF IInv, Reported, thread
  <2> QED
    BY <2>4, <2>5, <2>6 DEF IInv
<1>3. CASE CloseFd(f) /\ UNCHANGED array
  <2>1. PooledFds' = PooledFds /\ Distinct'
    BY <1>3, SameArray DEF IInv, Places
  <2>2. Types' /\ SweepFindsAll'
    BY <1>1, <1>3 DEF IInv, Types, SweepFindsAll, array, thread
  <2>3. Places' /\ Reported'
    BY <1>1, <1>3, <2>1 DEF IInv, Places, Reported, CloseFd, thread
  <2> QED
    BY <2>2, <2>3 DEF IInv
<1> QED
  BY <1>2, <1>3 DEF Enter

(* The steps of the wait room that leave the array alone.                  *)
LEMMA InvSleepWake ==
  ASSUME IInv, Sleep \/ Wake \/ SweepStart \/ SweepEnd
  PROVE  IInv'
<1>1. UNCHANGED <<world, array, registered>>
  BY DEF Sleep, Wake, SweepStart, SweepEnd, epoll
<1>2. PooledFds' = PooledFds /\ Distinct'
  BY <1>1, SameArray DEF IInv, Places
<1>3. clock \in Nat /\ Time(clock) \in Nat /\ Time(clock)' = Time(clock)
  BY <1>1, TimeType, ConnPoolAssumption DEF IInv, Types, world, Time
<1>4. CASE Sleep
  <2>1. wakeAt' \in 0 .. LastTick + MaxTick
    <3>1. TimeoutTicks \in 0 .. MaxTick /\ wakeAt' = clock + TimeoutTicks
      BY <1>4, TimeoutType DEF Sleep, IInv
    <3>2. clock \in 0 .. LastTick /\ LastTick \in Nat /\ MaxTick \in Nat
      BY ConnPoolAssumption DEF IInv, Types
    <3> QED
      BY <3>1, <3>2
  <2> QED
    BY <1>1, <1>2, <1>3, <1>4, <2>1
    DEF Sleep, IInv, Types, Places, Reported, SweepFindsAll, world, array, epoll
<1>5. CASE Wake
  <2>1. events' \subseteq Fds
    BY <1>5, PooledType DEF Wake, IInv, Places
  <2>2. Types' /\ SweepFindsAll'
    BY <1>1, <1>3, <1>5, <2>1 DEF Wake, IInv, Types, SweepFindsAll, world, array
  <2>3. Places' /\ Reported'
    BY <1>1, <1>2, <1>5 DEF Wake, IInv, Places, Reported, world
  <2> QED
    BY <2>2, <2>3 DEF IInv
<1>6. CASE SweepStart
  <2>1. Types'
    BY <1>1, <1>3, <1>6, ConnPoolAssumption DEF SweepStart, IInv, Types, world, array
  <2>2. SweepFindsAll'
    BY <1>6 DEF SweepStart, SweepFindsAll
  <2>3. Places' /\ Reported'
    BY <1>1, <1>2, <1>6 DEF SweepStart, IInv, Places, Reported, world, epoll
  <2> QED
    BY <2>1, <2>2, <2>3 DEF IInv
<1>7. CASE SweepEnd
  BY <1>1, <1>2, <1>3, <1>7
  DEF SweepEnd, IInv, Types, Places, Reported, SweepFindsAll, world, array, epoll
<1> QED
  BY <1>4, <1>5, <1>6, <1>7

(* pool_remove_by_fd.                                                      *)
LEMMA InvHandleEvent ==
  ASSUME IInv, NEW f \in Fds, HandleEvent(f)
  PROVE  IInv'
<1>1. PICK k \in 0 .. count - 1 : items[k].fd = f /\ SwapOut(k)
  BY EventNamesItem
<1>2. /\ items' \in [Slots -> Conn] /\ count' \in 0 .. Capacity
      /\ PooledFds' = PooledFds \ {f} /\ Distinct'
  BY <1>1, Removed DEF IInv, Places
<1>3. /\ pc = "events" /\ f \in events /\ f \in PooledFds
      /\ events' = events \ {f} /\ UNCHANGED <<clock, pc, wakeAt, i, now>>
  BY DEF HandleEvent, IInv, Reported
<1>4. Types' /\ SweepFindsAll'
  BY <1>2, <1>3 DEF IInv, Types, SweepFindsAll
<1>5. CASE away' = away \cup {f} /\ UNCHANGED <<epoll, readable>>
  <2>1. Places' /\ Reported'
    BY <1>2, <1>3, <1>5 DEF IInv, Places, Reported, epoll
  <2> QED
    BY <1>4, <2>1 DEF IInv
<1>6. CASE CloseFd(f) /\ UNCHANGED away
  <2>1. Places' /\ Reported'
    BY <1>2, <1>3, <1>6 DEF IInv, Places, Reported, CloseFd
  <2> QED
    BY <1>4, <2>1 DEF IInv
<1> QED
  BY <1>5, <1>6, EventNamesItem

(* One turn of the loop of pool_sweep_expired.                             *)
LEMMA InvSweepStep ==
  ASSUME IInv, SweepStep
  PROVE  IInv'
<1>1. /\ pc = "sweep" /\ i \in 0 .. count - 1 /\ events = {}
      /\ UNCHANGED <<clock, away, pc, wakeAt, events, now>>
      /\ count \in Nat /\ count <= Capacity /\ Capacity \in Nat
  BY ConnPoolAssumption DEF SweepStep, IInv, Types, Reported
<1>2. items[i] \in Conn /\ now \in Nat /\ items[i].deadline \in Nat
  <2>1. items[i] \in Conn
    BY <1>1, PooledType DEF IInv
  <2>2. Time(clock) \in Nat
    BY TimeType, ConnPoolAssumption DEF IInv, Types
  <2> QED
    BY <2>1, <2>2 DEF IInv, Types, Conn, Deadlines
<1>3. CASE items[i].deadline <= now
  <2>1. CloseFd(items[i].fd) /\ SwapOut(i) /\ UNCHANGED i
    BY <1>3 DEF SweepStep
  <2>2. /\ items' \in [Slots -> Conn] /\ count' \in 0 .. Capacity
        /\ PooledFds' = PooledFds \ {items[i].fd} /\ Distinct'
    BY <1>1, <2>1, Removed DEF IInv, Places
  <2>3. Types'
    BY <1>1, <2>1, <2>2 DEF IInv, Types
  <2>4. \A j \in 0 .. count' - 1 : j < i => items'[j] = items[j]
    BY <1>1, <2>1, PooledType DEF SwapOut, IInv, Types
  <2>5. SweepFindsAll'
    BY <1>1, <2>1, <2>4 DEF IInv, SweepFindsAll, SwapOut
  <2>6. Places' /\ Reported'
    BY <1>1, <2>1, <2>2 DEF IInv, Places, Reported, CloseFd
  <2> QED
    BY <2>3, <2>5, <2>6 DEF IInv
<1>4. CASE ~(items[i].deadline <= now)
  <2>1. i' = i + 1 /\ UNCHANGED <<array, epoll, readable>>
    BY <1>4 DEF SweepStep
  <2>2. PooledFds' = PooledFds /\ Distinct'
    BY <2>1, SameArray DEF IInv, Places
  <2>3. Types'
    BY <1>1, <2>1 DEF IInv, Types, array
  <2>4. \A j \in 0 .. count - 1 : j < i + 1 => j < i \/ j = i
    BY <1>1
  <2>5. SweepFindsAll'
    BY <1>1, <1>2, <1>4, <2>1, <2>4 DEF IInv, SweepFindsAll, array
  <2>6. Places' /\ Reported'
    BY <1>1, <2>1, <2>2 DEF IInv, Places, Reported, epoll
  <2> QED
    BY <2>3, <2>5, <2>6 DEF IInv
<1> QED
  BY <1>3, <1>4

(* All steps.                                                              *)
LEMMA InvNext == IInv /\ [Next]_vars => IInv'
<1> SUFFICES ASSUME IInv, [Next]_vars PROVE IInv'
  OBVIOUS
<1>1. CASE UNCHANGED vars
  <2>1. UNCHANGED <<world, epoll, array, thread>>
    BY <1>1 DEF vars
  <2>2. PooledFds' = PooledFds /\ Distinct'
    BY <2>1, SameArray DEF IInv, Places
  <2> QED
    BY <2>1, <2>2 DEF IInv, Types, Places, Reported, SweepFindsAll, world, epoll, array, thread
<1> QED
  BY <1>1, InvElsewhere, InvTick, InvEnter, InvSleepWake, InvHandleEvent, InvSweepStep
  DEF Next, WaitRoom

(* IInv is an invariant.                                                   *)
LEMMA Invariance == Spec => []IInv
BY InvInit, InvNext, PTL DEF Spec

-----------------------------------------------------------------------------
(* The pool has as many members, and as many descriptors, as count says.   *)
LEMMA PoolSize ==
  ASSUME Types, Distinct
  PROVE  Cardinality(Pooled) = count /\ Cardinality(PooledFds) = count
<1> DEFINE D == 0 .. count - 1
           item == [j \in D |-> items[j]]
           desc == [j \in D |-> items[j].fd]
<1>1. IsFiniteSet(D) /\ Cardinality(D) = count
  BY FS_Interval, ConnPoolAssumption DEF Types
<1>2. item \in Bijection(D, Pooled)
  BY DEF Distinct, Pooled, Bijection, Injection, Surjection, IsInjective
<1>3. desc \in Bijection(D, PooledFds)
  <2>1. desc \in [D -> PooledFds] /\ \A f \in PooledFds : \E j \in D : desc[j] = f
    BY DEF Pooled, PooledFds
  <2> QED
    BY <2>1 DEF Distinct, Bijection, Injection, Surjection, IsInjective
<1> HIDE DEF D, item, desc
<1>4. Cardinality(Pooled) = Cardinality(D) /\ Cardinality(PooledFds) = Cardinality(D)
  BY <1>1, <1>2, <1>3, FS_Bijection DEF ExistsBijection
<1> QED
  BY <1>1, <1>4

(* Every variable of the wait room keeps its type; count is the number of  *)
(* connections in the array of conn_pool_t, which has no connection twice, *)
(* however items are added, swapped and removed.                           *)
THEOREM TypeCorrect == Spec => []TypeOK
<1>1. IInv => TypeOK
  <2> SUFFICES ASSUME IInv PROVE TypeOK
    OBVIOUS
  <2>1. now \in 0 .. Time(LastTick)
    BY TimeType, TimeMonotone, ConnPoolAssumption DEF IInv, Types
  <2>2. Cardinality(PooledFds) = count
    BY PoolSize DEF IInv, Places
  <2> QED
    BY <2>1, <2>2 DEF IInv, Types, Places, TypeOK
<1> QED
  BY <1>1, Invariance, PTL

(* pool_sweep_expired leaves no item behind it that had expired when it    *)
(* began, although each removal moves the last item to the front.          *)
THEOREM SweepMissesNone == Spec => []SweepFindsAll
<1>1. IInv => SweepFindsAll
  BY DEF IInv
<1> QED
  BY <1>1, Invariance, PTL

-----------------------------------------------------------------------------
(* KeepAlive counts as ConnPool does.                                      *)
LEMMA SameSize ==
  ASSUME NEW S
  PROVE  Kept!Cardinality(S) = Cardinality(S)
BY Zenon DEF Kept!Cardinality, Cardinality

(* A step that moves no connection is a stutter of KeepAlive.              *)
LEMMA SameKept ==
  ASSUME UNCHANGED <<away, readable, array>>, Time(clock)' = Time(clock)
  PROVE  UNCHANGED <<Pooled, Fds \ (away \cup PooledFds), readable, Time(clock)>>
BY SameArray

(* The simulation, action by action.                                       *)
LEMMA KeptElsewhere ==
  ASSUME IInv, NEW f \in Fds, Open(f) \/ WorkerCloses(f) \/ WorkerReads(f)
  PROVE  Kept!Elsewhere
<1>1. UNCHANGED <<clock, array>> /\ f \notin PooledFds
  BY DEF Open, WorkerCloses, WorkerReads, IInv, Places
<1>2. PooledFds' = PooledFds /\ Pooled' = Pooled /\ Time(clock)' = Time(clock)
  BY <1>1, SameArray DEF Time
<1>3. Kept!KeptFds = PooledFds
  BY DEF Kept!KeptFds, PooledFds
<1>4. readable \cap PooledFds = readable' \cap PooledFds
  BY <1>1 DEF Open, WorkerCloses, WorkerReads
<1>5. readable' \in SUBSET Fds
  BY PooledType DEF IInv, Places, Open, WorkerCloses, WorkerReads
<1> QED
  BY <1>2, <1>3, <1>4, <1>5 DEF Kept!Elsewhere

(* Input arrives.                                                          *)
LEMMA KeptArrives ==
  ASSUME IInv, NEW f \in Fds, Input(f)
  PROVE  Kept!Arrives(f)
<1>1. UNCHANGED <<clock, away, array>> /\ f \in away \cup PooledFds
  BY DEF Input
<1>2. PooledFds' = PooledFds /\ Pooled' = Pooled /\ Time(clock)' = Time(clock)
  BY <1>1, SameArray DEF Time
<1> QED
  BY <1>1, <1>2 DEF Input, Kept!Arrives

(* A tick is a second or nothing.                                          *)
LEMMA KeptTime ==
  ASSUME IInv, Tick
  PROVE  Kept!Time \/ UNCHANGED <<Pooled, Fds \ (away \cup PooledFds), readable, Time(clock)>>
<1>1. UNCHANGED <<away, readable, array>> /\ clock' = clock + 1
  BY DEF Tick
<1>2. Pooled' = Pooled /\ PooledFds' = PooledFds
  BY <1>1, SameArray
<1>3. Time(clock)' \in {Time(clock), Time(clock) + 1}
  <2>1. clock \in Nat /\ Time(clock)' = Time(clock + 1)
    BY <1>1, ConnPoolAssumption DEF IInv, Types, Time
  <2> QED
    BY <2>1, TimeSteps
<1> QED
  BY <1>1, <1>2, <1>3 DEF Kept!Time

(* A connection that is drained is kept or refused.                        *)
LEMMA KeptEnter ==
  ASSUME IInv, NEW f \in Fds, Enter(f)
  PROVE  Kept!Keep(f) \/ Kept!Refuse(f)
<1>1. f \in away /\ f \notin PooledFds /\ away' = away \ {f} /\ UNCHANGED clock
  BY DEF Enter, IInv, Places
<1>2. Kept!KeptFds = PooledFds /\ Time(clock)' = Time(clock)
  BY <1>1 DEF Kept!KeptFds, PooledFds, Time
<1>3. f \notin Kept!KeptFds \cup (Fds \ (away \cup PooledFds))
  BY <1>1, <1>2
<1>4. ASSUME NEW d \in 0 .. Time(clock) + KeepSeconds,
             PoolAdd([fd |-> f, deadline |-> d]), UNCHANGED readable
      PROVE  Kept!Keep(f)
  <2>1. [fd |-> f, deadline |-> d] \in Conn
    BY Dated DEF IInv
  <2>2. d \in Deadlines
    BY <2>1 DEF Conn
  <2>3. Pooled' = Pooled \cup {[fd |-> f, deadline |-> d]} /\ PooledFds' = PooledFds \cup {f}
    BY <1>4, <2>1, Added DEF IInv, Places
  <2>4. Cardinality(Pooled) < Capacity
    BY <1>4, PoolSize DEF PoolAdd, IInv, Places
  <2>5. Fds \ (away' \cup PooledFds') = Fds \ (away \cup PooledFds)
    BY <1>1, <2>3
  <2> QED
    BY <1>2, <1>3, <1>4, <2>2, <2>3, <2>4, <2>5, SameSize DEF Kept!Keep
<1>5. ASSUME count >= Capacity \/ f \in Unwatched, CloseFd(f), UNCHANGED array
      PROVE  Kept!Refuse(f)
  <2>1. Pooled' = Pooled /\ PooledFds' = PooledFds
    BY <1>5, SameArray
  <2>2. Cardinality(Pooled) = Capacity \/ f \in Unwatched
    <3>1. count \in 0 .. Capacity /\ Capacity \in Nat /\ Cardinality(Pooled) = count
      BY PoolSize, ConnPoolAssumption DEF IInv, Types, Places
    <3> QED
      BY <1>5, <3>1
  <2>3. Fds \ (away' \cup PooledFds') = (Fds \ (away \cup PooledFds)) \cup {f}
    BY <1>1, <2>1
  <2> QED
    BY <1>2, <1>3, <1>5, <2>1, <2>2, <2>3, SameSize DEF Kept!Refuse, CloseFd
<1> QED
  BY <1>4, <1>5 DEF Enter

(* What the removal of an item means for the connections that are kept.    *)
LEMMA KeptLeaves ==
  ASSUME IInv, NEW k \in 0 .. count - 1, SwapOut(k)
  PROVE  /\ items[k] \in Pooled /\ items[k].fd \in PooledFds /\ items[k].fd \in Fds
         /\ items[k].fd \notin away
         /\ Pooled' = Pooled \ {items[k]} /\ PooledFds' = PooledFds \ {items[k].fd}
<1>1. items[k] \in Pooled /\ items[k].fd \in PooledFds
  BY DEF Pooled, PooledFds
<1>2. Pooled' = Pooled \ {items[k]} /\ PooledFds' = PooledFds \ {items[k].fd}
  BY Removed DEF IInv, Places
<1> QED
  BY <1>1, <1>2, PooledType DEF IInv, Places

(* An event hands the connection over or closes it.                        *)
LEMMA KeptEvent ==
  ASSUME IInv, NEW f \in Fds, HandleEvent(f)
  PROVE  \E c \in Pooled : Kept!HandOver(c) \/ Kept!Close(c)
<1>1. PICK k \in 0 .. count - 1 : items[k].fd = f /\ SwapOut(k)
  BY EventNamesItem
<1>2. /\ items[k] \in Pooled /\ f \in PooledFds /\ f \notin away
      /\ Pooled' = Pooled \ {items[k]} /\ PooledFds' = PooledFds \ {f}
  BY <1>1, KeptLeaves
<1>3. f \in readable /\ UNCHANGED clock /\ Time(clock)' = Time(clock)
  BY DEF HandleEvent, IInv, Reported, Time
<1>4. CASE away' = away \cup {f} /\ UNCHANGED <<epoll, readable>>
  <2>1. Fds \ (away' \cup PooledFds') = Fds \ (away \cup PooledFds)
    BY <1>2, <1>4
  <2>2. Kept!HandOver(items[k])
    BY <1>1, <1>2, <1>3, <1>4, <2>1 DEF Kept!HandOver
  <2> QED
    BY <1>2, <2>2
<1>5. CASE CloseFd(f) /\ UNCHANGED away
  <2>1. Fds \ (away' \cup PooledFds') = (Fds \ (away \cup PooledFds)) \cup {f}
    BY <1>2, <1>5
  <2>2. Kept!Close(items[k])
    BY <1>1, <1>2, <1>3, <1>5, <2>1 DEF Kept!Close, CloseFd
  <2> QED
    BY <1>2, <2>2
<1> QED
  BY <1>4, <1>5, EventNamesItem

(* A turn of the sweep closes an expired connection or does nothing.       *)
LEMMA KeptSweep ==
  ASSUME IInv, SweepStep
  PROVE  \/ \E c \in Pooled : Kept!Close(c)
         \/ UNCHANGED <<Pooled, Fds \ (away \cup PooledFds), readable, Time(clock)>>
<1>1. i \in 0 .. count - 1 /\ UNCHANGED <<clock, away>> /\ Time(clock)' = Time(clock)
  BY ConnPoolAssumption DEF SweepStep, IInv, Types, Time
<1>2. CASE items[i].deadline <= now
  <2>1. CloseFd(items[i].fd) /\ SwapOut(i)
    BY <1>2 DEF SweepStep
  <2>2. /\ items[i] \in Pooled /\ items[i].fd \in PooledFds /\ items[i].fd \in Fds
        /\ items[i].fd \notin away
        /\ Pooled' = Pooled \ {items[i]} /\ PooledFds' = PooledFds \ {items[i].fd}
    BY <1>1, <2>1, KeptLeaves
  <2>3. items[i].deadline <= Time(clock)
    <3>1. items[i].deadline \in Nat /\ Time(clock) \in Nat
      BY <1>1, PooledType, TimeType, ConnPoolAssumption DEF IInv, Types, Conn, Deadlines
    <3> QED
      BY <1>2, <3>1 DEF IInv, Types
  <2>4. Fds \ (away' \cup PooledFds') = (Fds \ (away \cup PooledFds)) \cup {items[i].fd}
    BY <1>1, <2>2
  <2>5. Kept!Close(items[i])
    BY <1>1, <2>1, <2>2, <2>3, <2>4 DEF Kept!Close, CloseFd
  <2> QED
    BY <2>2, <2>5
<1>3. CASE ~(items[i].deadline <= now)
  BY <1>1, <1>3, SameKept DEF SweepStep
<1> QED
  BY <1>2, <1>3

(* conn_pool_t, epoll's one-shot events and the sweep implement KeepAlive: *)
(* a connection leaves the pool only to be served because its peer has     *)
(* sent something, or to be closed because it has expired or its peer has  *)
(* gone.                                                                   *)
THEOREM ArrayKeepsPromise == Spec => RefinesKeepAlive
<1>1. Init => Kept!Init
  <2> SUFFICES ASSUME Init PROVE Kept!Init
    OBVIOUS
  <2>1. Pooled = {} /\ PooledFds = {}
    BY DEF Init, Pooled, PooledFds
  <2>2. Time(0) = 0
    BY ConnPoolAssumption DEF Time
  <2> QED
    BY <2>1, <2>2 DEF Init, Kept!Init
<1>2. IInv /\ [Next]_vars =>
        [Kept!Next]_<<Pooled, Fds \ (away \cup PooledFds), readable, Time(clock)>>
  <2> SUFFICES ASSUME IInv, [Next]_vars
               PROVE  \/ Kept!Next
                      \/ UNCHANGED <<Pooled, Fds \ (away \cup PooledFds), readable, Time(clock)>>
    OBVIOUS
  <2>1. CASE UNCHANGED vars \/ Sleep \/ Wake \/ SweepStart \/ SweepEnd
    <3>1. UNCHANGED <<away, readable, array>> /\ Time(clock)' = Time(clock)
      BY <2>1 DEF vars, world, Sleep, Wake, SweepStart, SweepEnd, Time
    <3> QED
      BY <3>1, SameKept
  <2>2. CASE Tick
    BY <2>2, KeptTime DEF Kept!Next
  <2>3. CASE SweepStep
    BY <2>3, KeptSweep DEF Kept!Next
  <2>4. CASE \E f \in Fds : Enter(f) \/ HandleEvent(f)
    BY <2>4, KeptEnter, KeptEvent DEF Kept!Next
  <2>5. CASE \E f \in Fds : Open(f) \/ WorkerCloses(f) \/ WorkerReads(f) \/ Input(f)
    BY <2>5, KeptElsewhere, KeptArrives DEF Kept!Next
  <2> QED
    BY <2>1, <2>2, <2>3, <2>4, <2>5 DEF Next, WaitRoom
<1> QED
  BY <1>1, <1>2, Invariance, PTL DEF Spec, RefinesKeepAlive, Kept!Spec

-----------------------------------------------------------------------------
(* A deadline in a later second lies in a later tick.                      *)
LEMMA DeadlineAhead ==
  ASSUME NEW n \in Nat, NEW d \in Nat, Time(n) < d
  PROVE  n < d * TicksPerSecond
<1> DEFINE q == Time(n)
<1>1. TicksPerSecond \in Nat \ {0} /\ q \in Nat
  BY TimeType, ConnPoolAssumption
<1>2. n < (q + 1) * TicksPerSecond
  BY <1>1 DEF Time
<1>3. (q + 1) * TicksPerSecond <= d * TicksPerSecond
  <2> HIDE DEF q
  <2>1. PICK e \in Nat : d = q + 1 + e
    <3>1. d - (q + 1) \in Nat /\ d = q + 1 + (d - (q + 1))
      BY <1>1 DEF q
    <3> QED
      BY <3>1
  <2>2. d * TicksPerSecond = (q + 1) * TicksPerSecond + e * TicksPerSecond
    BY <1>1, <2>1
  <2>3. e * TicksPerSecond \in Nat
    BY <1>1
  <2> QED
    BY <1>1, <2>2, <2>3
<1> QED
  <2> HIDE DEF q
  <2> QED
    BY <1>1, <1>2, <1>3

(* A sleep of any length ends less than MAX_TICK_MS after every deadline.  *)
ShortSleep ==
  (pc = "wait" /\ clock < wakeAt) =>
    \A j \in 0 .. count - 1 : wakeAt < items[j].deadline * TicksPerSecond + MaxTick

(* pool_nearest_timeout_ms and the cap in wait_room_thread see to that.    *)
LEMMA SleepIsShort ==
  ASSUME IInv, Sleep
  PROVE  ShortSleep'
<1> SUFFICES ASSUME clock < clock + TimeoutTicks, NEW j \in 0 .. count - 1
             PROVE  clock + TimeoutTicks < items[j].deadline * TicksPerSecond + MaxTick
  BY DEF ShortSleep, Sleep, world, array
<1>1. /\ MaxTick \in Nat /\ TicksPerSecond \in Nat \ {0} /\ TimeoutTicks \in 0 .. MaxTick
      /\ clock \in Nat /\ Time(clock) \in Nat /\ count # 0 /\ items[j].deadline \in Nat
  BY TimeoutType, TimeType, PooledType, ConnPoolAssumption DEF IInv, Types, Conn, Deadlines
<1>2. Nearest(count) \in Nat /\ Nearest(count) <= items[j].deadline
  BY NearestIsLeast DEF IInv
<1>3. Time(clock) < items[j].deadline
  <2> SUFFICES ASSUME items[j].deadline <= Time(clock) PROVE FALSE
    BY <1>1
  <2> DEFINE diff == Nearest(count) - Time(clock)
  <2>1. diff \in Int /\ diff <= 0
    BY <1>1, <1>2
  <2>2. diff * TicksPerSecond \in Int /\ diff * TicksPerSecond <= 0
    <3> HIDE DEF diff
    <3> QED
      BY <1>1, <2>1
  <2>3. TimeoutTicks = IF diff * TicksPerSecond > MaxTick THEN MaxTick
                       ELSE IF diff <= 0 THEN 0 ELSE diff * TicksPerSecond
    BY <1>1 DEF TimeoutTicks
  <2> HIDE DEF diff
  <2> QED
    BY <1>1, <2>1, <2>2, <2>3
<1>4. clock < items[j].deadline * TicksPerSecond
  BY <1>1, <1>3, DeadlineAhead
<1>5. items[j].deadline * TicksPerSecond \in Int
  BY <1>1
<1> QED
  BY <1>1, <1>4, <1>5

(* While wait_room_thread sleeps, no connection in the pool is overdue by  *)
(* MAX_TICK_MS or more.                                                    *)
THEOREM NobodyOverstays == Spec => []NoOverstay
<1>1. Init => ShortSleep
  BY DEF Init, ShortSleep
<1>2. IInv /\ ShortSleep /\ [Next]_vars => ShortSleep'
  <2> SUFFICES ASSUME IInv, ShortSleep, [Next]_vars PROVE ShortSleep'
    OBVIOUS
  <2>1. CASE Sleep
    BY <2>1, SleepIsShort
  <2>2. CASE Tick
    <3>1. UNCHANGED <<array, thread>> /\ clock \in Nat /\ clock' = clock + 1 /\ wakeAt \in Int
      BY <2>2, ConnPoolAssumption DEF Tick, IInv, Types
    <3> QED
      BY <3>1 DEF ShortSleep, array, thread
  <2>3. CASE UNCHANGED vars \/ \E f \in Fds : Open(f) \/ WorkerCloses(f) \/ WorkerReads(f) \/ Input(f)
    BY <2>3 DEF vars, world, Open, WorkerCloses, WorkerReads, Input, ShortSleep, array, thread
  <2>4. CASE \E f \in Fds : Enter(f) \/ HandleEvent(f)
    BY <2>4 DEF Enter, HandleEvent, ShortSleep, thread
  <2>5. CASE Wake \/ SweepStart \/ SweepStep \/ SweepEnd
    BY <2>5 DEF Wake, SweepStart, SweepStep, SweepEnd, ShortSleep
  <2> QED
    BY <2>1, <2>2, <2>3, <2>4, <2>5 DEF Next, WaitRoom
<1>3. IInv /\ ShortSleep => NoOverstay
  <2> SUFFICES ASSUME IInv, ShortSleep, pc = "wait", clock < wakeAt, NEW c \in Pooled
               PROVE  clock < c.deadline * TicksPerSecond + MaxTick
    BY DEF NoOverstay
  <2>1. PICK j \in 0 .. count - 1 : c = items[j]
    BY DEF Pooled
  <2>2. wakeAt < c.deadline * TicksPerSecond + MaxTick
    BY <2>1 DEF ShortSleep
  <2>3. /\ clock \in Nat /\ wakeAt \in Nat /\ MaxTick \in Nat
        /\ c.deadline \in Nat /\ TicksPerSecond \in Nat
    BY <2>1, PooledType, ConnPoolAssumption DEF IInv, Types, Conn, Deadlines
  <2>4. c.deadline * TicksPerSecond + MaxTick \in Nat
    BY <2>3
  <2> QED
    BY <2>2, <2>3, <2>4
<1> QED
  BY <1>1, <1>2, <1>3, Invariance, PTL DEF Spec
=============================================================================
