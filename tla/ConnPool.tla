------------------------------ MODULE ConnPool ------------------------------
(***************************************************************************)
(* The wait room thread (src/src/threadpool.c) with its own data: the array*)
(* of conn_pool_t, the sweep and the timeout of src/src/io_watcher.c, epoll*)
(* registration and the clock. The other threads are the environment; that *)
(* a connection is in one place at a time, which ThreadPool shows, is taken*)
(* from there. Shutdown is left to ThreadPool.                             *)
(*                                                                         *)
(* Time is counted in ticks of which TicksPerSecond make up one second of  *)
(* time(), and does not run backwards.                                     *)
(***************************************************************************)
EXTENDS Integers, FiniteSets, FiniteSetsExt

CONSTANTS
  Fds,             \* file descriptors of the connections
  Capacity,        \* pool_size, copied from conn_queue_size
  MaxEvents,       \* MAX_WAIT_EVENTS
  TicksPerSecond,
  MaxTick,         \* MAX_TICK_MS in ticks
  KeepSeconds,     \* keepalive_timeout
  Unwatched,       \* descriptors for which epoll_ctl may fail
  LastTick         \* the bound of the clock

ASSUME ConnPoolAssumption ==
  /\ IsFiniteSet(Fds) /\ Unwatched \subseteq Fds
  /\ Capacity \in Nat \ {0} /\ MaxEvents \in Nat \ {0}
  /\ TicksPerSecond \in Nat \ {0} /\ MaxTick \in Nat \ {0}
  /\ KeepSeconds \in Nat /\ LastTick \in Nat

VARIABLES
  clock,              \* the time in ticks
  away, readable,     \* open connections elsewhere; those with input
  registered, armed,  \* what epoll knows, and what it will report
  items, count,       \* conn_pool_t
  pc,                 \* where the wait room is
  wakeAt,             \* when its epoll_wait times out
  events,             \* the descriptors epoll_wait has returned
  i, now              \* locals of pool_sweep_expired

world == <<clock, away, readable>>
epoll == <<registered, armed>>
array == <<items, count>>
thread == <<pc, wakeAt, events, i, now>>
vars == <<world, epoll, array, thread>>

Time(tick) == tick \div TicksPerSecond      \* time()
Deadlines == 0 .. Time(LastTick) + KeepSeconds
Conn == [fd : Fds, deadline : Deadlines]
Slots == 0 .. Capacity - 1

Pooled == {items[j] : j \in 0 .. count - 1}
PooledFds == {c.fd : c \in Pooled}

-----------------------------------------------------------------------------
(***************************************************************************)
(* Mistakes this code could have.                                          *)
(***************************************************************************)

(* pool_add writes behind the last slot of a full pool.                    *)
PoolAddUnchecked(c) ==
  /\ items' = [j \in DOMAIN items \cup {count} |-> IF j = count THEN c ELSE items[j]]
  /\ count' = count + 1

(* pool_remove_at shrinks first and then takes the item behind the end.    *)
SwapOutLate(j) ==
  /\ items' = IF count < Capacity THEN [items EXCEPT ![j] = items[count]] ELSE items
  /\ count' = count - 1

(* pool_nearest_timeout_ms looks at the first item only.                   *)
NearestFirst(n) == items[0].deadline

(* The sweep steps over the item it has just swapped in.                   *)
SweepSkips ==
  /\ pc = "sweep" /\ i < count
  /\ i' = i + 1
  /\ IF items[i].deadline <= now
     THEN /\ items' = [items EXCEPT ![i] = items[count - 1]] /\ count' = count - 1
          /\ registered' = registered \ {items[i].fd}
          /\ armed' = armed \ {items[i].fd}
          /\ readable' = readable \ {items[i].fd}
     ELSE UNCHANGED <<array, epoll, readable>>
  /\ UNCHANGED <<clock, away, pc, wakeAt, events, now>>

-----------------------------------------------------------------------------
Init ==
  /\ clock = 0 /\ away = {} /\ readable = {}
  /\ registered = {} /\ armed = {}
  /\ items \in [Slots -> [fd : Fds, deadline : {0}]]   \* malloc: anything
  /\ count = 0
  /\ pc = "drain" /\ wakeAt = 0 /\ events = {} /\ i = 0 /\ now = 0

(* The rest of the server: connections come and go and time passes, but not*)
(* past the moment at which epoll_wait returns.                            *)
Open(f) ==
  /\ f \notin away \cup PooledFds
  /\ away' = away \cup {f}
  /\ UNCHANGED <<clock, readable, epoll, array, thread>>

WorkerCloses(f) ==
  /\ f \in away
  /\ away' = away \ {f} /\ readable' = readable \ {f}
  /\ registered' = registered \ {f} /\ armed' = armed \ {f}
  /\ UNCHANGED <<clock, array, thread>>

WorkerReads(f) ==
  /\ f \in away \cap readable
  /\ readable' = readable \ {f}
  /\ UNCHANGED <<clock, away, epoll, array, thread>>

Input(f) ==
  /\ f \in (away \cup PooledFds) \ readable
  /\ readable' = readable \cup {f}
  /\ UNCHANGED <<clock, away, epoll, array, thread>>

Tick ==
  /\ clock < LastTick /\ (pc = "wait" => clock < wakeAt)
  /\ clock' = clock + 1
  /\ UNCHANGED <<away, readable, epoll, array, thread>>

-----------------------------------------------------------------------------
PoolAdd(c) ==
  /\ count < Capacity
  /\ items' = [items EXCEPT ![count] = c]
  /\ count' = count + 1

(* pool_remove_at: the last item takes the place of the removed one.       *)
SwapOut(j) ==
  /\ items' = [items EXCEPT ![j] = items[count - 1]]
  /\ count' = count - 1

(* close_connection: the kernel drops the registration too.                *)
CloseFd(f) ==
  /\ registered' = registered \ {f} /\ armed' = armed \ {f}
  /\ readable' = readable \ {f}

(* The drain loop pops a connection whose deadline a worker set a while    *)
(* ago: it enters the pool and is registered, or armed again if it still   *)
(* is (EEXIST); or it is closed, the pool being full or epoll_ctl failing  *)
(* (pool_add and pool_remove_by_fd cancel out).                            *)
Enter(f) ==
  /\ pc = "drain" /\ f \in away
  /\ away' = away \ {f}
  /\ \/ /\ \E d \in 0 .. Time(clock) + KeepSeconds : PoolAdd([fd |-> f, deadline |-> d])
        /\ registered' = registered \cup {f} /\ armed' = armed \cup {f}
        /\ UNCHANGED readable
     \/ /\ count >= Capacity \/ f \in Unwatched
        /\ CloseFd(f) /\ UNCHANGED array
  /\ UNCHANGED <<clock, thread>>

(* pool_nearest_timeout_ms: the earliest deadline of the first n items.    *)
Nearest(n) == Min({items[k].deadline : k \in 0 .. n - 1})

TimeoutTicks ==
  LET diff == Nearest(count) - Time(clock)
  IN  IF count = 0 \/ diff * TicksPerSecond > MaxTick THEN MaxTick
      ELSE IF diff <= 0 THEN 0 ELSE diff * TicksPerSecond

(* queue_trypop finds nothing; epoll_wait is called.                       *)
Sleep ==
  /\ pc = "drain"
  /\ pc' = "wait" /\ wakeAt' = clock + TimeoutTicks
  /\ UNCHANGED <<world, epoll, array, events, i, now>>

(* epoll_wait returns at most MaxEvents of the armed readable descriptors, *)
(* and disarms them (EPOLLONESHOT); or its time is over, or a signal ends  *)
(* it, and it returns none.                                                *)
Wake ==
  /\ pc = "wait"
  /\ events' \in SUBSET (armed \cap readable)
  /\ Cardinality(events') <= MaxEvents
  /\ armed' = armed \ events'
  /\ pc' = "events"
  /\ UNCHANGED <<world, registered, array, wakeAt, i, now>>

(* One event. pool_remove_by_fd finds the first item with the descriptor;  *)
(* is_error tells whether to close it or to give it to the workers.        *)
HandleEvent(f) ==
  /\ pc = "events" /\ f \in events
  /\ events' = events \ {f}
  /\ LET found == {j \in 0 .. count - 1 : items[j].fd = f}
     IN  IF found = {}
         THEN UNCHANGED <<array, epoll, readable, away>>
         ELSE /\ SwapOut(CHOOSE j \in found : \A k \in found : j <= k)
              /\ \/ away' = away \cup {f} /\ UNCHANGED <<epoll, readable>>
                 \/ CloseFd(f) /\ UNCHANGED away
  /\ UNCHANGED <<clock, pc, wakeAt, i, now>>

(* pool_sweep_expired reads the clock once and walks through the array.    *)
SweepStart ==
  /\ pc = "events" /\ events = {}
  /\ pc' = "sweep" /\ now' = Time(clock) /\ i' = 0
  /\ UNCHANGED <<world, epoll, array, wakeAt, events>>

SweepStep ==
  /\ pc = "sweep" /\ i < count
  /\ IF items[i].deadline <= now
     THEN CloseFd(items[i].fd) /\ SwapOut(i) /\ UNCHANGED i
     ELSE i' = i + 1 /\ UNCHANGED <<array, epoll, readable>>
  /\ UNCHANGED <<clock, away, pc, wakeAt, events, now>>

SweepEnd ==
  /\ pc = "sweep" /\ i >= count
  /\ pc' = "drain"
  /\ UNCHANGED <<world, epoll, array, wakeAt, events, i, now>>

WaitRoom ==
  \/ \E f \in Fds : Enter(f) \/ HandleEvent(f)
  \/ Sleep \/ Wake \/ SweepStart \/ SweepStep \/ SweepEnd

Next ==
  \/ WaitRoom \/ Tick
  \/ \E f \in Fds : Open(f) \/ WorkerCloses(f) \/ WorkerReads(f) \/ Input(f)

Spec == Init /\ [][Next]_vars

-----------------------------------------------------------------------------
(* Every variable has its type; the descriptors in the pool are different  *)
(* from each other and from those elsewhere.                               *)
TypeOK ==
  /\ clock \in 0 .. LastTick
  /\ away \subseteq Fds /\ readable \subseteq away \cup PooledFds
  /\ registered \subseteq away \cup PooledFds /\ armed \subseteq registered
  /\ items \in [Slots -> Conn] /\ count \in 0 .. Capacity
  /\ pc \in {"drain", "wait", "events", "sweep"}
  /\ wakeAt \in 0 .. LastTick + MaxTick
  /\ events \subseteq Fds /\ i \in 0 .. Capacity /\ now \in 0 .. Time(LastTick)
  /\ Cardinality(PooledFds) = count /\ away \cap PooledFds = {}

(***************************************************************************)
(* RefinesKeepAlive (pool_add, pool_remove_by_fd, pool_remove_at,          *)
(* pool_sweep_expired, io_watcher_add): whatever the array and the events  *)
(* go through, a connection leaves the pool only to be served because its  *)
(* peer has sent something, or to be closed because it has expired or its  *)
(* peer has gone; and it is the right connection that leaves.              *)
(***************************************************************************)
Kept == INSTANCE KeepAlive WITH
  kept <- Pooled, closed <- Fds \ (away \cup PooledFds), second <- Time(clock)

RefinesKeepAlive == Kept!Spec

(***************************************************************************)
(* SweepFindsAll (pool_sweep_expired): the sweep never leaves an item      *)
(* behind it that had expired when the sweep began, although every removal *)
(* moves the last item into the part already visited.                      *)
(***************************************************************************)
SweepFindsAll ==
  pc = "sweep" => \A j \in 0 .. count - 1 : j < i => items[j].deadline > now

(***************************************************************************)
(* NoOverstay (pool_nearest_timeout_ms, wait_room_thread, pool_sweep_      *)
(* expired): while the wait room sleeps, no connection in the pool is      *)
(* overdue by MAX_TICK_MS or more, unless the sleep is of no length.       *)
(***************************************************************************)
NoOverstay ==
  (pc = "wait" /\ clock < wakeAt) =>
    \A c \in Pooled : clock < c.deadline * TicksPerSecond + MaxTick
=============================================================================
