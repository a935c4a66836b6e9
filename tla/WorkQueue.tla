----------------------------- MODULE WorkQueue -----------------------------
(***************************************************************************)
(* One work_queue_t of src/src/threadpool.c: a ring of `capacity'          *)
(* connections guarded by a mutex and two condition variables. The server  *)
(* has two: the work queue (pushed to by the listeners and the wait room,  *)
(* popped from by the workers) and the wait queue (pushed to by the        *)
(* workers, try-popped from by the wait room).                             *)
(*                                                                         *)
(* A critical section (mutex_lock .. mutex_unlock or .. cond_wait) is one  *)
(* action: nothing in it is visible to a thread that does not hold the     *)
(* mutex. The wait set of each condition variable is explicit: a thread in *)
(* not_empty or not_full sleeps in pthread_cond_wait and re-runs its while *)
(* loop once it has been removed from the set.                             *)
(***************************************************************************)
EXTENDS Integers, FiniteSets

CONSTANTS
  Conns,       \* connections, the conn_t values that are copied in and out
  Pushers,     \* threads that call queue_push
  Poppers,     \* threads that loop on queue_pop
  TryPoppers,  \* threads that call queue_trypop
  Capacity,    \* capacity given to queue_init
  JoinFirst,   \* TRUE: the pushers are joined before shutting_down is set
  NoConn       \* content of a slot or variable never written

ASSUME QueueAssumption ==
  /\ Capacity \in Nat \ {0}
  /\ NoConn \notin Conns
  /\ JoinFirst \in BOOLEAN
  /\ IsFiniteSet(Pushers) /\ IsFiniteSet(Poppers)
  /\ Pushers \cap Poppers = {} /\ Pushers \cap TryPoppers = {}
  /\ Poppers \cap TryPoppers = {}

VARIABLES
  buf, head, tail, count, shutting_down,  \* the fields of work_queue_t
  not_empty,   \* poppers asleep on the condition variable not_empty
  not_full,    \* pushers asleep on the condition variable not_full
  pc,          \* what each thread is doing: see TypeOK
  arg,         \* arg[t]: the connection pusher t wants to queue
  out          \* out[t]: the connection taker t copied out last

vars == <<buf, head, tail, count, shutting_down, not_empty, not_full,
          pc, arg, out>>

Takers == Poppers \cup TryPoppers
Threads == Pushers \cup Poppers
Slots == 0 .. Capacity - 1

-----------------------------------------------------------------------------
Init ==
  /\ buf = [i \in Slots |-> NoConn]
  /\ head = 0 /\ tail = 0 /\ count = 0
  /\ shutting_down = FALSE
  /\ not_empty = {} /\ not_full = {}
  /\ pc = [t \in Threads |-> "idle"]
  /\ arg = [t \in Pushers |-> NoConn]
  /\ out = [t \in Takers |-> NoConn]

(***************************************************************************)
(* pthread_cond_signal wakes one sleeper if there is one; which one is not *)
(* specified. (Waking more is a signal followed by spurious wakeups.)      *)
(***************************************************************************)
Signal(sleepers, left) ==
  IF sleepers = {} THEN left = {} ELSE \E t \in sleepers : left = sleepers \ {t}

Awake(t) == t \notin not_empty \cup not_full

-----------------------------------------------------------------------------
(***************************************************************************)
(* Mistakes this code could have: each is an action below with one thing   *)
(* wrong, and breaks a property stated at the end.                         *)
(***************************************************************************)

(* "if" for "while" around pthread_cond_wait: a full queue is pushed to.   *)
PushUnchecked(t) ==
  /\ pc[t] = "push" /\ Awake(t)
  /\ buf' = [buf EXCEPT ![tail] = arg[t]]
  /\ tail' = (tail + 1) % Capacity
  /\ count' = count + 1
  /\ Signal(not_empty, not_empty')
  /\ pc' = [pc EXCEPT ![t] = "idle"]
  /\ UNCHANGED <<head, shutting_down, not_full, arg, out>>

(* The head is advanced before the connection is copied out.               *)
TakeAdvancedHead(t) ==
  /\ count > 0
  /\ out' = [out EXCEPT ![t] = buf[(head + 1) % Capacity]]
  /\ head' = (head + 1) % Capacity
  /\ count' = count - 1
  /\ Signal(not_full, not_full')
  /\ UNCHANGED <<buf, tail, shutting_down, not_empty, arg>>

(* No signal to the pushers.                                               *)
TakeSilently(t) ==
  /\ count > 0
  /\ out' = [out EXCEPT ![t] = buf[head]]
  /\ head' = (head + 1) % Capacity
  /\ count' = count - 1
  /\ UNCHANGED <<buf, tail, shutting_down, not_empty, not_full, arg>>

(* queue_pop waits without a look at shutting_down.                        *)
PopWaitClosed(t) ==
  /\ pc[t] = "pop" /\ Awake(t)
  /\ count = 0
  /\ not_empty' = not_empty \cup {t}
  /\ UNCHANGED <<buf, head, tail, count, shutting_down, not_full, pc, arg, out>>

(* pthread_cond_signal for pthread_cond_broadcast in server_shutdown.      *)
CloseWakesOne ==
  /\ ~shutting_down
  /\ JoinFirst => \A t \in Pushers : pc[t] = "done"
  /\ shutting_down' = TRUE
  /\ Signal(not_empty, not_empty')
  /\ UNCHANGED <<buf, head, tail, count, not_full, pc, arg, out>>

-----------------------------------------------------------------------------
(* queue_push: the caller arrives with a connection ...                    *)
CallPush(t, c) ==
  /\ pc[t] = "idle"
  /\ pc' = [pc EXCEPT ![t] = "push"]
  /\ arg' = [arg EXCEPT ![t] = c]
  /\ UNCHANGED <<buf, head, tail, count, shutting_down, not_empty, not_full, out>>

(* ... sleeps as long as the queue is full ...                             *)
PushWait(t) ==
  /\ pc[t] = "push" /\ Awake(t)
  /\ count = Capacity
  /\ not_full' = not_full \cup {t}
  /\ UNCHANGED <<buf, head, tail, count, shutting_down, not_empty, pc, arg, out>>

(* ... and stores it at the tail. shutting_down is not looked at.          *)
Push(t) ==
  /\ pc[t] = "push" /\ Awake(t)
  /\ count # Capacity
  /\ buf' = [buf EXCEPT ![tail] = arg[t]]
  /\ tail' = (tail + 1) % Capacity
  /\ count' = count + 1
  /\ Signal(not_empty, not_empty')
  /\ pc' = [pc EXCEPT ![t] = "idle"]
  /\ UNCHANGED <<head, shutting_down, not_full, arg, out>>

(* queue_pop                                                               *)
CallPop(t) ==
  /\ pc[t] = "idle"
  /\ pc' = [pc EXCEPT ![t] = "pop"]
  /\ UNCHANGED <<buf, head, tail, count, shutting_down, not_empty, not_full, arg, out>>

PopWait(t) ==
  /\ pc[t] = "pop" /\ Awake(t)
  /\ count = 0 /\ ~shutting_down
  /\ not_empty' = not_empty \cup {t}
  /\ UNCHANGED <<buf, head, tail, count, shutting_down, not_full, pc, arg, out>>

(* The critical section queue_pop and queue_trypop share: copy the head    *)
(* out, advance, tell one pusher.                                          *)
TakeHead(t) ==
  /\ count > 0
  /\ out' = [out EXCEPT ![t] = buf[head]]
  /\ head' = (head + 1) % Capacity
  /\ count' = count - 1
  /\ Signal(not_full, not_full')
  /\ UNCHANGED <<buf, tail, shutting_down, not_empty, arg>>

Pop(t) ==
  /\ pc[t] = "pop" /\ Awake(t)
  /\ TakeHead(t)
  /\ pc' = [pc EXCEPT ![t] = "idle"]

(* queue_pop returns -1: the loop of worker_thread ends.                   *)
PopShutdown(t) ==
  /\ pc[t] = "pop" /\ Awake(t)
  /\ shutting_down /\ count = 0
  /\ pc' = [pc EXCEPT ![t] = "done"]
  /\ UNCHANGED <<buf, head, tail, count, shutting_down, not_empty, not_full, arg, out>>

(* queue_trypop on a non-empty queue; on an empty one it changes nothing.  *)
TryPop(t) ==
  /\ TakeHead(t)
  /\ UNCHANGED pc

(* A pusher thread ends and is joined (listeners and wait room).           *)
PusherExits(t) ==
  /\ pc[t] = "idle"
  /\ pc' = [pc EXCEPT ![t] = "done"]
  /\ UNCHANGED <<buf, head, tail, count, shutting_down, not_empty, not_full, arg, out>>

(* server_shutdown closes the queue and wakes every popper. The wait queue *)
(* has no popper, so that the signal sent there wakes as many.             *)
Close ==
  /\ ~shutting_down
  /\ JoinFirst => \A t \in Pushers : pc[t] = "done"
  /\ shutting_down' = TRUE
  /\ not_empty' = {}
  /\ UNCHANGED <<buf, head, tail, count, not_full, pc, arg, out>>

(* POSIX lets pthread_cond_wait return without a signal.                   *)
SpuriousWakeup(t) ==
  /\ ~Awake(t)
  /\ not_empty' = not_empty \ {t}
  /\ not_full' = not_full \ {t}
  /\ UNCHANGED <<buf, head, tail, count, shutting_down, pc, arg, out>>

-----------------------------------------------------------------------------
PusherStep(t) == PushWait(t) \/ Push(t)
PopperStep(t) == CallPop(t) \/ PopWait(t) \/ Pop(t) \/ PopShutdown(t)

Next ==
  \/ \E t \in Pushers : \E c \in Conns : CallPush(t, c)
  \/ \E t \in Pushers : PusherStep(t) \/ PusherExits(t)
  \/ \E t \in Poppers : PopperStep(t)
  \/ \E t \in TryPoppers : TryPop(t)
  \/ \E t \in Threads : SpuriousWakeup(t)
  \/ Close

(* Every thread that can run is eventually scheduled, and the consumers    *)
(* keep consuming. Nothing makes a pusher push, and no wakeup is owed but  *)
(* the signalled ones.                                                     *)
Fairness ==
  /\ \A t \in Pushers : WF_vars(PusherStep(t))
  /\ \A t \in Poppers : WF_vars(PopperStep(t))
  /\ \A t \in TryPoppers : WF_vars(TryPop(t))

Spec == Init /\ [][Next]_vars

FairSpec == Spec /\ Fairness

-----------------------------------------------------------------------------
(* The fields have their types, and only a thread inside queue_push or     *)
(* queue_pop sleeps on its condition variable.                             *)
TypeOK ==
  /\ buf \in [Slots -> Conns \cup {NoConn}]
  /\ head \in Slots /\ tail \in Slots /\ count \in 0 .. Capacity
  /\ shutting_down \in BOOLEAN
  /\ pc \in [Threads -> {"idle", "push", "pop", "done"}]
  /\ arg \in [Pushers -> Conns \cup {NoConn}]
  /\ out \in [Takers -> Conns \cup {NoConn}]
  /\ not_empty \subseteq {t \in Poppers : pc[t] = "pop"}
  /\ not_full \subseteq {t \in Pushers : pc[t] = "push"}
  /\ \A t \in Pushers : pc[t] # "pop" /\ (pc[t] = "push" => arg[t] \in Conns)
  /\ \A t \in Poppers : pc[t] # "push"

(***************************************************************************)
(* NoLostWakeup (queue_push, queue_pop, queue_trypop): whenever a popper   *)
(* sleeps, enough poppers are awake inside queue_pop to take everything    *)
(* that is queued; whenever a pusher sleeps, enough pushers are awake      *)
(* inside queue_push to fill every free slot. So a connection never waits  *)
(* in the queue with all poppers asleep, nor a pusher beside a free slot.  *)
(***************************************************************************)
AwakePoppers == {t \in Poppers : pc[t] = "pop"} \ not_empty
AwakePushers == {t \in Pushers : pc[t] = "push"} \ not_full

NoLostWakeup ==
  /\ not_empty # {} => count <= Cardinality(AwakePoppers)
  /\ not_full # {} => Capacity - count <= Cardinality(AwakePushers)

(* A queue that is shutting down has no popper left asleep: the broadcast  *)
(* woke them and none goes back to sleep.                                  *)
NoSleeperAfterClose == shutting_down => not_empty = {}

(***************************************************************************)
(* RefinesFifo: the ring, read from head for count slots, is a bounded     *)
(* FIFO: pushes append, pops hand out the oldest connection, once.         *)
(***************************************************************************)
Slot(i) == IF head + i < Capacity THEN head + i ELSE head + i - Capacity

Queued == [i \in 1 .. count |-> buf[Slot(i - 1)]]

Fifo == INSTANCE BoundedFifo
          WITH fifo <- Queued, taken <- out, closed <- shutting_down

RefinesFifo == Fifo!Spec

(* With the pushers joined first, shutdown drains the queue and every      *)
(* popper returns ("Clear the queue before shutting down.").               *)
ShutdownDrains ==
  shutting_down ~> (count = 0 /\ \A t \in Poppers : pc[t] = "done")

(* The pushers are never all stuck in queue_push for good.                 *)
PushersProgress ==
  (\A t \in Pushers : pc[t] = "push") ~> (\E t \in Pushers : pc[t] # "push")
=============================================================================
