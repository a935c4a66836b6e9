---------------------------- MODULE BoundedFifo ----------------------------
(***************************************************************************)
(* What work_queue_t (src/src/threadpool.h) promises its users: a first-in *)
(* first-out queue of at most Capacity connections that can be closed, and *)
(* that hands every connection to exactly one taker, in arrival order.     *)
(* No ring indices, mutex or condition variables: WorkQueue implements     *)
(* this specification.                                                     *)
(***************************************************************************)
EXTENDS Integers, Sequences

CONSTANTS
  Conns,     \* the connections that can be queued
  Takers,    \* the threads that take connections out
  Capacity,  \* the largest number of queued connections
  NoConn     \* "nothing taken yet"

VARIABLES
  fifo,      \* the queued connections, oldest first
  taken,     \* taken[t]: the connection t took last
  closed     \* TRUE once the queue is shutting down

Init ==
  /\ fifo = << >>
  /\ taken = [t \in Takers |-> NoConn]
  /\ closed = FALSE

Put(c) ==
  /\ Len(fifo) < Capacity
  /\ fifo' = Append(fifo, c)
  /\ UNCHANGED <<taken, closed>>

Get(t) ==
  /\ fifo # << >>
  /\ taken' = [taken EXCEPT ![t] = Head(fifo)]
  /\ fifo' = Tail(fifo)
  /\ UNCHANGED closed

Close ==
  /\ closed' = TRUE
  /\ UNCHANGED <<fifo, taken>>

Next ==
  \/ \E c \in Conns : Put(c)
  \/ \E t \in Takers : Get(t)
  \/ Close

Spec == Init /\ [][Next]_<<fifo, taken, closed>>
=============================================================================
