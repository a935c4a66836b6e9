----------------------------- MODULE KeepAlive -----------------------------
(***************************************************************************)
(* What the wait room promises a connection that is kept alive: it stays   *)
(* until its peer sends something, and then goes back to the workers, or   *)
(* until its deadline has passed or its peer has gone, and then is closed. *)
(* It is turned away only when there is no room for it or the kernel       *)
(* cannot watch it. No array, no epoll, no sweep: ConnPool implements this.*)
(***************************************************************************)
EXTENDS Integers, FiniteSets

CONSTANTS
  Fds,       \* the connections
  Capacity,  \* how many can be kept
  Deadlines, \* the seconds at which a connection may expire
  Unwatched  \* connections the kernel may refuse to watch

VARIABLES
  kept,      \* [fd, deadline] of the connections that are kept
  closed,    \* those that are not open
  readable,  \* those whose peer has sent something or has gone
  second     \* the time

KeptFds == {c.fd : c \in kept}

Init == kept = {} /\ closed = Fds /\ readable = {} /\ second = 0

Keep(f) ==
  /\ f \notin KeptFds \cup closed /\ Cardinality(kept) < Capacity
  /\ \E d \in Deadlines : kept' = kept \cup {[fd |-> f, deadline |-> d]}
  /\ UNCHANGED <<closed, readable, second>>

Refuse(f) ==
  /\ f \notin KeptFds \cup closed
  /\ Cardinality(kept) = Capacity \/ f \in Unwatched
  /\ closed' = closed \cup {f} /\ readable' = readable \ {f}
  /\ UNCHANGED <<kept, second>>

HandOver(c) ==
  /\ c \in kept /\ c.fd \in readable
  /\ kept' = kept \ {c}
  /\ UNCHANGED <<closed, readable, second>>

(* A peer that has gone has made the connection readable.                  *)
Close(c) ==
  /\ c \in kept /\ (c.deadline <= second \/ c.fd \in readable)
  /\ kept' = kept \ {c}
  /\ closed' = closed \cup {c.fd} /\ readable' = readable \ {c.fd}
  /\ UNCHANGED second

(* Workers answer, close and accept the connections that are not kept.     *)
Elsewhere ==
  /\ closed' \in SUBSET Fds /\ closed' \cap KeptFds = {}
  /\ readable' \in SUBSET Fds /\ readable \cap KeptFds = readable' \cap KeptFds
  /\ UNCHANGED <<kept, second>>

Arrives(f) ==
  /\ f \notin closed
  /\ readable' = readable \cup {f}
  /\ UNCHANGED <<kept, closed, second>>

Time == second' = second + 1 /\ UNCHANGED <<kept, closed, readable>>

Next ==
  \/ \E f \in Fds : Keep(f) \/ Refuse(f) \/ Arrives(f)
  \/ \E c \in kept : HandOver(c) \/ Close(c)
  \/ Elsewhere \/ Time

Spec == Init /\ [][Next]_<<kept, closed, readable, second>>
=============================================================================
