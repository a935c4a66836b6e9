---------------------------- MODULE MCWorkQueue ----------------------------
(***************************************************************************)
(* An instance of WorkQueue for TLC: one queue that is both popped and     *)
(* try-popped, so that its behaviours include those of the work queue and  *)
(* those of the wait queue.                                                *)
(***************************************************************************)
EXTENDS WorkQueue

(* Two slots: full, empty and wrapped are all one or two steps away.       *)
QueueCapacity == 2
=============================================================================
