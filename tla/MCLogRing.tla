----------------------------- MODULE MCLogRing -----------------------------
(***************************************************************************)
(* Instances of LogRing for TLC.                                           *)
(***************************************************************************)
EXTENDS LogRing

(* The shortest ring that both wraps inside a batch and fills.             *)
RingSize == 4
BatchSize == 2
=============================================================================
