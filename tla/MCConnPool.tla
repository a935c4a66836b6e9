----------------------------- MODULE MCConnPool -----------------------------
(***************************************************************************)
(* Instances of ConnPool for TLC. Descriptors outside Unwatched are only   *)
(* compared for equality.                                                  *)
(***************************************************************************)
EXTENDS ConnPool, TLC

Symmetry == Permutations(Fds \ Unwatched)
=============================================================================
