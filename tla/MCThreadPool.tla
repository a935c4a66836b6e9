---------------------------- MODULE MCThreadPool ----------------------------
(***************************************************************************)
(* Instances of ThreadPool for TLC. Descriptors are compared for equality  *)
(* only, and so are workers: the safety runs may permute both.             *)
(***************************************************************************)
EXTENDS ThreadPool, TLC

Symmetry == Permutations(Fds) \cup Permutations(Workers)
=============================================================================
