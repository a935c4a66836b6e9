----------------------------- MODULE Selection -----------------------------
(***************************************************************************)
(* The members of a sequence that are in a set, in their order. This is    *)
(* SelectSeq of the standard module with a set in the place of the test:   *)
(* SelectSeq is built into the provers' language without a definition, so  *)
(* that nothing can be proved of it.                                       *)
(***************************************************************************)
EXTENDS Naturals, Sequences

(* Selected(s, E)[i]: what is selected of the first i members of s.        *)
Selected(s, E) ==
  LET chosen[i \in 0 .. Len(s)] ==
        IF i = 0 THEN << >>
        ELSE IF s[i] \in E THEN Append(chosen[i - 1], s[i])
        ELSE chosen[i - 1]
  IN  chosen

Select(s, E) == Selected(s, E)[Len(s)]
=============================================================================
