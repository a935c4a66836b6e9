----------------------------- MODULE MCRequest -----------------------------
(***************************************************************************)
(* An instance of Request for TLC: one client that may send two requests of*)
(* every kind, or a request and a body of every kind, on the HTTPS port,   *)
(* and one that sends a plain GET.                                         *)
(***************************************************************************)
EXTENDS Request, TLC

CONSTANTS c1, c2

Req(m, p) ==
  [method |-> m, version |-> "HTTP/1.1", host |-> TRUE, connection |-> None, path |-> p]

Plain == Req("GET", "file")

AllKinds ==
  {Plain, Req("HEAD", "file"), Req("PUT", "file"),
   Req("GET", "none"), Req("GET", "dir"), Req("GET", "huge"),
   [Plain EXCEPT !.version = "HTTP/1.0", !.connection = "Close"]}

MCMenu == c1 :> AllKinds @@ c2 :> {Req("HEAD", "file")}
Texts == [head : {FALSE}, req : {Garbled}] \cup [head : {TRUE}, req : {Garbled, Plain}]
MCBodies == c1 :> Texts @@ c2 :> {}
MCMaxSent == c1 :> 2 @@ c2 :> 1
MCSize == [file |-> 2, dir |-> 3, huge |-> 8, none |-> 0]   \* nothing there: any value

Symmetry == Permutations(Workers)
=============================================================================
