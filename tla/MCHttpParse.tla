---------------------------- MODULE MCHttpParse ----------------------------
(***************************************************************************)
(* The streams TLC tries: a request line, or none, then up to MaxPieces    *)
(* pieces in any order, then an end mark and sometimes more; or something  *)
(* else altogether.                                                        *)
(***************************************************************************)
EXTENDS HttpParse

CONSTANT MaxPieces

CrLf == <<"cr", "lf">>

Pieces == {<<"x">>, <<"sp">>, <<"colon", "sp">>, <<"lf">>, CrLf, <<"cr">>}

Mixed == {FlattenSeq(s) : s \in UNION {[1 .. n -> Pieces] : n \in 0 .. MaxPieces}}

RequestLines ==
  {<< >>, <<"GET", "sp", "x", "sp", "HTTP/1.0">> \o CrLf,
   <<"GET", "sp", "x", "x", "x", "sp", "HTTP/1.1">> \o CrLf \o <<"x", "colon", "x">> \o CrLf}

HttpTwo == <<"PRI", "cr", "lf", "cr", "lf", "SM", "cr", "lf", "cr", "lf">>

MCStreams ==
  {r \o m \o EndMark : r \in RequestLines, m \in Mixed}
  \cup {r \o m \o EndMark \o <<"x">> : r \in RequestLines, m \in Pieces}
  \cup {<< >>, HttpTwo, <<"PRI", "sp", "x">> \o EndMark, SubSeq(HttpTwo, 1, 4)}
  \cup {<<"GET", "nul">> \o EndMark, <<"GET", "sp", "x", "cr", "lf">>}
  \cup {r \o <<"Upgrade", "colon", v>> \o EndMark : r \in RequestLines, v \in {"h2c", "x"}}
=============================================================================
