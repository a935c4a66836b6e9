\* Every arrangement of four pieces behind three beginnings; fields of one or
\* two bytes, two headers.
SPECIFICATION Spec
CONSTANTS
  MaxPieces = 4
  Streams <- MCStreams
  Preface <- HttpTwo
  MaxHeader = 18
  MaxWord = 2
  MaxUri = 2
  MaxKey = 1
  MaxValue = 2
  MaxHeaders = 2
  Faults = {"EAGAIN", "EIO"}
INVARIANTS TypeOK PiecesDontMatter ParsesByLines
\* the request has been taken in
CHECK_DEADLOCK FALSE
