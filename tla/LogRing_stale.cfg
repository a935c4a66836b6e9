\* A second writer stores a message while the first one waits.
SPECIFICATION Spec
CONSTANTS
  p1 = p1  p2 = p2
  Producers = {p1, p2}
  Logger = Logger
  Size <- RingSize
  Batch <- BatchSize
  MaxWrites = 3
  JoinFirst = TRUE
  Faults = {}
  NoMsg = NoMsg
INVARIANTS EventsKept
\* the logger ends, or no thread has anything left to log
CHECK_DEADLOCK FALSE
