SPECIFICATION FairSpec
CONSTANTS
  p1 = p1  p2 = p2
  Producers = {p1, p2}
  Logger = Logger
  Size <- RingSize
  Batch <- BatchSize
  MaxWrites = 2
  JoinFirst = FALSE
  Faults = {"access", "event"}
  NoMsg = NoMsg
INVARIANTS TypeOK EventsAccounted WakeupsReachLogger
PROPERTIES BlockedWritersMove ShutdownDrains
\* the logger ends, or no thread has anything left to log
CHECK_DEADLOCK FALSE
