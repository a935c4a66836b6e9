SPECIFICATION FairSpec
CONSTANTS
  c1 = c1  c2 = c2  p1 = p1  p2 = p2  w1 = w1  w2 = w2  r1 = r1
  Conns = {c1, c2}
  Pushers = {p1, p2}
  Poppers = {w1, w2}
  TryPoppers = {r1}
  Capacity <- QueueCapacity
  JoinFirst = TRUE
  NoConn = NoConn
INVARIANTS TypeOK NoLostWakeup NoSleeperAfterClose
PROPERTIES RefinesFifo ShutdownDrains PushersProgress
\* the queue stops once it is closed, drained and left by its threads
CHECK_DEADLOCK FALSE
