\* queue_trypop returns -1 and the drain loop tests for 1.
SPECIFICATION FairSpec
CONSTANTS
  f1 = f1  w1 = w1  l1 = l1
  Fds = {f1}
  Workers = {w1}
  Listeners = {l1}
  TlsListeners = {}
  QueueCap = 2
  AcceptWakes = TRUE
  Faults = {}
  NoFd = NoFd
PROPERTIES WaitRoomStops
\* the server stops, or hangs in a way ShutdownOutcome names
CHECK_DEADLOCK FALSE
