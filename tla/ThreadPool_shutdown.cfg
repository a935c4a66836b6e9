\* Linux; queues of one place.
SPECIFICATION FairSpec
CONSTANTS
  f1 = f1  f2 = f2  f3 = f3  w1 = w1  l1 = l1
  Fds = {f1, f2, f3}
  Workers = {w1}
  Listeners = {l1}
  TlsListeners = {}
  QueueCap = 1
  AcceptWakes = FALSE
  Faults = {}
  NoFd = NoFd
PROPERTIES ShutdownOutcome
\* the server stops, or hangs in a way ShutdownOutcome names
CHECK_DEADLOCK FALSE
