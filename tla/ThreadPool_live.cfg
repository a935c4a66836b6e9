\* Connections that fit the queues; one worker, which may be kept busy.
SPECIFICATION FairSpec
CONSTANTS
  f1 = f1  f2 = f2  w1 = w1  l1 = l1
  Fds = {f1, f2}
  Workers = {w1}
  Listeners = {l1}
  TlsListeners = {l1}
  QueueCap = 2
  AcceptWakes = TRUE
  Faults = {"SSL_new", "hang_up"}
  NoFd = NoFd
PROPERTIES ReadyServed ExpiredLeaves
\* the server stops, or hangs in a way ShutdownOutcome names
CHECK_DEADLOCK FALSE
