\* More connections than both queues and the worker hold.
SPECIFICATION Spec
CONSTANTS
  f1 = f1  f2 = f2  f3 = f3  f4 = f4  w1 = w1  l1 = l1
  Fds = {f1, f2, f3, f4}
  Workers = {w1}
  Listeners = {l1}
  TlsListeners = {}
  QueueCap = 1
  AcceptWakes = TRUE
  Faults = {"epoll_ctl"}
  NoFd = NoFd
SYMMETRY Symmetry
INVARIANTS TypeOK ExclusiveOwner NoDescriptorLeak PoolMonitored CircularWaitNeedsOverload
PROPERTIES NoPushAfterClose
\* the server stops, or hangs in a way ShutdownOutcome names
CHECK_DEADLOCK FALSE
