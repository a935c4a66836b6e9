\* Every two requests pipelined on one connection next to another connection.
SPECIFICATION Spec
CONSTANTS
  c1 = c1  c2 = c2  w1 = w1  w2 = w2
  Conns = {c1, c2}
  TlsConns = {c1}
  Fds = {4, 5}
  Workers = {w1, w2}
  Menu <- MCMenu
  Bodies <- MCBodies
  MaxSent <- MCMaxSent
  Size <- MCSize
  Missing = {"none"}
  Traversal = {"dots"}
  Directories = {"dir"}
  ErrorSize = 5
  IntLimit = 8
  Refusals = {431}
  Faults = {"ingress", "short", "write"}
  None = None
  Torn = Torn
SYMMETRY Symmetry
INVARIANTS TypeOK KeptIsFramed AnswersInOrder WireIsOwn ContextsAccounted
\* both clients have been served, or the workers have stopped
CHECK_DEADLOCK FALSE
