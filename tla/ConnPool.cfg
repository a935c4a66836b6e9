\* Three connections for a pool of two, and one event per wait.
SPECIFICATION Spec
CONSTANTS
  f1 = f1  f2 = f2  f3 = f3
  Fds = {f1, f2, f3}
  Capacity = 2
  MaxEvents = 1
  TicksPerSecond = 2
  MaxTick = 1
  KeepSeconds = 1
  Unwatched = {f3}
  LastTick = 4
SYMMETRY Symmetry
INVARIANTS TypeOK SweepFindsAll NoOverstay
PROPERTIES RefinesKeepAlive
