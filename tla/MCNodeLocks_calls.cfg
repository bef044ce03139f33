SPECIFICATION Spec
CONSTANTS
  p2p = p2p
  any = any
  idle = idle
  w = w
  NoThread = NoThread
  Threads = {p2p, any, idle}
  Workers = {w}
  Entries <- EveryKind
  MaxCalls = 1
INVARIANTS
  WritesAreOwn
  MapIsStill
  StoppedReadExists
  NothingKept
PROPERTIES
  CallsReturn
CHECK_DEADLOCK FALSE
