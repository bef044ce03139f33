SPECIFICATION Spec
CONSTANTS
  p2p = p2p
  any = any
  idle = idle
  w = w
  NoThread = NoThread
  Threads = {any, idle}
  Workers = {w}
  Entries <- HistogramAndTemplate
  MaxCalls = 1
INVARIANTS
  GateSuffices
CHECK_DEADLOCK FALSE
