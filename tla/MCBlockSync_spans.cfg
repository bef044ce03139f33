SPECIFICATION Spec
CONSTANTS
  p = p  p2 = p2  g = g  a1 = a1  a2 = a2  b2 = b2
  None = None
  Conns = {p, p2}
  Chain <- Branches
  Invalid = {b2}
  Flaky = {p2}
  SyncSize = 1
  NSpans = 1
  Near = 1
INVARIANTS
  RequestedIsCovered
  NoneForgotten

  
