SPECIFICATION Spec
CONSTANTS
  StripeSize = 2
  LogStripes = 1
  TipBlocks = 3
  V1 = {1, 3}
  CommitEvery = 2
  MaxHeight = 11
INVARIANTS
  MissingIsPruned
  TipIsComplete
  NextUnprunedIsNext
