SPECIFICATION FairSpec
CONSTANTS
  g = g  a1 = a1  a2 = a2  a3 = a3  a4 = a4  b1 = b1  b2 = b2  b3 = b3  b4 = b4  c2 = c2  c3 = c3  c4 = c4
  d4 = d4  e2 = e2  f1 = f1
  t1 = t1  t2 = t2  t3 = t3  t4 = t4  t5 = t5
  Blocks = {a1, a2, a3, a4, b1, b2, b3, b4, c4, e2}
  Genesis = g
  Prev <- MCPrev
  Time <- MCTime
  Pow <- MCPow
  TxsOf <- MCTxsOf
  Spends <- MCSpends
  Flaw <- NoFlaws
  Major <- OneEarly
  VersionAt <- TwoVersions
  BlocksCount <- GrowingCount
  NextDifficulty <- MCNextDifficulty
  ResetDifficulty <- OneReset
  Points <- NoTables
  MaxPops = 0
INVARIANTS
  RollbackRestores
  MainWorkIsWork
  RemovalsFindTheirBlocks
  BlocksInOnePlace
  MainChainSound
PROPERTY
  SwitchEnds
