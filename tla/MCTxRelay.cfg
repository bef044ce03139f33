SPECIFICATION Spec
CONSTANTS
  good = good  bad = bad  c1 = c1  c2 = c2
  NoConn = NoConn
  Never = Never
  Txs = {good, bad}
  Conns = {c1, c2}
  Invalid = {bad}
  Messages <- MCMessages
  FlushDelays = {0, 1}
  Embargo = {1}
  ForwardDelay = {1}
  CheckEvery = 2
  MinRelay = 1
  MaxRelay = 1
  LiveTime = 6
  AltLiveTime = 4
  TimeRange = 16
  StartTime = 2
  MaxStrand = 1
  MaxTime = 5
SYMMETRY Peers
INVARIANTS
  StemIsScheduled
  
  FlushArmed
  PublicIsRepeated
CHECK_DEADLOCK FALSE
