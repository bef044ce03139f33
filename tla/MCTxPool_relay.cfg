SPECIFICATION Spec
CONSTANTS
  a = a
  b = b
  c = c
  Txs = {a, b}
  KeyImages = {"k1", "k2", "k3"}
  Inputs <- InputsOf
  Parents <- ParentsOf
  Weight <- WeightOf
  Fee <- FeeOf
  Accepted = {a, b}
  Blocks <- OfferedBlocks
  Arrivals = {"none", "local", "stem", "fluff"}
  Mine_stem_txes = TRUE
  TxWeightLimit = 2
  MaxPoolWeight = 100
  MaxBlockWeight = 3
  LiveTime = 0
  AltLiveTime = 1
  SizeRange = 8
  MaxTime = 1
  MaxChain = 1
INVARIANTS
  RestartSucceeds
CHECK_DEADLOCK FALSE
