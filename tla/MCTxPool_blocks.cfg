SPECIFICATION Spec
CONSTANTS
  a = a
  b = b
  c = c
  Txs = {a, b, c}
  KeyImages = {"k1", "k2", "k3"}
  Inputs <- InputsOf
  Parents <- ParentsOf
  Weight <- WeightOf
  Fee <- FeeOf
  Accepted = {a, b, c}
  Blocks <- OfferedBlocks
  Arrivals = {"fluff"}
  Mine_stem_txes = FALSE
  TxWeightLimit = 2
  MaxPoolWeight = 2
  MaxBlockWeight = 3
  LiveTime = 0
  AltLiveTime = 1
  SizeRange = 8
  MaxTime = 0
  MaxChain = 2
INVARIANTS
  KeyImageIndex
  MinedOnce
  CachedTemplateIsValid
  InputCacheCoherent
  PoolIsListed
PROPERTIES
  NothingLost
  PruneReachesBound
CHECK_DEADLOCK FALSE
