SPECIFICATION FairSpec
CONSTANTS
  Workers = {w1, w2}
  Keys = {k1, k2}
  k1 = k1
  k2 = k2
  Loaded = {k1, k2}
  NumDeltas = 2
  EpochLen = 1
  TagMod = 2
  Programs <- Audited
  MaxTs = 3
  NoOne = NoOne
CHECK_DEADLOCK FALSE
INVARIANTS PendingUpdatesLocked
PROPERTIES TxnsEnd
