SPECIFICATION Spec
CONSTANTS
  Workers = {w1, w2}
  Keys = {k1, k2}
  k1 = k1
  k2 = k2
  Loaded = {k1}
  NumDeltas = 2
  EpochLen = 1
  TagMod = 2
  Programs <- OneRecord
  MaxTs = 4
  NoOne = NoOne
CHECK_DEADLOCK FALSE
SYMMETRY Symmetry
INVARIANTS NewestToOldest
