SPECIFICATION FairSpec
CONSTANTS
  Workers = {w1, w2}
  MaxTs = 3
  TagMod = 2
  INT64_MIN <- SmallInt64Min
INVARIANTS TypeOK CollectionExclusive ReadersCount EpochCoversVersions
PROPERTIES ResetOnlyUnneeded ImplementsStore CollectionEnds
