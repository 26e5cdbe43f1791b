SPECIFICATION FairSpec
CONSTANTS
  N = 2
  Hot = 0
  NumIters = 0
  Scripts <- Export
CHECK_DEADLOCK FALSE
PROPERTIES ShutdownCompletes
