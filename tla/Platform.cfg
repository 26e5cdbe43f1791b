SPECIFICATION SumSpec
CHECK_DEADLOCK FALSE
CONSTANTS
  a = a p1 = p1 p2 = p2 u1 = u1 u2 = u2
  Threads = {t1, t2, t3}
  Initial = {t1}
  Tasks = {a, b}
  Needs <- Pipeline
  Elastic = TRUE
INVARIANTS
  EnoughThreads NoSleepOverTasks NothingDropped WorkersInPhase BlocksConserved
  VersionsApart OrdersConsistent StockBooked
PROPERTIES
  ImplementsChannel EveryoneFinishes
