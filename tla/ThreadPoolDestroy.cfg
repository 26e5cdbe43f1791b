SPECIFICATION FairSpec
CONSTANTS
  Threads = {t1, t2}
  Initial = {t1, t2}
  Tasks = {a}
  Needs <- Independent
  Elastic = FALSE
PROPERTIES DestructorReturns
CHECK_DEADLOCK FALSE
