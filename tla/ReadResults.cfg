SPECIFICATION Spec
CHECK_DEADLOCK FALSE
CONSTANTS
  Readers = {r1, r2}
  Quota <- Twice
  SignalEvery = 3
  RelBatch = 2
INVARIANTS ResultsReady
