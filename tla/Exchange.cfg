SPECIFICATION SumSpec
CHECK_DEADLOCK FALSE
CONSTANTS
  p1 = p1 p2 = p2 w1 = w1 r1 = r1 r2 = r2
  Producers = {p1, p2}
  Fanout = 2
  Slack = 1
  Quota <- RouterQuota
  MayRetry = TRUE
  RingSize = 2
  IndexMod = 8
  MoveBlocks = {b1, b2, b3, b4}
  ScaleOutTuples = 1
INVARIANTS
  ExchangeTypeOK RoutedBuffersSafe ServersInStep BlocksMovedSafely OffersAgree WritesPublished ReadsAccounted
PROPERTIES
  ImplementExchange ExchangesFinish
