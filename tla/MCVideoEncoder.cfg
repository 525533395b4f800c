SPECIFICATION FairSpec
CONSTANTS
  Msgs = {m1}
  Workers = {w1, w2}
  NoDelivery = NoDelivery
  Prefetch = 2
  MaxSessions = 2
  MinBackoff = 1
  MaxBackoff = 1
  BrokerMayRestart = TRUE
  Videos = {v1}
  Jobs = {j1, j2}
  DbMayFail = FALSE
  VideoOf <- MCVideoOf
INVARIANTS
  AckedIsCompleted
  DeadYetCompletedIsExplained
PROPERTIES
  EveryMessageDecided
  AttemptsEnd
