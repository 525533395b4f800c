SPECIFICATION Spec
CONSTANTS
  Msgs = {m1}
  Workers = {w1}
  NoDelivery = NoDelivery
  Prefetch = 1
  MaxSessions = 2
  MinBackoff = 1
  MaxBackoff = 2
  BrokerMayRestart = TRUE
INVARIANT NothingDropped
