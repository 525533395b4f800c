SPECIFICATION FairSpec
CONSTANTS
  Msgs = {m1}
  Workers = {w1}
  NoDelivery = NoDelivery
  Prefetch = 1
  MaxSessions = 3
  MinBackoff = 1
  MaxBackoff = 2
  BrokerMayRestart = FALSE
PROPERTIES
  EventuallySettled
  ShutdownCompletes
  ConsumerRecovers
  ImplementsAtLeastOnce
