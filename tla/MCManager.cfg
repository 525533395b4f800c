SPECIFICATION Spec
CONSTANTS
  Msgs = {m1, m2}
  Workers = {w1, w2}
  NoDelivery = NoDelivery
  Prefetch = 2
  MaxSessions = 3
  MinBackoff = 1
  MaxBackoff = 2
  BrokerMayRestart = TRUE
SYMMETRY Symmetry
INVARIANTS
  TypeOK
  SettledByOutcome
  AttemptedOncePerSession
  TagsKnown
  NoSendOnClosed
  StartedIsSettledAtClose
  ConsumerRunsUntilCancelled
  HandoffBlocksOnlyOnStale
