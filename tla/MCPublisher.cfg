SPECIFICATION FairSpec
CONSTANTS
  Handlers = {h1, h2, h3}
  None = None
INVARIANTS
  TypeOK
  NeverSendsOnNil
  NoConnectionLeaked
  QueuedAtMostOnce
  PastOutagesCostNothing
PROPERTY RequestsAnswered
