SPECIFICATION Spec
CONSTANTS
  Handlers = {h1, h2}
  Videos = {v1}
  Jobs = {j1}
  None = None
SYMMETRY Symmetry
INVARIANTS
  TypeOK
  QueuedCanStart
  InternalErrorNeedsFault
  NamedIsFound
  StatusNeverGoesBack
