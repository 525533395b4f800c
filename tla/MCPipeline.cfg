SPECIFICATION Spec
CONSTANTS
  Workers = {w1, w2}
  Videos = {v1, v2}
  Jobs = {j1, j2, j3}
  None = None
  DbMayFail = TRUE
  MaxCrashes = 1
SYMMETRY Symmetry
INVARIANTS
  TypeOK
  WorkDirExclusive
  InputsKept
  CompletedWasUploaded
  ResultMatchesRow
  UnfinishedIsExplained
PROPERTY ImplementsJobLifecycle
