SPECIFICATION Spec
CONSTANTS
  Workers = {w1, w2}
  Videos = {v1}
  Jobs = {j1, j2}
  None = None
  DbMayFail = FALSE
  MaxCrashes = 0
INVARIANT
  CompletedIsWhole
