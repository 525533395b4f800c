SPECIFICATION Spec
CONSTANTS
  Workers = {w1}
  Videos = {v1}
  Jobs = {j1, j2}
  None = None
  DbMayFail = FALSE
  MaxCrashes = 1
INVARIANT
  RedeliveryCanProceed
