SPECIFICATION FairSpec
CONSTANTS
  MaxFiles = 3
  Concurrency = {0, 2, 4}
  Capacity = 1
  Tree <- MCTree
  Stores <- MCStoresSlash
  Outputs <- MCOutputs
  Videos = {"v1", "v2"}
\* The call ends; that it does not stop before is CallReturns.
CHECK_DEADLOCK FALSE
INVARIANT NamedByRelativePath
