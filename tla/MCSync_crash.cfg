CONSTANTS
  Size = 10
  LogCap = 3
  LogFloor = 2
  MaxUps = 2
  MaxSync = 2
  MaxCrash = 1
  Env = {"compress", "plain", "cache", "torn"}
SPECIFICATION Spec
INVARIANTS TypeOK Loadable Recovered CommittedIntact FreeUnused
CHECK_DEADLOCK FALSE
