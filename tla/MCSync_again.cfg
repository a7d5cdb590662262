CONSTANTS
  Size = 10
  LogCap = 4
  LogFloor = 2
  MaxUps = 2
  MaxSync = 2
  MaxCrash = 2
  Env = {"compress"}
SPECIFICATION Spec
INVARIANTS Recovered CommittedIntact FreeUnused
CHECK_DEADLOCK FALSE
