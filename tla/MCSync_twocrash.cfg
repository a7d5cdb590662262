CONSTANTS
  Size = 10
  LogCap = 4
  LogFloor = 2
  MaxUps = 2
  MaxSync = 2
  MaxCrash = 2
  Env = {"plain"}
SPECIFICATION Spec
INVARIANT Loadable
CHECK_DEADLOCK FALSE
