CONSTANTS
  f1 = f1
  f2 = f2
  r1 = r1
  a = a
  b = b
  None = None
  Fid = {f1}
  Reader = {}
  Oid = {1}
  Val = {a}
  MaxChunks = 2
  MaxVer = 2
  MaxRecs = 1
  Objkeep = 1
  Flush = 1
  Env = {"remove", "crash"}
SPECIFICATION LiveSpec
INVARIANT RemovedClean
PROPERTIES StoreFreed RemovalEnds
CHECK_DEADLOCK FALSE
