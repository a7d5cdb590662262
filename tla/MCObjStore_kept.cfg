CONSTANTS
  f1 = f1
  f2 = f2
  r1 = r1
  a = a
  b = b
  None = None
  Fid = {f1}
  Reader = {}
  Oid = {1, 2}
  Val = {a}
  MaxChunks = 3
  MaxVer = 4
  MaxRecs = 1
  Objkeep = 3
  Flush = 1
  Env = {"abort", "cut"}
SPECIFICATION Spec
INVARIANT KeptIntact
CHECK_DEADLOCK FALSE
