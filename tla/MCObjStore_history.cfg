CONSTANTS
  f1 = f1
  f2 = f2
  r1 = r1
  a = a
  b = b
  None = None
  Fid = {f1, f2}
  Reader = {r1}
  Oid = {1}
  Val = {a}
  MaxChunks = 2
  MaxVer = 3
  MaxRecs = 2
  Objkeep = 2
  Flush = 1
  Env = {"abort", "delete", "fail", "old"}
SPECIFICATION Spec
INVARIANTS KeptIntact NoStray OpenTx ReadWhole
CHECK_DEADLOCK FALSE
