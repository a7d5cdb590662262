CONSTANTS
  f1 = f1
  f2 = f2
  r1 = r1
  None = None
  Fid = {f1, f2}
  Reader = {r1}
  MaxLen = 2
  Blksz = 1
  Instance <- Live
SPECIFICATION LiveSpec
INVARIANT MarkOwned
PROPERTIES MutatorResumes GoneCleared
