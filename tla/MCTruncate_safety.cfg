CONSTANTS
  f1 = f1
  f2 = f2
  r1 = r1
  None = None
  Fid = {f1, f2}
  Reader = {r1}
  MaxLen = 3
  Blksz = 2
  Instance <- Safety
SPECIFICATION Spec
SYMMETRY Fids
INVARIANTS TypeOK WriteKept NothingOldShows
CHECK_DEADLOCK FALSE
