CONSTANTS
  f1 = f1
  f2 = f2
  r1 = r1
  None = None
  Fid = {f1}
  Reader = {r1}
  MaxLen = 2
  Blksz = 1
  Instance <- Refusals
SPECIFICATION LiveSpec
PROPERTY MutatorResumes
CHECK_DEADLOCK FALSE
