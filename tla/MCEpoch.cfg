CONSTANTS
  m1 = m1
  m2 = m2
  b1 = b1
  b2 = b2
  Worker = {m1, m2}
  Mutator = {m1, m2}
  Block = {b1, b2}
  NoBlock = NoBlock
  NoWorker = NoWorker
  CleanLimit = 1
SPECIFICATION LiveSpec
INVARIANTS TypeOK NoUseAfterFree OnePlace LimboCounted EpochInv
 
