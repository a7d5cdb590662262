CONSTANTS
  Addr = {11, 12, 13}
  HeapSizes = {4}
  MaxTree = 1
  Nil = Nil
SPECIFICATION LiveSpec
INVARIANTS TypeOK HeapLeast NoLostWrite FreeLast FenceHolds
PROPERTY SyncEnds
