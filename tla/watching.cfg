CONSTANTS
  a = a
  b = b
  i1 = i1
  i2 = i2
  Names = {a, b}
  Inodes = {i1, i2}
  NONE = NONE
  MaxRecords = 3
  MaxBatch = 2
  MaxBreaks = 1
  Found <- MCFound
  OldUsns = {2}
SPECIFICATION Spec
INVARIANTS TypeOK RecoveryExact CaughtUpExact DurableAtRest
PROPERTIES BufferAtomic CatchesUp
CHECK_DEADLOCK FALSE
