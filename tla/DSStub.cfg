SPECIFICATION StubFairSpec
CONSTANTS
  Ids = 8
  Chans = 3
  Seqs = 8
  Types = 3
  MaxBits = 32
  Byte = 4
  Block = 3
  MaxLost = 1
  MaxEarly = 1
  MaxIdle = 1
  MaxDup = 1
INVARIANTS CodecsAgree AckedIsHandled
PROPERTIES LoginCompletes
CHECK_DEADLOCK FALSE
