SPECIFICATION Spec
CONSTANTS
  BLOCKNUM = 3
  BLOCK_SIZE = 2
  Value = {0, 1}
  Setups <- AllSetups
  MAXAGE = 2
  MAXBYTES = 2
INVARIANTS
  TypeOK
  HeldOnce
  CleanIsBacked
  WriteThroughIsClean
PROPERTIES
  ImplementsFlatMemory
