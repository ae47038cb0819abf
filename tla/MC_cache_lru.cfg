SPECIFICATION Spec
CONSTANTS
  BLOCKNUM = 3
  BLOCK_SIZE = 2
  Value = {0, 1}
  Setups <- ByteSetups
  MAXAGE = 2
  MAXBYTES = 2
PROPERTIES
  AccessedIsNewest
