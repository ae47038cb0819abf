SPECIFICATION Spec
CONSTANTS
  NREG = 4
  WORD = 8
  BUFNUM = 1
  HISTMODES = 2
  Programs <- FaultPrograms
  Memories <- OneMemory
  DataAddr <- MappedData
  ENTRY = 0
  A0 = 2
  A7 = 3
  SPREG = 1
  STACKTOP = 5
  SYS_PRINT = 1
  SYS_PRINTSTR = 4
  SYS_SCANINT = 2
  SYS_EXIT = 3
  Schemes = {"AlwaysNotTaken"}
  Junk <- OneJunk
PROPERTIES
  AbortsInAnISAState
  AbortsOnThePath
