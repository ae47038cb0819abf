SPECIFICATION FairSpec
CONSTANTS
  NREG = 4
  WORD = 8
  BUFNUM = 1
  HISTMODES = 2
  Programs <- ControlPrograms
  Memories <- OneMemory
  DataAddr <- Word
  ENTRY = 0
  A0 = 2
  A7 = 3
  SPREG = 1
  STACKTOP = 5
  SYS_PRINT = 1
  SYS_PRINTSTR = 8
  SYS_SCANINT = 2
  SYS_EXIT = 3
  Schemes = {"SelfAdj"}
  Junk <- OneJunk
PROPERTIES
  HistoryRecordsOutcome
