SPECIFICATION Spec
CONSTANTS
  Uninit = uninit
  NoData = noData
  BASE = 8
  InstrName = {"add", "mul"}
  BLOCK_SIZE = 2
  MAXLINES = 3
  INT = 32
  DEFAULT_SIZE = 8
  DEFAULT_ASSOCIATIVITY = 2
  Uninitialised <- Garbage
  Setups <- AllSetups
INVARIANTS
  ParametersOfTheirOwnLines
  StartsWithProperCaches
  SegmentsUpToTheFirstGap
CHECK_DEADLOCK FALSE
