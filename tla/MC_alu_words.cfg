SPECIFICATION Spec
CONSTANTS
  XLEN = 8
  WLEN = 4
  Cases <- DivergingCases
INVARIANT ExecutesTheManual
CHECK_DEADLOCK FALSE
