SPECIFICATION Spec
CONSTANTS
  XLEN = 8
  WLEN = 4
  Cases <- AgreedCases
INVARIANTS
  DecodesAsEncoded
  ExecutesTheManual
  HazardFieldsAsModelled
CHECK_DEADLOCK FALSE
