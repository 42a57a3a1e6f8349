CONSTANTS
  Byte <- MCByte
  MaxLen = 4
SPECIFICATION Spec
CHECK_DEADLOCK FALSE
INVARIANTS
  HexInverse
  LeadingZeros
  Base64Digits
  JsonInverse
