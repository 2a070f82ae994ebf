CONSTANTS
  Chars <- MCChars
  MaxLen = 4

SPECIFICATION Spec

INVARIANT TokensRejoin
INVARIANT CapacityMatchesSpec

CHECK_DEADLOCK FALSE
