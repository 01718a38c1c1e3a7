SPECIFICATION Spec
CONSTANTS
  Sessions <- MCSessions
  Families = {"trees"}
  MaxInt32 = 1
  MaxInt64 = 3
  MaxFloat64 = 7
INVARIANTS
  IndexEndsAtBracket
