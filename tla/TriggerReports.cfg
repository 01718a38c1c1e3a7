CONSTANTS
  Slots = {s1}
  Names = {"a", "b"}
  NoName = ""
  Payloads <- MCPayloads
  MaxRequests = 2
SPECIFICATION Spec
INVARIANTS
  ReportsOnlyOwnViolations
CHECK_DEADLOCK FALSE
