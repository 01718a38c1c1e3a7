CONSTANTS
  Slots = {s1, s2}
  Names = {"a", "b"}
  NoName = ""
  Payloads <- MCPayloads
  MaxRequests = 2
SPECIFICATION Spec
SYMMETRY Symmetry
INVARIANTS
  TypeOK
  EachFaultReported
  ExpressionsResolve
  
CHECK_DEADLOCK FALSE
