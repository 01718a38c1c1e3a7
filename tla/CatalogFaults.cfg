SPECIFICATION Spec
CONSTANTS
  Versions = {v1}
  Absent = absent
  NoVersion = none
  NilBytes = nil
  Bytes = {b1, b2}
  BadBytes = {}
  Capacity = 0
  Replicas = {A, B}
  Requests = {q1, q2}
  EnableLocalCache = TRUE
  EnableRedCache = TRUE
  IsRedisCluster = TRUE
  Ops = {"set", "delete", "get"}
  SerialSets = FALSE
  MaxRequests = 3
  MaxFaults = 1
SYMMETRY Symmetry
INVARIANTS
  TypeOK
  ServedWasCommitted
CHECK_DEADLOCK FALSE
