SPECIFICATION FairSpec
CONSTANTS
  Versions = {v1}
  Absent = absent
  NoVersion = none
  NilBytes = nil
  Bytes = {b1, b2}
  BadBytes = {}
  Capacity = 0
  Replicas = {A, B}
  Requests = {q1, q2}
  EnableLocalCache = TRUE
  EnableRedCache = TRUE
  IsRedisCluster = FALSE
  Ops = {"set", "delete"}
  SerialSets = TRUE
  MaxRequests = 3
  MaxFaults = 0
INVARIANTS
  StaleOnlyInTransit
PROPERTIES
  RequestsEnd
  Convergence
CHECK_DEADLOCK FALSE
