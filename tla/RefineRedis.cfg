SPECIFICATION Spec
CONSTANTS
  Versions = {v1}
  Absent = absent
  NoVersion = none
  NilBytes = nil
  Bytes = {b1, nil}
  BadBytes = {bad}
  Capacity = 0
  Replicas = {A, B}
  Requests = {q1, q2}
  EnableLocalCache = FALSE
  EnableRedCache = TRUE
  IsRedisCluster = FALSE
  Ops = {"set", "delete", "get"}
  SerialSets = FALSE
  MaxRequests = 3
  MaxFaults = 1
PROPERTIES
  ImplementsCatalogStore
CHECK_DEADLOCK FALSE
