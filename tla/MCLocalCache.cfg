SPECIFICATION Spec
CONSTANTS
  Versions = {v1, v2, v3}
  Bytes = {b1, b2}
  NilBytes = nil
  Capacity = 2
  MaxUses = 6
INVARIANTS
  TypeOK
  Consistent
  Bounded
  OrderedByLastUse
PROPERTIES
  EvictsLeastRecentlyUsed
