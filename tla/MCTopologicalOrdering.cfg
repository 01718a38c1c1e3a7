SPECIFICATION FairSpec
CONSTANTS
  Nodes = {1, 2, 3}
INVARIANTS
  SearchInv
  OrderIsTopological
  CycleIsReal
PROPERTIES
  SearchEnds
CHECK_DEADLOCK FALSE
