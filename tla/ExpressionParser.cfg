SPECIFICATION Spec
CONSTANTS
  Sessions <- MCSessions
  Families = {"trees", "words", "starts", "numerals", "shared"}
  MaxInt32 = 1
  MaxInt64 = 3
  MaxFloat64 = 7
INVARIANTS
  TypeOK
  NodesInOrder
  NoOrphans
  LiteralsNarrowest
  MeansItsTree
