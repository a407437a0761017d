\* Four input clusters: Combine has groups of two and three results to merge.
CONSTANT MaxLen = 4
SPECIFICATION BookSpec
INVARIANTS
  TypeOK
  NumberedInOrder
  NoStaleFlags
  CombineComposes
PROPERTIES
  SeparationIsForever
  ImplementsPartition
