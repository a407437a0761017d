\* Up to five algorithms, any mix of AND and OR, any memory for the index.
CONSTANT MaxAlgos = 5
SPECIFICATION ArraySpec
INVARIANTS
  IndexNeverDecides
  OneKindAsDocumented
