\* Up to seven combinations of clusters on three planes with any scores; a fourth
\* plane makes the manager throw.  Twelve combinations with equal scores, for a
\* longer enumeration and ties that the order of insertion decides.
CONSTANTS
  NPlanes = 3
  MinHits <- Cuts
  Events <- SomeEvents
  Scores <- ScoresOf
SPECIFICATION Spec
INVARIANTS
  EveryCombination
  MatchedOnce
  LosersLost
