\* Up to four clusters on two planes in every set-up of the manager; five of a
\* plane and one of another where it only merges, for up to four iterations, so
\* that several book keepers are combined and the switch spares pairs.
CONSTANTS
  Events <- SomeEvents
  Configs <- AllConfigs
  MaxClusters = 6
SPECIFICATION Spec
INVARIANTS
  HitsConserved
  BookMatchesOutput
  NeverThrown
  NothingLeftToMerge
PROPERTY Returns
