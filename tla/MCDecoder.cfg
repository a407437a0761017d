\* All inputs, read in every way.
CONSTANTS
  Module <- Modules
  HeaderCount = 6
  Jobs <- AllJobs
SPECIFICATION Spec
INVARIANTS
  IntactAllStored
  StoredIntact
  DebugLosesOnlyHit
  CrashedKnown
PROPERTIES
  WordsInOrder
CHECK_DEADLOCK FALSE
