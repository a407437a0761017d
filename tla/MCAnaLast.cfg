\* A loop over process_event() on an aligned input.
CONSTANTS
  DataTypes <- Types
  Content <- Files
  EventId <- Ids
  OutFile = "out"
  NumAnalyzers = 2
  Asks <- AskedTypes
  Jobs <- LoopJobs
  MaxArg = 3
SPECIFICATION Spec
PROPERTY LoopSavesAll
CHECK_DEADLOCK FALSE
