\* Two analyzers, inputs of two events, programs of all three styles; a program
\* may stop calling at any time.
CONSTANTS
  DataTypes <- Types
  Content <- Files
  EventId <- Ids
  OutFile = "out"
  NumAnalyzers = 2
  Asks <- AskedTypes
  Jobs <- AllJobs
  MaxArg = 3
SPECIFICATION Spec
INVARIANTS
  AnalyzersLiveOnce
  EventsUnmixed
  RunFinalizesOnce
PROPERTIES
  RunSavesAll
  LoopEnds
CHECK_DEADLOCK FALSE
