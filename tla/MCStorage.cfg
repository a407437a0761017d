\* Two sessions in every mode, with two events each: a file is written and read
\* back, or a second open() follows close() without reset().
CONSTANTS
  DataTypes <- Types
  Content <- Files
  EventId <- Ids
  OutFile = "out"
  InLists <- Lists
  ReadSets <- Selections
  MaxOpens = 2
  MaxEvents = 2
SPECIFICATION Spec
INVARIANTS
  LoopWithinTrees
  ProductsOfOneEvent
  WrittenAsRead
  OutputAligned
PROPERTIES
  FileIsComplete
