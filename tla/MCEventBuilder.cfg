\* All programs over one to three streams, each any master, in debug mode or not.
CONSTANTS
  Inputs <- AllInputs
  Setups <- AllSetups
SPECIFICATION Spec
INVARIANTS
  NeverTorn
  StoredInOrder
  AgreedAllStored
  MissingModulesNoticed
PROPERTIES
  Returns
CHECK_DEADLOCK FALSE
