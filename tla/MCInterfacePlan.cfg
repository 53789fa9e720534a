CONSTANTS
  Inputs <- MCInputs
  None = None
SPECIFICATION FairSpec
INVARIANTS TypeOK WriteThroughAlias
PROPERTIES ImplementsPureCall BuildEnds
CHECK_DEADLOCK FALSE
