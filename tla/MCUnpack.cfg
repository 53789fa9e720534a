SPECIFICATION Spec
CONSTANTS
  N = 3
  NotYet = NotYet
  NoName = NoName
  NoPath = NoPath
  CaseKey <- MCCaseKey
  Recovered <- MCRecovered
  Parts <- MCParts
  Jobs <- AllJobs
CHECK_DEADLOCK FALSE
INVARIANTS
  TypeOK OutputNamesDistinct ProvenanceOwn FailuresReported ReferencesResolve
  PredictionRight WrittenStaysCommonJs
PROPERTIES ImplementsPureCall PhasesAreParMaps Finishes
