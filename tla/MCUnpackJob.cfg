SPECIFICATION Spec
CONSTANTS
  NoPath = NoPath
  NoName = NoName
  CaseKey <- MCCaseKey
  Recovered <- MCRecovered
  Stems <- MCStems
  Jobs <- MCJobs
CHECK_DEADLOCK FALSE
INVARIANTS TypeOK NamesUnique EdgesResolve InputsAccounted
