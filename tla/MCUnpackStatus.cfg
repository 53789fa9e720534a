SPECIFICATION Spec
CONSTANTS
  N = 3
  NotYet = NotYet
  NoName = NoName
  NoPath = NoPath
  CaseKey <- MCCaseKey
  Recovered <- MCRecovered
  Parts <- MCParts
  Jobs <- NameJobs
CHECK_DEADLOCK FALSE
INVARIANT DecompiledMeansCompleted
