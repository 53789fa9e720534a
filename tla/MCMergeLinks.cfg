CONSTANTS
  Jobs <- MCJobs
  NumberOf <- MCNumberOf
  Specifier <- MCSpecifier
  NoNumber = "none"
  NoChunk = 0
  OtherLoad = 9
SPECIFICATION Spec
INVARIANTS LinkedToTheOne CallsAccounted
CHECK_DEADLOCK FALSE
