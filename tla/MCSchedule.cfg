CONSTANTS
  N = 4
  Workers = {w1, w2, w3}
  Sizes = {0, 1, 2}
  Values <- MCValues
  Mapped <- MCMapped
  Idle = Idle
  Pending = Pending
SPECIFICATION FairSpec
INVARIANTS TypeOK LargestFirst
PROPERTIES ImplementsParMap Returns
CHECK_DEADLOCK FALSE
