CONSTANTS
  Sources <- MCSources
  Producers <- MCProducers
  Levels <- MCLevels
  Compile <- MCCompile
  Restore <- MCRestore
  Empty <- MCEmpty
  Failed <- MCFailed
  MaxEdits = 3
SPECIFICATION FairSpec
INVARIANTS TypeOK SingleFlight ShownFresh
PROPERTIES PanesLatestWins Settles
CHECK_DEADLOCK FALSE
