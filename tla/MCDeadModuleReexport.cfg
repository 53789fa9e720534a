CONSTANTS
  Mods <- MCMods
  Graphs <- ReexportGraphs
SPECIFICATION Spec
INVARIANTS ReexportsResolve
CHECK_DEADLOCK FALSE
