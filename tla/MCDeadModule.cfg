CONSTANTS
  Mods <- MCMods
  Graphs <- MCGraphs
SPECIFICATION Spec
INVARIANTS TypeOK NoDanglingImport EffectsKept
PROPERTY ImplementsPureCall
CHECK_DEADLOCK FALSE
