SPECIFICATION Spec
CONSTANT MaxRuns = 2
INVARIANTS
  RestartIsProvisioned
  StemcellLacksOnlyMissed
  LeftoversDoNotCount
PROPERTY ScriptsAreConstructs
CHECK_DEADLOCK FALSE
