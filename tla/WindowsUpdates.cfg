SPECIFICATION FairSpec
CONSTANTS
  Updates = {plain, other, kernel, dialog}
  CanRequestUserInput = {dialog}
  NeedsRestart = {kernel}
  MaxUpdatesPerCycle = 2
  MaxCycles = 2
  AutoLogonCount = 4
  MaxFaults = 2
INVARIANTS
  RestartHasTask
  DoneIsTidy
  RestIsReachable
  GuardsAreExact
PROPERTY EndsReachable
CHECK_DEADLOCK FALSE
