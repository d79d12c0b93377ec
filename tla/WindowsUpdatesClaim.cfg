SPECIFICATION Spec
CONSTANTS
  Updates = {plain, other, kernel}
  CanRequestUserInput = {}
  NeedsRestart = {kernel}
  MaxUpdatesPerCycle = 2
  MaxCycles = 2
  AutoLogonCount = 3
  MaxFaults = 0
INVARIANT EveryBatchIsInstalled
CHECK_DEADLOCK FALSE
