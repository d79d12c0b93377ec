SPECIFICATION Spec
CONSTANTS
  Width = 6
  Gigabyte = 16
  Megabyte = 3
  MaxSize = 12
  MaxFree = 40
INVARIANTS
  TwoFilesFit
  AskedIsNeeded
  OneMoreIsEnough
CHECK_DEADLOCK FALSE
