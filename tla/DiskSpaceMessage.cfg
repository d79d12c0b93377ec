SPECIFICATION FairSpec
CONSTANTS
  Width = 6
  Gigabyte = 16
  Megabyte = 3
  MaxSize = 8
  MaxFree = 30
PROPERTY FreeingIsEnough
CHECK_DEADLOCK FALSE
