SPECIFICATION Spec
CONSTANTS
  Removable = {floppy1}
  CDRom = {cdrom1}
  MaxRuns = 1
INVARIANT SuccessMeansStemcell
CHECK_DEADLOCK FALSE
