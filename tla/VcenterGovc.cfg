SPECIFICATION GovcFairSpec
CONSTANTS
  Removable = {floppy1, ethernet1, ethernet2}
  CDRom = {cdrom1, cdrom2}
  MaxRuns = 3
  Capacity = 2
  MaxOutput = 5
  MaxCalls = 2
INVARIANTS
  StemcellIsStripped
  CaptureIsTrue
PROPERTIES
  DeliversOrLeaves
  RefusedRunIsHarmless
  ListingReturns
  ListsAtOnce
CHECK_DEADLOCK FALSE
