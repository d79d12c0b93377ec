SPECIFICATION FairSpec
CONSTANT MaxSignals = 2
INVARIANTS
  OutputIsWhole
  NothingElseBlocks
  ReturnCleansUp
  GoneOnlyWhenStopped
PROPERTIES
  DeliversOrLeaves
  InterruptIsFinal
  InterruptEndsCommand
CHECK_DEADLOCK FALSE
