SPECIFICATION FairSpec
CONSTANTS
  AbortAttempts = 5
  MaxRuns = 2
INVARIANTS
  GuardsAreExact
  RebootFinishedIsTrue
  TestRebootOwned
  PostRebootUndisturbed
  SuccessIsSealed
  PostFailureIsReal
PROPERTIES
  PostRebootStartsClean
  WinRMStaysOff
  EnableWaitEnds
  RebootWaitEnds
  AbsSpec
CHECK_DEADLOCK FALSE
