SPECIFICATION FairSpec
CONSTANT GraceMs = 12
INVARIANTS
  FinishedIsTrue
  FinishNotMissed
PROPERTY AlwaysReturns
CHECK_DEADLOCK FALSE
