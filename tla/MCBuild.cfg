CONSTANTS
  wallet = wallet
  storage = storage
  Deps <- TwoDeps
  MaxRuns = 2
SPECIFICATION Spec
INVARIANTS
  ZeroExitIsWholePair
  TokensReachTheWrappers
  BuiltHasItsWrappers
  InstalledIsUsable
CHECK_DEADLOCK FALSE
