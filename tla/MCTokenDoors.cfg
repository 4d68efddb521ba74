SPECIFICATION Spec
CONSTANTS
  chat = chat
  wallet = wallet
  Modules <- TwoModules
  MaxTokens = 3
SYMMETRY ModuleSymmetry
INVARIANTS
  AcceptedAsGranted
  RejectedWasSuperseded
  HandedIsInBothImages
CHECK_DEADLOCK FALSE
