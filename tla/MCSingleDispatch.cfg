SPECIFICATION FairSpec
CONSTANTS
  c1 = c1
  c2 = c2
  c3 = c3
  chat = chat
  wallet = wallet
  view = view
  Calls <- ThreeCalls
  Callers <- ThreeCallers
  CallerOf <- ThreeCallerOf
  CausedBy <- CallBack
  KindOf <- OneOfEachKind
INVARIANTS
  CallerIsOwn
  RefusalIsNoSuccess
PROPERTY DeliveredIsAnswered
CHECK_DEADLOCK FALSE
