SPECIFICATION FairSpec
CONSTANTS
  c1 = c1
  c2 = c2
  c3 = c3
  chat = chat
  wallet = wallet
  t1 = t1
  t2 = t2
  w1 = w1
  w2 = w2
  Calls <- ThreeCalls
  Callers <- TwoCallers
  CallerOf <- CallsOfBoth
  Nestable <- LastTwo
  Threads <- TwoThreads
  Workers <- TwoWorkers
  MaxInstances = 2
INVARIANTS
  CallerIsOwn
  NoCallerLeftStanding
PROPERTIES
  ImplementsLedger
  AcceptedIsAnswered
CHECK_DEADLOCK FALSE
