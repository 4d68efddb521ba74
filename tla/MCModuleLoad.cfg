CONSTANTS
  w1 = w1
  w2 = w2
  w3 = w3
  Workers <- MCWorkers
SPECIFICATION FairSpec
INVARIANTS
  SemaphoresOutliveTasks
  ReadyIsEquipped
PROPERTIES
  ConstructorReturns
  NoWorkerCreatedLate
CHECK_DEADLOCK FALSE
