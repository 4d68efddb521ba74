SPECIFICATION AdapterSpec
CONSTANTS
  Methods <- SmallMethods
  Requests <- SmallRequests
  MaxMethods = 2
  MaxArgs = 1
  IntHalf = 2
  LongHalf = 4
  DoubleExact = 3
INVARIANTS
  DecodedIsRun
  BodySeesWhatWasSent
CHECK_DEADLOCK FALSE
