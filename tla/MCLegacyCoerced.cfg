SPECIFICATION AdapterSpec
CONSTANTS
  Methods <- SmallMethods
  Requests <- SmallRequests
  MaxMethods = 2
  MaxArgs = 1
  IntHalf = 2
  LongHalf = 4
  DoubleExact = 3
INVARIANT
  NeverCoerced
CHECK_DEADLOCK FALSE
