SPECIFICATION FairSpec
CONSTANTS
  local = local
  tcp = tcp
  moduleName = moduleName
  otherName = otherName
  peer = peer
  storeLookup = storeLookup
  denyAll = denyAll
  Transports <- TwoTransports
  Names <- TwoNames
  Callers <- OneCaller
  Validators <- TwoValidators
INVARIANTS
  OneRegistration
  NeverUnvalidated
  DeliveredIsKept
  NothingLeftBehind
PROPERTIES
  WindowAccepts
  RegistrationReturns
CHECK_DEADLOCK FALSE
