SPECIFICATION FairSpec
CONSTANTS
  viewA = viewA
  viewB = viewB
  wallet = wallet
  Identities <- TwoIdentities
  Targets <- OneTarget
  Ambient = Ambient
  MaxMinted = 3
  MaxAsks = 1
  Chosen <- GivenRing
INVARIANTS
  TypeOK
  HeldWasAccepted
  HeldWasReturned
  CredentialsNameOneConsumer
  NoSilentLockout
  SpeaksAsItself
  OnlyAwaitedOutlivesRotation
PROPERTIES
  HostCallReturns
  ImplementsCredentials
