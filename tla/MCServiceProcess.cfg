CONSTANTS
  Sessions = {s1, s2, s3}
  ThreadCount = 2
  NoSession = NoSession
  UInt16Max = 3
  IntMax = 5
  ULongMax = 6
  MaxLabel = 2
  MaxHostname = 5
  NotANumber = NotANumber
  WrongType = WrongType
  Inputs <- MCInputs
  MaxAttempts = 2
SPECIFICATION FairSpec
INVARIANTS
  KeepsAccepting
  NothingOutlivesItsOwner
  RunsOnlyAsConfigured
PROPERTIES
  ShutdownCompletes
