SPECIFICATION FairSpec
CONSTANTS
  k1 = k1
  u1 = u1
  u2 = u2
  NoAddr = NoAddr
  Addr <- MCAddr
  UserText <- MCUserText
  Blocks <- MCBlocks
  ReplayLen = 1
  OnStart = TRUE
  OnEntry = TRUE
  Arch = "i386"
CHECK_DEADLOCK FALSE
INVARIANTS TypeOK NoMutualWait Balanced BacklogBounded
PROPERTIES ImplementsHandshake CrashHasCause StartStop ResumeReturns
