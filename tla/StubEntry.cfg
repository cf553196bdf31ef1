SPECIFICATION Spec
CONSTANTS
  k1 = k1
  u1 = u1
  u2 = u2
  NoAddr = NoAddr
  Addr <- MCAddr
  UserText <- MCUserText
  Blocks <- MCBlocks
  ReplayLen = 3
  OnStart = FALSE
  OnEntry = TRUE
  Arch = "x86_64"
CHECK_DEADLOCK FALSE
INVARIANTS EntryHooked
PROPERTIES EntryStop
