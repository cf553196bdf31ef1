SPECIFICATION Spec
CONSTANTS
  k1 = k1
  u1 = u1
  u2 = u2
  NoAddr = NoAddr
  Addr <- MCAddr
  UserText <- MCUserText
  Blocks <- MCOneBlock
  ReplayLen = 1
  OnStart = TRUE
  OnEntry = FALSE
  Arch = "x86_64"
CHECK_DEADLOCK FALSE
INVARIANTS CpuLockSound
