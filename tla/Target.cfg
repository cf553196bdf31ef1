SPECIFICATION Spec
CONSTANTS
  a1 = a1
  a2 = a2
  v1 = v1
  p1 = p1
  NoAddr = NoAddr
  Unmapped = Unmapped
  Changed = Changed
  Zero = Zero
  NoView = NoView
  NoArg = NoArg
  Archs <- MCArchs
  Addr <- MCAddr
  Virt <- MCVirt
  Phys <- MCPhys
  Lines <- MCLines
  MaxU32 = 1
  MaxU64 = 3
  MaxPackets = 3
INVARIANTS TypeOK ViewTrue NoStrayJump
