SPECIFICATION Spec
CONSTANTS
  a = a
  b = b
  w1 = w1
  w2 = w2
  rax = rax
  rbx = rbx
  rsp = rsp
  ra = ra
  t1 = t1
  t2 = t2
  t3 = t3
  sp = rsp
  lr = ra
  NoPc = NoPc
  NoReg = NoReg
  NoTarget = NoTarget
  NotLifted = NotLifted
  Idle = Idle
  Pc <- MCPc
  Asids <- MCAsids
  Scalar <- MCScalar
  Temps <- MCTemps
  temp <- MCTemp
  Workers <- MCWorkers
  Recordings <- MCLibraryRecordings
  trace_lib = FALSE
CHECK_DEADLOCK FALSE
INVARIANTS DestinationIsNextExecuted
