----------------------------- MODULE MCIlTrace -----------------------------
(* Small instances of IlTrace for TLC.                                     *)
EXTENDS IlTraceProps

CONSTANTS
  a, b,             \* two guest addresses
  w1, w2,           \* two workers
  rax, rbx, rsp,    \* registers of x86
  ra,               \* the link register of the other architectures
  t1, t2, t3        \* temporaries

MCPc == {a, b}
MCAsids == {1, 2}
MCWorkers == {w1, w2}
MCTemp == <<t1, t2, t3>>
MCTemps == {t1, t2, t3}
MCScalar == {rax, rbx, rsp, ra} \cup MCTemps

-----------------------------------------------------------------------------
(* Code: x86 machine code, or IL of the other architectures.              *)

X86(code) == [x86 |-> code, il |-> x86_lift(code)]
Raw(cfg) == [x86 |-> <<>>, il |-> cfg]

\* Bytes that Falcon cannot translate.
Bad == Raw(NotLifted)

Insn(op, mode, reg, imm, to) ==
  [op |-> op, mode |-> mode, reg |-> reg, imm |-> imm, to |-> to]

Imm(op, addr) == Insn(op, "imm", NoReg, addr, NoReg)
Reg(op, reg) == Insn(op, "reg", reg, NoPc, NoReg)
Mem(op, reg) == Insn(op, "mem", reg, NoPc, NoReg)
Ret == Insn("ret", "none", NoReg, NoPc, NoReg)
Pop(reg) == Insn("pop", "none", NoReg, NoPc, reg)

\* Instructions before the last: traffic on the stack and in registers.
MCBody ==
  {Reg("push", rax), Pop(rax), Insn("mov", "mem", rsp, NoPc, rax),
   Insn("mov", "mem", rax, NoPc, rbx), Insn("mov", "reg", rbx, NoPc, rax)}

\* The last instruction: every kind of call, jump and return.
MCEnd ==
  {Imm("call", b), Reg("call", rax), Mem("call", rbx), Mem("call", rsp),
   Mem("call", NoReg), Ret, Reg("jmp", rax), Mem("jmp", rbx),
   Mem("jmp", rsp), Mem("jmp", NoReg), Imm("jcc", b)}

MCX86Code ==
  LET bodies == BoundedSeq(MCBody, 2)
  IN  {X86(Append(body, end)) : body \in bodies, end \in MCEnd}
        \cup {X86(body) : body \in bodies \ {<<>>}}

\* Two IL instructions, what the first does to the link register and where
\* the second branches: a link in a delay slot is one that does both.
MCLinkCode ==
  {Raw(<< <<first, Goto(to)>> >>) :
     first \in {Il("assign", ra, <<>>), Il("assign", ra, <<ra>>),
                Il("load", t1, <<ra>>), Il("other", NoReg, <<>>)},
     to \in {b, ra, t1, NoTarget}}

-----------------------------------------------------------------------------
(* Recordings.                                                             *)

Block(addr, space, place, code) ==
  [pc |-> addr, asid |-> space, place |-> place,
   x86 |-> code.x86, il |-> code.il]

\* A block of each kind: two address spaces, a branch resolved by the next
\* block or not, a block without one.
MCTracedBlocks ==
  {Block(a, 1, "code", X86(<<Imm("jcc", b)>>)),
   Block(b, 1, "code", X86(<<Ret>>)),
   Block(a, 2, "code", X86(<<Mem("jmp", NoReg)>>)),
   Block(b, 1, "code", Bad),
   Block(a, 1, "code", X86(<<Imm("call", b)>>))}

MCOtherBlocks ==
  {Block(b, 1, "shared_object", X86(<<Ret>>)),
   Block(a, 1, "kernel", Bad),
   Block(a, 1, "unreadable", Bad)}

\* Every recording of four blocks of the first kind.
MCTracedRecordings == [1 .. 4 -> MCTracedBlocks]

\* Every recording of two blocks, of every kind.
MCMixedRecordings == [1 .. 2 -> MCTracedBlocks \cup MCOtherBlocks]

\* A single block of any code.
Alone(codes) == {<<Block(a, 1, "code", code)>> : code \in codes}

MCRecordings ==
  [cpu \in {"x86_64", "mips"} |->
     IF cpu = "x86_64"
       THEN MCTracedRecordings \cup MCMixedRecordings \cup Alone(MCX86Code)
       ELSE Alone(MCLinkCode)]

\* The recordings of x86_64 only, for what is said of its code.
MCX86Recordings == [cpu \in {"x86_64"} |-> MCRecordings[cpu]]

\* A block of any x86 code, and one that runs after it.
MCFollowedRecordings ==
  [cpu \in {"x86_64"} |->
     { <<Block(a, 1, "code", code), Block(b, 1, "code", X86(<<Ret>>))>> :
         code \in MCX86Code}]

\* A call into a library, between two blocks of the program.
MCLibraryRecordings ==
  [cpu \in {"x86_64"} |->
     { <<Block(a, 1, "code", X86(<<Reg("call", rax)>>)), lib,
         Block(a, 1, "code", X86(<<Ret>>))>> : lib \in MCOtherBlocks}]
=============================================================================
