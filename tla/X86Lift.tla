------------------------------ MODULE X86Lift ------------------------------
(***************************************************************************)
(* External: Falcon's x86 lifter, as far as find_branch can tell its       *)
(* results apart.  The sequences are what the code reads off them in       *)
(* src/fil/bb.rs and what the tests of src/fil/mod.rs get from them: a     *)
(* call writes through the stack pointer just before it branches, a return *)
(* loads through it just before it moves it and branches, a memory operand *)
(* is loaded to a temporary first, and a rip-relative address is constant. *)
(*                                                                         *)
(* The machine instructions of a block make one IL block; a conditional    *)
(* jump branches from an IL block of its own.                              *)
(***************************************************************************)
EXTENDS FindBranch

CONSTANT temp  \* the temporaries, in the order Falcon names them

\* A machine instruction: an operation, how its operand is given, the
\* register of the operand (NoReg in an address: rip-relative) and, for an
\* immediate, its value; mov and pop also name the register they write.
Machine ==
  LET registers == (Scalar \ Temps) \cup {NoReg}
  IN  [op : {"call", "jmp", "jcc", "ret", "push", "pop", "mov"},
       mode : {"imm", "reg", "mem", "none"}, reg : registers,
       imm : Pc \cup {NoPc}, to : registers]

\* The instruction has the operand it is said to have, if it takes one.
WellFormed(m) ==
  /\ m.mode = "imm" => m.imm \in Pc
  /\ m.mode = "reg" => m.reg # NoReg
  /\ m.mode = "none" <=> m.op \in {"ret", "pop"}

\* The code of a basic block: only its last instruction leaves it.
X86Block(code) ==
  /\ code \in Seq(Machine)
  /\ Len(code) <= Len(temp)
  /\ \A k \in DOMAIN code :
       /\ WellFormed(code[k])
       /\ code[k].op \in {"call", "jmp", "jcc", "ret"} => k = Len(code)

ASSUME TempAssumption == temp \in Seq(Temps)

-----------------------------------------------------------------------------
\* An IL instruction that is no branch, and one that is.
Il(op, dst, reads) ==
  [op |-> op, dst |-> dst, reads |-> reads, target |-> NoTarget]

Goto(target) ==
  [op |-> "branch", dst |-> NoReg, target |-> target,
   reads |-> IF target \in Scalar THEN <<target>> ELSE <<>>]

MoveStack == Il("assign", sp, <<sp>>)

\* The operand of m, fetched to t when it is in memory.
fetch(m, t) ==
  IF m.mode = "mem"
    THEN <<Il("load", t, IF m.reg = NoReg THEN <<>> ELSE <<m.reg>>)>>
    ELSE <<>>

operand(m, t) ==
  CASE m.mode = "imm" -> m.imm
    [] m.mode = "reg" -> m.reg
    [] m.mode = "mem" -> t

\* The scalars that make the value of the operand.
value(m, t) == IF m.mode = "imm" THEN <<>> ELSE <<operand(m, t)>>

\* The IL of one machine instruction; t is the temporary it may use.
lifted(m, t) ==
  CASE m.op = "call" ->
         fetch(m, t) \o <<MoveStack, Il("store", NoReg, <<sp>>),
                          Goto(operand(m, t))>>
    [] m.op \in {"jmp", "jcc"} -> fetch(m, t) \o <<Goto(operand(m, t))>>
    [] m.op = "ret" -> <<Il("load", t, <<sp>>), MoveStack, Goto(t)>>
    [] m.op = "push" ->
         fetch(m, t) \o <<MoveStack, Il("store", NoReg, <<sp>> \o value(m, t))>>
    [] m.op = "pop" -> <<Il("load", t, <<sp>>), MoveStack,
                         Il("assign", m.to, <<t>>)>>
    [] m.op = "mov" -> fetch(m, t) \o <<Il("assign", m.to, value(m, t))>>

ends_in_jcc(code) == code # <<>> /\ Last(code).op = "jcc"

x86_lift(code) ==
  LET ils == [i \in DOMAIN code |-> lifted(code[i], temp[i])]
  IN  IF ends_in_jcc(code)
        THEN <<FlattenSeq(Front(ils)), Last(ils)>>
        ELSE <<FlattenSeq(ils)>>

=============================================================================
