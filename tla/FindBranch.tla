----------------------------- MODULE FindBranch -----------------------------
(***************************************************************************)
(* panda-il-trace: how the branch of a lifted block is found and           *)
(* classified (find_branch in src/fil/bb.rs).  Falcon's IL has one branch  *)
(* operation for calls, jumps and returns; the code tells them apart by    *)
(* what the instructions just before it do to the stack pointer or, where  *)
(* there is one, to the link register.                                     *)
(*                                                                         *)
(* An IL instruction is its operation, the scalar it writes, the scalars   *)
(* it reads in the order of its expressions, and the target of a branch:   *)
(* a constant, a scalar, or anything else (NoTarget), which find_branch    *)
(* passes over like an instruction that is no branch.                      *)
(***************************************************************************)
EXTENDS BasicBlockList

CONSTANTS
  Temps,    \* the scalars whose name contains "temp"
  sp,       \* the stack pointer of the architecture
  lr,       \* reg_ret_addr(): the link register, or NoReg
  NoTarget  \* a branch target that is neither a u64 constant nor a scalar

ASSUME ScalarAssumption ==
  /\ Temps \subseteq Scalar
  /\ sp \in Scalar \ Temps
  /\ lr \in Scalar \cup {NoReg}
  /\ Pc \cap Scalar = {}
  /\ NoTarget \notin Pc \cup Scalar

Instruction ==
  [op : {"assign", "load", "store", "branch", "other"},
   dst : Scalar \cup {NoReg}, reads : Seq(Scalar),
   target : Pc \cup Scalar \cup {NoTarget}]

\* A translation: the IL blocks of a control flow graph, in index order.
Cfg == Seq(Seq(Instruction))

\* The cargo features, by what tells a call from a jump; arm is behind a
\* compile_error.
StackArchs == {"i386", "x86_64"}
LinkArchs == {"ppc", "mips", "mipsel"}

-----------------------------------------------------------------------------
reads_reg(instr, reg) == \E k \in DOMAIN instr.reads : instr.reads[k] = reg

loads_reg(instr, reg) == instr.op = "load" /\ reads_reg(instr, reg)

stores_reg(instr, reg) == instr.op = "store" /\ reads_reg(instr, reg)

writes_reg(instr, reg) == reg # NoReg /\ instr.dst = reg

\* The least and the greatest number of a set, if it has one.
First(S) == {x \in S : \A y \in S : x <= y}
Final(S) == {x \in S : \A y \in S : y <= x}

\* The instructions that compute a scalar from some other one.
definitions(block, scalar) ==
  {i \in DOMAIN block : /\ block[i].op \in {"assign", "load"}
                        /\ block[i].dst = scalar
                        /\ block[i].reads # <<>>}

\* The register a scalar comes from: what the last instruction that computes
\* it reads first.  None: its value comes from constants only.
resolve_reg_indirect(block, scalar) ==
  {block[i].reads[1] : i \in Final(definitions(block, scalar))}

-----------------------------------------------------------------------------
(* The side effects before the branch at index idx of its IL block.        *)

maybe_call(arch, block, idx) ==
  /\ idx > 1
  /\ \/ arch \in StackArchs /\ stores_reg(block[idx - 1], sp)
     \/ arch \in LinkArchs /\ writes_reg(block[idx - 1], lr)

\* Mutant: one index too many is asked for.
maybe_ret_late(arch, block, idx) ==
  /\ arch \in StackArchs /\ idx > 3
  /\ loads_reg(block[idx - 2], sp)

maybe_ret(arch, block, idx) ==
  \/ /\ arch \in StackArchs
     /\ idx > 2
     /\ ~maybe_call(arch, block, idx)
     /\ \/ loads_reg(block[idx - 2], sp)
        \/ loads_reg(block[idx - 1], sp)
  \/ /\ arch \in LinkArchs
     /\ idx > 1
     /\ reads_reg(block[idx - 1], lr)

\* The condition the code asserts never to hold.
clash(arch, block, idx) ==
  maybe_call(arch, block, idx) /\ maybe_ret(arch, block, idx)

AssertionFails == [NoBranch EXCEPT !.kind = "assertion_fails"]

\* The register that the target of a branch names or comes from.
ind_regs(block, to) ==
  IF to \in Temps THEN resolve_reg_indirect(block, to) ELSE {to}

\* What a branch through a scalar is.
through(arch, block, idx) ==
  LET regs == ind_regs(block, block[idx].target)
      call == maybe_call(arch, block, idx)
  IN  IF maybe_ret(arch, block, idx)
        THEN Sentinel("ReturnSentinel", NoReg)
      ELSE IF regs = {}
        THEN Sentinel("DirectJumpSentinel", NoReg)
      ELSE Sentinel(IF call THEN "CallSentinel" ELSE "IndirectJumpSentinel",
                    CHOOSE reg \in regs : TRUE)

branch_at(arch, block, idx) ==
  LET to == block[idx].target
  IN  IF clash(arch, block, idx)
        THEN AssertionFails
      ELSE IF to \in Scalar
        THEN through(arch, block, idx)
      ELSE Direct(IF maybe_call(arch, block, idx)
                    THEN "DirectCall" ELSE "DirectJump", to)

\* The instructions of an IL block at which the search ends.
ends_search(arch, block) ==
  {idx \in DOMAIN block :
     /\ block[idx].op = "branch"
     /\ block[idx].target # NoTarget \/ clash(arch, block, idx)}

\* The first branch of the first IL block that has one.
branches(arch, cfg) ==
  UNION {{branch_at(arch, cfg[i], idx) :
            idx \in First(ends_search(arch, cfg[i]))} :
         i \in First({k \in DOMAIN cfg : ends_search(arch, cfg[k]) # {}})}

find_branch(arch, cfg) ==
  LET found == branches(arch, cfg)
  IN  IF found = {} THEN NoBranch ELSE CHOOSE branch \in found : TRUE

=============================================================================
