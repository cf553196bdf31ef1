--------------------------- MODULE BasicBlockList ---------------------------
(***************************************************************************)
(* panda-il-trace: what is known of an executed basic block, and the list  *)
(* that puts the blocks of a run back in guest order and resolves their    *)
(* branches (src/fil/bb.rs, src/fil/branch.rs, src/fil/bbl.rs).            *)
(*                                                                         *)
(* A block carries its sequence number, its address, the address space it  *)
(* ran in and its branch; pid, ppid, icount and site_pc are payload that   *)
(* no step looks at.                                                       *)
(***************************************************************************)
EXTENDS Naturals, Sequences, FiniteSets, SequencesExt

CONSTANTS
  Pc,      \* guest addresses
  Asids,   \* address spaces; a BTreeMap orders them
  NoPc,    \* the destination of a branch that is not resolved yet
  Scalar,  \* the scalars of the IL: registers and temporaries
  NoReg    \* the register of a branch that goes through none

ASSUME PcAssumption ==
  /\ NoPc \notin Pc
  /\ NoReg \notin Scalar
  /\ Asids \subseteq Nat

-----------------------------------------------------------------------------
(* Branch and BasicBlock.                                                  *)

\* Each sentinel, and the branch it is resolved to.
Sentinels ==
  [CallSentinel |-> "IndirectCall",
   ReturnSentinel |-> "Return",
   IndirectJumpSentinel |-> "IndirectJump",
   DirectJumpSentinel |-> "DirectJump"]

IsSentinel(branch) == branch.kind \in DOMAIN Sentinels

\* Option<Branch>: None, the sentinels, the branches with a destination.
NoBranch == [kind |-> "None", dst |-> NoPc, taken |-> FALSE, reg |-> NoReg]

Sentinel(kind, reg) == [NoBranch EXCEPT !.kind = kind, !.reg = reg]

Direct(kind, dst_pc) == [NoBranch EXCEPT !.kind = kind, !.dst = dst_pc]

Branch ==
  [kind : {"None", "CallSentinel", "ReturnSentinel", "IndirectJumpSentinel",
           "DirectJumpSentinel", "DirectCall", "DirectJump", "IndirectCall",
           "IndirectJump", "Return"},
   dst : Pc \cup {NoPc}, taken : BOOLEAN, reg : Scalar \cup {NoReg}]

BasicBlock ==
  [seq_num : Nat, pc : Pc, asid : Asids, lifted : BOOLEAN, branch : Branch]

\* new_zero_copy
new_block(n, addr, space) ==
  [seq_num |-> n, pc |-> addr, asid |-> space,
   lifted |-> FALSE, branch |-> NoBranch]

-----------------------------------------------------------------------------
(* BasicBlockList::from                                                    *)

\* Mutant: a destination is looked up again when it is known.
resolve_again(branch, actual_dst_pc) ==
  CASE IsSentinel(branch) ->
         [branch EXCEPT !.kind = Sentinels[@], !.dst = actual_dst_pc,
                        !.taken = branch.kind = "DirectJumpSentinel"]
    [] branch.kind \in {"None", "DirectCall", "DirectJump"} -> branch
    [] OTHER -> [branch EXCEPT !.dst = actual_dst_pc]

\* The branch, now that the next block of its address space is known.
resolve(branch, actual_dst_pc) ==
  CASE IsSentinel(branch) ->
         [branch EXCEPT !.kind = Sentinels[@], !.dst = actual_dst_pc,
                        !.taken = branch.kind = "DirectJumpSentinel"]
    [] branch.kind = "DirectJump" ->
         [branch EXCEPT !.taken = (actual_dst_pc = branch.dst)]
    [] OTHER -> branch

\* Mutant: the blocks of a bin stay in the order the workers finished them.
BeforeUnsorted(list, i, j) ==
  \/ list[i].asid < list[j].asid
  \/ list[i].asid = list[j].asid /\ i < j

\* The order of the blocks once they are in the bins of the map, which is
\* ordered by address space, and each bin is sorted by sequence number.  No
\* two blocks of the program have the same number.
Before(list, i, j) ==
  \/ list[i].asid < list[j].asid
  \/ /\ list[i].asid = list[j].asid
     /\ \/ list[i].seq_num < list[j].seq_num
        \/ list[i].seq_num = list[j].seq_num /\ i < j

\* The place of index i among some of the indices of a list.
Place(list, some, i) == Cardinality({j \in some : ~Before(list, i, j)})

\* The blocks at some of the indices of a list: the bins one after the other,
\* each in guest execution order.
Sorted(list, some) ==
  [k \in 1 .. Cardinality(some) |->
     list[CHOOSE i \in some : Place(list, some, i) = k]]

\* Each block but the last of its address space has its branch resolved by
\* the block after it.
Settle(bbv) ==
  [idx \in DOMAIN bbv |->
     IF idx + 1 \in DOMAIN bbv /\ bbv[idx + 1].asid = bbv[idx].asid
       THEN [bbv[idx] EXCEPT !.branch = resolve(@, bbv[idx + 1].pc)]
       ELSE bbv[idx]]

\* The trace of the blocks at some of the indices of a list.
from_some(list, some) == Settle(Sorted(list, some))

from(list) == from_some(list, DOMAIN list)

\* What to_branch_json writes: the blocks with a branch, through from again.
to_branch_json(list) ==
  from_some(list, {i \in DOMAIN list : list[i].branch.kind # "None"})

=============================================================================
