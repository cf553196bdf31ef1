---------------------------- MODULE IlTraceProps ----------------------------
(***************************************************************************)
(* The properties of panda-il-trace: what holds of the code, and, at the   *)
(* end, what its comments and its README say and the code does not do.     *)
(***************************************************************************)
EXTENDS IlTrace

-----------------------------------------------------------------------------
(* The pipeline.                                                           *)

Busy == {w \in Workers : held[w] # Idle}

\* Sequence numbers of the blocks in a queue.
Stamps(q) == {q[i].seq_num : i \in DOMAIN q}
JobStamps(q) == {q[i].bb.seq_num : i \in DOMAIN q}

\* The block in the callback's hands.
StampedNow == IF fresh = Idle THEN 0 ELSE 1

\* The counter is the number of blocks under way or collected: what makes
\* uninit's test of BBQ_OUT.len() against BB_NUM a test for completion.
Counted ==
  BB_NUM = StampedNow + Len(BBQ_IN) + Cardinality(Busy)
             + Len(BBQ_OUT) + Len(bbs)

\* The numbers of the blocks under way or collected.
InPlay ==
  (IF fresh = Idle THEN {} ELSE {fresh.bb.seq_num})
    \cup JobStamps(BBQ_IN) \cup {held[w].bb.seq_num : w \in Busy}
    \cup Stamps(BBQ_OUT) \cup Stamps(bbs)

\* Each stamped block is in exactly one place, from the callback's stamp to
\* the list uninit collects, whichever workers take it and in whatever order.
OnceEach == Counted /\ InPlay = 0 .. BB_NUM - 1

\* When uninit's wait is over no block is left with a worker or on its way
\* to one, so the pops of finalize_bbs race with no push.
DrainComplete ==
  main \in {"drain", "write", "exited"} =>
    fresh = Idle /\ BBQ_IN = <<>> /\ Busy = {}

\* Unloading ends: the wait for the workers is over one day, unless a panic
\* in one of them has taken the process down.
UninitEnds == main = "finish" ~> main \in {"exited", "aborted"}

-----------------------------------------------------------------------------
(* The trace, against what the guest executed.                             *)

\* The traced blocks of the recording, by their index in it.
TracedAt == {i \in 1 .. pos : Traced(recording[i])}

After(i) == {j \in TracedAt : j > i /\ recording[j].asid = recording[i].asid}

Stamp(i) == Cardinality({j \in TracedAt : j < i})

\* What the trace should say of the traced block i: its place among the
\* traced blocks, and its branch resolved by the traced block that followed
\* it in its address space, if any did.
Expected(i) ==
  LET lifts == recording[i].il # NotLifted
      branch == IF lifts THEN find_branch(arch, recording[i].il) ELSE NoBranch
  IN  [new_block(Stamp(i), recording[i].pc, recording[i].asid) EXCEPT
         !.lifted = lifts,
         !.branch = IF After(i) = {}
                      THEN branch
                      ELSE resolve(branch, recording[Min(After(i))].pc)]

Precedes(x, y) ==
  \/ x.asid < y.asid
  \/ x.asid = y.asid /\ x.seq_num < y.seq_num

\* The final list is the guest's history, block for block: address space by
\* address space, in guest order, however the workers shuffled the blocks.
TraceFaithful ==
  main \in {"write", "exited"} =>
    /\ {final[i] : i \in DOMAIN final} = {Expected(i) : i \in TracedAt}
    /\ \A i, j \in DOMAIN final : i < j => Precedes(final[i], final[j])

WithBranch == {i \in DOMAIN final : final[i].branch.kind # "None"}

ButTaken(bb) == [bb EXCEPT !.branch.taken = FALSE]

\* The file has the blocks with a branch, each once, in the order of the final
\* list, and the second pass of from over them changes no kind and no
\* destination.
JsonKeepsTargets ==
  main = "exited" =>
    /\ {ButTaken(json[k]) : k \in DOMAIN json}
         = {ButTaken(final[i]) : i \in WithBranch}
    /\ \A k, l \in DOMAIN json : k < l => Precedes(json[k], json[l])

-----------------------------------------------------------------------------
(* The trace, against the machine code that ran.                           *)

\* The instruction a block of x86 code ends with.
Ending(i) == Last(recording[i].x86)

\* The block is lifted and its last instruction is one of these.
EndsIn(i, ops) ==
  /\ recording[i].il # NotLifted
  /\ recording[i].x86 # <<>>
  /\ Ending(i).op \in ops

\* A call or jump through a rip-relative address.
Far(m) == m.mode = "mem" /\ m.reg = NoReg

\* The branch says what the call or return does.
Tells(branch, m) ==
  CASE m.op = "ret" -> branch.kind \in {"Return", "ReturnSentinel"}
    [] m.mode = "imm" -> branch.kind = "DirectCall" /\ branch.dst = m.imm
    [] OTHER -> /\ branch.kind \in {"IndirectCall", "CallSentinel"}
                /\ Far(m) \/ branch.reg = m.reg

InFile(i) ==
  \E k \in DOMAIN json :
    json[k].seq_num = Stamp(i) /\ Tells(json[k].branch, Ending(i))

\* Every traced x86 block that is lifted and ends in a call or a return is in
\* the file as one, with the callee or the register used, whatever stack and
\* register traffic comes before it; rip-relative calls are the exception.
CallsAndReturnsTraced ==
  main = "exited" =>
    \A i \in TracedAt :
      EndsIn(i, {"call", "ret"}) /\ ~Far(Ending(i)) => InFile(i)

-----------------------------------------------------------------------------
(* What uninit promises.                                                   *)

\* Whatever the workers do, collecting starts only when every block that was
\* stamped can be collected, each once, and what is published is all of them.
Promise ==
  INSTANCE TracePromise
    WITH stamped <- BB_NUM, collected <- Stamps(bbs),
         published <- main = "exited"

ImplementsPromise == Promise!PSpec

-----------------------------------------------------------------------------
(* What the code says and does not do.                                     *)

\* bbl.rs: from resolves "Conditional jump taken or not taken".  The file
\* says of every direct jump what the final list says.
JsonKeepsTaken ==
  main = "exited" =>
    {json[k] : k \in DOMAIN json} = {final[i] : i \in WithBranch}

\* README: "Supports indirect control flow both when register is
\* dereferenced [...] and when a memory location is deference".  A call whose
\* next block is in the trace is in the file as a call, whatever its address is
\* computed from.
CallsTraced ==
  main = "exited" =>
    \A i \in TracedAt :
      EndsIn(i, {"call"}) /\ After(i) # {} => InFile(i)

\* The user blocks that ran after block i in its address space.
UserAfter(i) ==
  {j \in i + 1 .. pos : /\ recording[j].asid = recording[i].asid
                        /\ recording[j].place # "kernel"}

Resolved == {"IndirectCall", "IndirectJump", "Return"}

\* README: uninit "resolves the targets of all direct/indirect jumps/calls
\* and returns".  The target is where the guest went next.
DestinationIsNextExecuted ==
  main = "exited" =>
    \A i \in TracedAt : \A k \in DOMAIN json :
      json[k].seq_num = Stamp(i) /\ json[k].branch.kind \in Resolved =>
        json[k].branch.dst = recording[Min(UserAfter(i))].pc

=============================================================================
