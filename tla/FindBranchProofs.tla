-------------------------- MODULE FindBranchProofs --------------------------
(***************************************************************************)
(* What find_branch returns for every translation: the type of its result, *)
(* that its assertion fails on the link-register architectures only, and   *)
(* that no code before an x86 call or return hides it.                     *)
(***************************************************************************)
EXTENDS X86Lift, TraceListProofs

\* The results of the search.
Found == Branch \cup {AssertionFails}

LEMMA Element ==
  ASSUME NEW S, NEW q \in Seq(S), NEW i \in DOMAIN q
  PROVE  q[i] \in S
  OBVIOUS

\* The assertion is a kind of its own, so it is no branch.
LEMMA AssertionIsNoBranch == AssertionFails \notin Branch
  BY DEF AssertionFails, NoBranch, Branch

LEMMA NoneIsABranch == NoBranch \in Branch
  BY DEF NoBranch, Branch

LEMMA SentinelType ==
  ASSUME NEW kind \in DOMAIN Sentinels, NEW reg \in Scalar \cup {NoReg}
  PROVE  Sentinel(kind, reg) \in Branch
  BY DEF Sentinels, Sentinel, NoBranch, Branch

LEMMA DirectType ==
  ASSUME NEW kind \in {"DirectCall", "DirectJump"}, NEW dst_pc \in Pc
  PROVE  Direct(kind, dst_pc) \in Branch
  BY DEF Direct, NoBranch, Branch

\* The scan for the register of a temporary returns scalars.
LEMMA IndirectType ==
  ASSUME NEW block \in Seq(Instruction), NEW scalar
  PROVE  resolve_reg_indirect(block, scalar) \subseteq Scalar
  <1> SUFFICES ASSUME NEW i \in definitions(block, scalar)
               PROVE  block[i].reads[1] \in Scalar
    BY DEF resolve_reg_indirect, Final
  <1>1. i \in DOMAIN block /\ block[i].reads # <<>>
    BY DEF definitions
  <1>2. block[i].reads \in Seq(Scalar)
    <2>1. block[i] \in Instruction
      BY <1>1, Element
    <2>2. QED
      BY <2>1 DEF Instruction
  <1>3. 1 \in DOMAIN block[i].reads
    BY <1>1, <1>2
  <1>4. QED
    BY <1>2, <1>3, Element

LEMMA ThroughType ==
  ASSUME NEW arch, NEW block \in Seq(Instruction), NEW idx \in DOMAIN block,
         block[idx].target \in Scalar
  PROVE  through(arch, block, idx) \in Branch
  <1> DEFINE regs == ind_regs(block, block[idx].target)
  <1>1. regs \subseteq Scalar
    BY IndirectType DEF ind_regs
  <1>2. CASE maybe_ret(arch, block, idx) \/ regs = {}
    BY <1>2, SentinelType DEF through, Sentinels
  <1>3. CASE ~maybe_ret(arch, block, idx) /\ regs # {}
    <2> DEFINE reg == CHOOSE r \in regs : TRUE
    <2>1. reg \in Scalar
      BY <1>1, <1>3
    <2>2. Sentinel("CallSentinel", reg) \in Branch
          /\ Sentinel("IndirectJumpSentinel", reg) \in Branch
      BY <2>1, SentinelType DEF Sentinels
    <2>3. through(arch, block, idx) \in
            {Sentinel("CallSentinel", reg),
             Sentinel("IndirectJumpSentinel", reg)}
      BY <1>3 DEF through
    <2>4. QED
      BY <2>2, <2>3
  <1>4. QED
    BY <1>2, <1>3

\* Where the search ends there is a branch, unless the assertion fails.
LEMMA BranchAtType ==
  ASSUME NEW arch, NEW block \in Seq(Instruction),
         NEW idx \in ends_search(arch, block)
  PROVE  /\ clash(arch, block, idx) =>
              branch_at(arch, block, idx) = AssertionFails
         /\ ~clash(arch, block, idx) =>
              branch_at(arch, block, idx) \in Branch
  <1>1. idx \in DOMAIN block
    BY DEF ends_search
  <1>2. block[idx].target \in Pc \cup Scalar \cup {NoTarget}
    <2>1. block[idx] \in Instruction
      BY <1>1, Element
    <2>2. QED
      BY <2>1 DEF Instruction
  <1>3. CASE clash(arch, block, idx)
    BY <1>3 DEF branch_at
  <1>4. CASE ~clash(arch, block, idx) /\ block[idx].target \in Scalar
    BY <1>1, <1>4, ThroughType DEF branch_at
  <1>5. CASE ~clash(arch, block, idx) /\ block[idx].target \notin Scalar
    <2>1. block[idx].target \in Pc
      BY <1>2, <1>5 DEF ends_search
    <2>2. QED
      BY <1>5, <2>1, DirectType DEF branch_at
  <1>6. QED
    BY <1>3, <1>4, <1>5

\* What the search returns it has found in one of the IL blocks.
LEMMA FoundSomewhere ==
  ASSUME NEW arch, NEW cfg \in Cfg, find_branch(arch, cfg) # NoBranch
  PROVE  \E i \in DOMAIN cfg : \E idx \in ends_search(arch, cfg[i]) :
           find_branch(arch, cfg) = branch_at(arch, cfg[i], idx)
  <1>1. find_branch(arch, cfg) \in branches(arch, cfg)
    BY DEF find_branch
  <1>2. QED
    BY <1>1 DEF branches, First

\* find_branch returns a branch, none, or fails its assertion.
THEOREM FindBranchType ==
  ASSUME NEW arch, NEW cfg \in Cfg
  PROVE  find_branch(arch, cfg) \in Found
  <1>1. CASE find_branch(arch, cfg) = NoBranch
    BY <1>1, NoneIsABranch DEF Found
  <1>2. CASE find_branch(arch, cfg) # NoBranch
    <2>1. PICK i \in DOMAIN cfg : \E idx \in ends_search(arch, cfg[i]) :
            find_branch(arch, cfg) = branch_at(arch, cfg[i], idx)
      BY <1>2, FoundSomewhere
    <2>2. cfg[i] \in Seq(Instruction)
      BY Element DEF Cfg
    <2>3. QED
      BY <2>1, <2>2, BranchAtType DEF Found
  <1>3. QED
    BY <1>1, <1>2

\* Where a call is told from a jump by the stack, what is taken for a call is
\* not taken for a return: the assertion of find_branch holds for every
\* translation, whatever the instructions before the branch do.
THEOREM StackAssertionHolds ==
  ASSUME NEW arch \in StackArchs, NEW cfg \in Cfg
  PROVE  find_branch(arch, cfg) # AssertionFails
  <1>1. ASSUME NEW block, NEW idx
        PROVE  ~clash(arch, block, idx)
    BY DEF clash, maybe_ret, StackArchs, LinkArchs
  <1>2. CASE find_branch(arch, cfg) = NoBranch
    BY <1>2, AssertionIsNoBranch, NoneIsABranch
  <1>3. CASE find_branch(arch, cfg) # NoBranch
    <2>1. PICK i \in DOMAIN cfg : \E idx \in ends_search(arch, cfg[i]) :
            find_branch(arch, cfg) = branch_at(arch, cfg[i], idx)
      BY <1>3, FoundSomewhere
    <2>2. cfg[i] \in Seq(Instruction)
      BY Element DEF Cfg
    <2>3. \A idx \in ends_search(arch, cfg[i]) :
            branch_at(arch, cfg[i], idx) \in Branch
      BY <1>1, <2>2, BranchAtType
    <2>4. QED
      BY <2>1, <2>3, AssertionIsNoBranch
  <1>4. QED
    BY <1>2, <1>3

-----------------------------------------------------------------------------
(* Calls and returns of x86, after any instructions that do not branch.    *)

Plain(ils) == \A i \in DOMAIN ils : ils[i].op # "branch"

\* A sequence that ends in three given elements.
LEMMA EndsInThree ==
  ASSUME NEW S, NEW s \in Seq(S), NEW x \in S, NEW y \in S, NEW z \in S
  PROVE  LET q == s \o <<x, y, z>>
             n == Len(s) + 3
         IN  /\ q \in Seq(S) /\ Len(q) = n /\ n \in Nat /\ n > 2
             /\ q[n] = z /\ q[n - 1] = y /\ q[n - 2] = x
             /\ \A i \in 1 .. n - 3 : i \in DOMAIN s /\ q[i] = s[i]
  <1> DEFINE e == <<x, y, z>>
  <1>1. /\ e \in Seq(S) /\ Len(e) = 3
        /\ e[1] = x /\ e[2] = y /\ e[3] = z
    OBVIOUS
  <1>2. Len(s) \in Nat /\ DOMAIN s = 1 .. Len(s)
    BY LenProperties
  <1> HIDE DEF e
  <1>3. /\ s \o e \in Seq(S)
        /\ Len(s \o e) = Len(s) + 3
        /\ \A i \in 1 .. Len(s) + 3 :
             (s \o e)[i] = IF i <= Len(s) THEN s[i] ELSE e[i - Len(s)]
    <2>1. /\ s \o e \in Seq(S)
          /\ Len(s \o e) = Len(s) + Len(e)
          /\ \A i \in 1 .. Len(s) + Len(e) :
               (s \o e)[i] = IF i <= Len(s) THEN s[i] ELSE e[i - Len(s)]
      BY <1>1, ConcatProperties
    <2>2. QED
      BY <1>1, <2>1
  <1>4. /\ (s \o e)[Len(s) + 3] = e[3]
        /\ (s \o e)[Len(s) + 2] = e[2]
        /\ (s \o e)[Len(s) + 1] = e[1]
    BY <1>2, <1>3
  <1>5. \A i \in 1 .. Len(s) : (s \o e)[i] = s[i]
    BY <1>2, <1>3
  <1>6. QED
    BY <1>1, <1>2, <1>3, <1>4, <1>5 DEF e

\* The search passes over instructions that do not branch, and ends at the
\* branch after them.
LEMMA FoundLast ==
  ASSUME NEW arch, NEW block \in Seq(Instruction), NEW n \in Nat \ {0},
         Len(block) = n,
         \A i \in 1 .. n - 1 : block[i].op # "branch",
         block[n].op = "branch", block[n].target # NoTarget
  PROVE  find_branch(arch, <<block>>) = branch_at(arch, block, n)
  <1>1. DOMAIN block = 1 .. n
    BY LenProperties
  <1>2. ends_search(arch, block) = {n}
    BY <1>1 DEF ends_search
  <1>3. First({n}) = {n} /\ First({1}) = {1}
    BY DEF First
  <1> DEFINE cfg == <<block>>
  <1>4. DOMAIN cfg = {1} /\ cfg[1] = block
    OBVIOUS
  <1> HIDE DEF cfg
  <1>5. {k \in DOMAIN cfg : ends_search(arch, cfg[k]) # {}} = {1}
    BY <1>2, <1>4
  <1>6. branches(arch, cfg) = {branch_at(arch, block, n)}
    <2>1. {branch_at(arch, cfg[1], idx) : idx \in First(ends_search(arch, cfg[1]))}
            = {branch_at(arch, block, n)}
      BY <1>2, <1>3, <1>4
    <2>2. branches(arch, cfg)
            = UNION {{branch_at(arch, cfg[i], idx) :
                        idx \in First(ends_search(arch, cfg[i]))} : i \in {1}}
      BY <1>3, <1>5 DEF branches
    <2>3. QED
      BY <2>1, <2>2
  <1>7. find_branch(arch, cfg) = branch_at(arch, block, n)
    BY <1>6 DEF find_branch
  <1>8. QED
    BY <1>7 DEF cfg

\* The IL that X86Lift gives for the last instructions of a block.
LEMMA IlType ==
  ASSUME NEW t \in Scalar, NEW to \in Pc \cup Scalar, NEW reg \in Scalar
  PROVE  /\ Il("load", t, <<reg>>) \in Instruction
         /\ Il("store", NoReg, <<sp>>) \in Instruction
         /\ MoveStack \in Instruction
         /\ Goto(to) \in Instruction
         /\ Goto(to).op = "branch" /\ Goto(to).target = to
         /\ to # NoTarget
  <1>1. sp \in Scalar /\ to # NoTarget
    BY ScalarAssumption
  <1>2. <<reg>> \in Seq(Scalar) /\ <<sp>> \in Seq(Scalar) /\ <<>> \in Seq(Scalar)
    BY <1>1
  <1>3. to \in Scalar => <<to>> \in Seq(Scalar)
    OBVIOUS
  <1>4. QED
    BY <1>1, <1>2, <1>3 DEF Il, MoveStack, Goto, Instruction

\* A return is found as one, whatever is before it in its block.
THEOREM ReturnFound ==
  ASSUME NEW arch \in StackArchs, NEW before \in Seq(Instruction),
         Plain(before), NEW m \in Machine, m.op = "ret", NEW t \in Temps
  PROVE  find_branch(arch, <<before \o lifted(m, t)>>)
           = Sentinel("ReturnSentinel", NoReg)
  <1> DEFINE block == before \o lifted(m, t)
             n == Len(before) + 3
  <1>1. t \in Scalar /\ sp \in Scalar
    BY ScalarAssumption
  <1>2. lifted(m, t) = <<Il("load", t, <<sp>>), MoveStack, Goto(t)>>
    BY DEF lifted
  <1>3. /\ block \in Seq(Instruction) /\ Len(block) = n /\ n \in Nat /\ n > 2
        /\ block[n] = Goto(t) /\ block[n - 1] = MoveStack
        /\ block[n - 2] = Il("load", t, <<sp>>)
        /\ \A i \in 1 .. n - 3 : i \in DOMAIN before /\ block[i] = before[i]
    BY <1>1, <1>2, IlType, EndsInThree
  <1> HIDE DEF block, n
  <1>4. block[n - 1].op = "assign" /\ block[n - 2].op = "load"
    BY <1>3 DEF MoveStack, Il
  <1>5. \A i \in 1 .. n - 1 : block[i].op # "branch"
    <2> TAKE i \in 1 .. n - 1
    <2>1. i \in 1 .. n - 3 \/ i = n - 2 \/ i = n - 1
      BY <1>3
    <2>2. QED
      BY <1>3, <1>4, <2>1 DEF Plain
  <1>6. /\ find_branch(arch, <<block>>) = branch_at(arch, block, n)
        /\ block[n].target = t
    BY <1>1, <1>3, <1>5, IlType, FoundLast
  <1>7. reads_reg(block[n - 2], sp)
    BY <1>3 DEF reads_reg, Il
  <1>8. maybe_ret(arch, block, n) /\ ~maybe_call(arch, block, n)
    BY <1>3, <1>4, <1>7
       DEF maybe_ret, maybe_call, loads_reg, stores_reg, StackArchs, LinkArchs
  <1>9. QED
    BY <1>1, <1>6, <1>8 DEF branch_at, through, clash, block

\* What a branch right after a store through the stack pointer is.
LEMMA PushedCall ==
  ASSUME NEW arch \in StackArchs, NEW before \in Seq(Instruction),
         Plain(before), NEW to \in Pc \cup Scalar
  PROVE  LET block == before
               \o <<MoveStack, Il("store", NoReg, <<sp>>), Goto(to)>>
             regs == ind_regs(block, to)
         IN  find_branch(arch, <<block>>)
               = IF to \notin Scalar THEN Direct("DirectCall", to)
                 ELSE IF regs = {} THEN Sentinel("DirectJumpSentinel", NoReg)
                 ELSE Sentinel("CallSentinel", CHOOSE reg \in regs : TRUE)
  <1> DEFINE push == Il("store", NoReg, <<sp>>)
             block == before \o <<MoveStack, push, Goto(to)>>
             n == Len(before) + 3
  <1>1. /\ MoveStack \in Instruction /\ push \in Instruction
        /\ Goto(to) \in Instruction /\ Goto(to).op = "branch"
        /\ Goto(to).target = to /\ to # NoTarget
    BY ScalarAssumption, IlType
  <1>2. /\ block \in Seq(Instruction) /\ Len(block) = n /\ n \in Nat /\ n > 2
        /\ block[n] = Goto(to) /\ block[n - 1] = push
        /\ block[n - 2] = MoveStack
        /\ \A i \in 1 .. n - 3 : i \in DOMAIN before /\ block[i] = before[i]
    BY <1>1, EndsInThree
  <1> HIDE DEF block, n
  <1>3. block[n - 1].op = "store" /\ block[n - 2].op = "assign"
    BY <1>2 DEF MoveStack, Il
  <1>4. \A i \in 1 .. n - 1 : block[i].op # "branch"
    <2> TAKE i \in 1 .. n - 1
    <2>1. i \in 1 .. n - 3 \/ i = n - 2 \/ i = n - 1
      BY <1>2
    <2>2. QED
      BY <1>2, <1>3, <2>1 DEF Plain
  <1>5. find_branch(arch, <<block>>) = branch_at(arch, block, n)
    BY <1>1, <1>2, <1>4, FoundLast
  <1>6. reads_reg(block[n - 1], sp)
    BY <1>2 DEF reads_reg, Il
  <1>7. maybe_call(arch, block, n) /\ ~maybe_ret(arch, block, n)
    BY <1>2, <1>3, <1>6
       DEF maybe_ret, maybe_call, stores_reg, StackArchs, LinkArchs
  <1>8. block[n].target = to
    BY <1>1, <1>2
  <1>9. QED
    BY <1>5, <1>7, <1>8 DEF branch_at, through, clash, block

\* A call is found as one, with the callee it names or the register its
\* address comes from, whatever is before it in its block.
THEOREM CallFound ==
  ASSUME NEW arch \in StackArchs, NEW before \in Seq(Instruction),
         Plain(before), NEW m \in Machine, m.op = "call", NEW t \in Temps
  PROVE  LET found == find_branch(arch, <<before \o lifted(m, t)>>)
         IN  /\ m.mode = "imm" /\ m.imm \in Pc =>
                  found = Direct("DirectCall", m.imm)
             /\ m.mode = "reg" /\ m.reg \in Scalar \ Temps =>
                  found = Sentinel("CallSentinel", m.reg)
             /\ m.mode = "mem" /\ m.reg # NoReg =>
                  found = Sentinel("CallSentinel", m.reg)
  <1> DEFINE found == find_branch(arch, <<before \o lifted(m, t)>>)
             push == Il("store", NoReg, <<sp>>)
  <1>1. t \in Scalar /\ sp \in Scalar /\ t # sp
    BY ScalarAssumption
  <1>2. ASSUME m.mode \in {"imm", "reg"}, NEW to \in Pc \cup Scalar,
               operand(m, t) = to
        PROVE  before \o lifted(m, t) = before \o <<MoveStack, push, Goto(to)>>
    <2>1. fetch(m, t) = <<>>
      BY <1>2 DEF fetch
    <2>2. lifted(m, t) = <<>> \o <<MoveStack, push, Goto(to)>>
      BY <1>2, <2>1 DEF lifted
    <2>3. QED
      BY <2>2
  <1>3. ASSUME m.mode = "imm", m.imm \in Pc
        PROVE  found = Direct("DirectCall", m.imm)
    <2>1. operand(m, t) = m.imm /\ m.imm \notin Scalar
      BY <1>3, ScalarAssumption DEF operand
    <2>2. QED
      BY <1>2, <1>3, <2>1, PushedCall
  <1>4. ASSUME m.mode = "reg", m.reg \in Scalar \ Temps
        PROVE  found = Sentinel("CallSentinel", m.reg)
    <2>1. operand(m, t) = m.reg
      BY <1>4 DEF operand
    <2>2. \A block : ind_regs(block, m.reg) = {m.reg}
      BY <1>4 DEF ind_regs
    <2>3. before \o lifted(m, t)
            = before \o <<MoveStack, push, Goto(m.reg)>>
      BY <1>2, <1>4, <2>1
    <2> DEFINE block == before \o <<MoveStack, push, Goto(m.reg)>>
    <2>4. ind_regs(block, m.reg) = {m.reg} /\ m.reg \in Scalar
      BY <1>4, <2>2
    <2> DEFINE regs == ind_regs(block, m.reg)
    <2>5. find_branch(arch, <<block>>)
            = IF m.reg \notin Scalar THEN Direct("DirectCall", m.reg)
              ELSE IF regs = {} THEN Sentinel("DirectJumpSentinel", NoReg)
              ELSE Sentinel("CallSentinel", CHOOSE reg \in regs : TRUE)
      BY <2>4, PushedCall
    <2> HIDE DEF block
    <2>6. find_branch(arch, <<block>>) = Sentinel("CallSentinel", m.reg)
      BY <2>4, <2>5
    <2>7. QED
      BY <2>3, <2>6 DEF block
  <1>5. ASSUME m.mode = "mem", m.reg # NoReg
        PROVE  found = Sentinel("CallSentinel", m.reg)
    <2> DEFINE load == Il("load", t, <<m.reg>>)
               upto == Append(before, load)
               block == upto \o <<MoveStack, push, Goto(t)>>
               n == Len(upto) + 3
    <2>1. m.reg \in Scalar
      BY <1>5 DEF Machine
    <2>2. /\ load \in Instruction /\ MoveStack \in Instruction
          /\ push \in Instruction /\ Goto(t) \in Instruction
      BY <1>1, <2>1, IlType
    <2>3. before \o lifted(m, t) = block
      <3>1. lifted(m, t) = <<load>> \o <<MoveStack, push, Goto(t)>>
        BY <1>5 DEF lifted, fetch, operand
      <3>2. <<load>> \in Seq(Instruction)
            /\ <<MoveStack, push, Goto(t)>> \in Seq(Instruction)
        BY <2>2
      <3>3. upto = before \o <<load>>
        BY <2>2, AppendIsConcat
      <3> HIDE DEF load, push
      <3>4. QED
        BY <3>1, <3>2, <3>3, ConcatAssociative
    <2>4. upto \in Seq(Instruction) /\ Len(upto) = Len(before) + 1
          /\ upto[Len(upto)] = load /\ Len(upto) \in Nat /\ Len(upto) > 0
          /\ \A i \in 1 .. Len(before) : upto[i] = before[i]
      BY <2>2, AppendProperties, LenProperties
    <2>5. Plain(upto)
      <3>1. load.op # "branch"
        BY DEF Il
      <3>2. QED
        BY <2>4, <3>1 DEF Plain
    <2> HIDE DEF upto
    <2>6. /\ block \in Seq(Instruction) /\ Len(block) = n
          /\ block[n] = Goto(t) /\ block[n - 1] = push
          /\ block[n - 2] = MoveStack
          /\ block[n - 3] = load
      BY <2>2, <2>4, EndsInThree
    <2> HIDE DEF block
    <2>7. Final(definitions(block, t)) = {n - 3}
      <3>1. DOMAIN block = 1 .. n /\ n - 3 \in 1 .. n
        BY <2>4, <2>6, LenProperties
      <3>2. n - 3 \in definitions(block, t)
        <4>1. /\ load.op = "load" /\ load.dst = t
              /\ load.reads = <<m.reg>> /\ <<m.reg>> # <<>>
          BY DEF Il
        <4>2. QED
          BY <2>6, <3>1, <4>1 DEF definitions
      <3>3. t # NoReg
        BY <1>1, PcAssumption
      <3>4. block[n].dst # t /\ block[n - 1].dst # t /\ block[n - 2].dst # t
        BY <1>1, <2>6, <3>3 DEF Goto, Il, MoveStack
      <3>5. \A i \in definitions(block, t) : i \in 1 .. n - 3
        <4> TAKE i \in definitions(block, t)
        <4>1. i \in 1 .. n /\ block[i].dst = t
          BY <3>1 DEF definitions
        <4>2. i # n /\ i # n - 1 /\ i # n - 2
          BY <3>4, <4>1
        <4> HIDE DEF n
        <4>3. n \in Nat
          BY <2>4 DEF n
        <4>4. QED
          BY <4>1, <4>2, <4>3
      <3>6. QED
        BY <2>4, <3>2, <3>5 DEF Final
    <2>8. ind_regs(block, t) = {m.reg}
      <3>1. block[n - 3].reads[1] = m.reg
        BY <2>6 DEF Il
      <3>2. QED
        BY <2>7, <3>1 DEF ind_regs, resolve_reg_indirect
    <2>9. QED
      BY <1>1, <2>3, <2>4, <2>5, <2>8, PushedCall DEF block
  <1>6. QED
    BY <1>3, <1>4, <1>5

-----------------------------------------------------------------------------
(* A block's code.                                                         *)

LEMMA OneIsSeq ==
  ASSUME NEW S, NEW x \in S
  PROVE  <<x>> \in Seq(S)
  OBVIOUS

\* The lifter makes IL of every well-formed instruction, and only a call, a
\* jump or a return makes a branch.
LEMMA LiftedType ==
  ASSUME NEW m \in Machine, WellFormed(m), NEW t \in Temps
  PROVE  /\ lifted(m, t) \in Seq(Instruction)
         /\ m.op \in {"push", "pop", "mov"} => Plain(lifted(m, t))
  <1> DEFINE Straight == {instr \in Instruction : instr.op # "branch"}
  <1>1. /\ t \in Scalar /\ sp \in Scalar /\ NoTarget \notin Pc \cup Scalar
        /\ m.mode = "imm" => m.imm \in Pc
        /\ m.mode = "reg" => m.reg \in Scalar
        /\ m.mode = "mem" /\ m.reg # NoReg => m.reg \in Scalar
        /\ m.to \in Scalar \cup {NoReg}
    BY ScalarAssumption DEF Machine, WellFormed
  <1>2. ASSUME NEW op \in {"assign", "load", "store"},
               NEW dst \in Scalar \cup {NoReg}, NEW reads \in Seq(Scalar)
        PROVE  Il(op, dst, reads) \in Straight
    BY DEF Il, Instruction
  <1>3. ASSUME NEW to \in Pc \cup Scalar
        PROVE  Goto(to) \in Instruction
    BY <1>1, IlType
  <1>4. <<sp>> \in Seq(Scalar) /\ <<t>> \in Seq(Scalar) /\ <<>> \in Seq(Scalar)
    BY <1>1, OneIsSeq
  <1>5. /\ MoveStack \in Straight /\ Il("store", NoReg, <<sp>>) \in Straight
        /\ Il("load", t, <<sp>>) \in Straight
        /\ Il("assign", m.to, <<t>>) \in Straight
    BY <1>1, <1>2, <1>4 DEF MoveStack
  <1>6. fetch(m, t) \in Seq(Straight)
    <2> DEFINE reads == IF m.reg = NoReg THEN <<>> ELSE <<m.reg>>
    <2>1. CASE m.mode = "mem"
      <3>1. reads \in Seq(Scalar)
        BY <1>1, <1>4, <2>1, OneIsSeq
      <3> HIDE DEF reads
      <3>2. Il("load", t, reads) \in Straight
        BY <1>1, <1>2, <3>1
      <3> HIDE DEF Straight
      <3>3. <<Il("load", t, reads)>> \in Seq(Straight)
        BY <3>2, OneIsSeq
      <3>4. QED
        BY <2>1, <3>3 DEF fetch, reads
    <2>2. CASE m.mode # "mem"
      BY <2>2 DEF fetch
    <2>3. QED
      BY <2>1, <2>2
  <1>7. m.mode # "none" => operand(m, t) \in Pc \cup Scalar
    BY <1>1 DEF operand, Machine
  <1>8. m.mode # "none" => value(m, t) \in Seq(Scalar)
    <2>1. CASE m.mode = "imm"
      BY <1>4, <2>1 DEF value
    <2>2. CASE m.mode \in {"reg", "mem"}
      <3>1. operand(m, t) \in Scalar
        BY <1>1, <2>2 DEF operand
      <3>2. QED
        BY <2>2, <3>1, OneIsSeq DEF value
    <2>3. QED
      BY <2>1, <2>2 DEF Machine
  <1>9. Straight \subseteq Instruction
    OBVIOUS
  <1>10. ASSUME NEW ils \in Seq(Straight)
         PROVE  ils \in Seq(Instruction) /\ Plain(ils)
    BY DEF Plain
  <1>11. ASSUME m.op = "ret"
         PROVE  lifted(m, t) \in Seq(Instruction)
    <2>1. lifted(m, t) = <<Il("load", t, <<sp>>), MoveStack, Goto(t)>>
      BY <1>11 DEF lifted
    <2>2. Goto(t) \in Instruction
      BY <1>1, <1>3
    <2> HIDE DEF Straight
    <2>3. QED
      BY <1>5, <1>9, <2>1, <2>2
  <1>12. ASSUME m.op \in {"call", "jmp", "jcc"}
         PROVE  lifted(m, t) \in Seq(Instruction)
    <2> DEFINE to == Goto(operand(m, t))
               push == Il("store", NoReg, <<sp>>)
    <2>1. to \in Instruction
      BY <1>3, <1>7, <1>12 DEF WellFormed
    <2>2. fetch(m, t) \in Seq(Instruction)
      BY <1>6, <1>10
    <2>3. push \in Instruction /\ MoveStack \in Instruction
      BY <1>5, <1>9
    <2>4. CASE m.op = "call"
      <3>1. lifted(m, t) = fetch(m, t) \o <<MoveStack, push, to>>
        BY <2>4 DEF lifted
      <3> HIDE DEF to, push
      <3>2. <<MoveStack, push, to>> \in Seq(Instruction)
        BY <2>1, <2>3
      <3>3. QED
        BY <2>2, <3>1, <3>2, ConcatProperties
    <2>5. CASE m.op \in {"jmp", "jcc"}
      <3>1. lifted(m, t) = fetch(m, t) \o <<to>>
        BY <2>5 DEF lifted
      <3> HIDE DEF to
      <3>2. <<to>> \in Seq(Instruction)
        BY <2>1
      <3>3. QED
        BY <2>2, <3>1, <3>2, ConcatProperties
    <2>6. QED
      BY <1>12, <2>4, <2>5
  <1>13. ASSUME m.op \in {"push", "pop", "mov"}
         PROVE  lifted(m, t) \in Seq(Straight)
    <2>1. CASE m.op = "pop"
      <3>1. lifted(m, t)
              = <<Il("load", t, <<sp>>), MoveStack, Il("assign", m.to, <<t>>)>>
        BY <2>1 DEF lifted
      <3> HIDE DEF Straight
      <3>2. QED
        BY <1>5, <3>1
    <2>2. CASE m.op = "push"
      <3> DEFINE reads == <<sp>> \o value(m, t)
                 store == Il("store", NoReg, reads)
      <3>1. lifted(m, t) = fetch(m, t) \o <<MoveStack, store>>
        BY <2>2 DEF lifted
      <3>2. reads \in Seq(Scalar)
        BY <1>4, <1>8, <2>2, ConcatProperties DEF WellFormed
      <3> HIDE DEF reads
      <3>3. store \in Straight
        BY <1>2, <3>2
      <3> HIDE DEF store, Straight
      <3>4. <<MoveStack, store>> \in Seq(Straight)
        BY <1>5, <3>3
      <3>5. QED
        BY <1>6, <3>1, <3>4, ConcatProperties
    <2>3. CASE m.op = "mov"
      <3> DEFINE set == Il("assign", m.to, value(m, t))
      <3>1. lifted(m, t) = fetch(m, t) \o <<set>>
        BY <2>3 DEF lifted
      <3>2. set \in Straight
        BY <1>1, <1>2, <1>8, <2>3 DEF WellFormed
      <3> HIDE DEF set, Straight
      <3>3. <<set>> \in Seq(Straight)
        BY <3>2
      <3>4. QED
        BY <1>6, <3>1, <3>3, ConcatProperties
    <2>4. QED
      BY <1>13, <2>1, <2>2, <2>3
  <1>14. QED
    BY <1>10, <1>11, <1>12, <1>13 DEF Machine

-----------------------------------------------------------------------------
(* Flattening.  FlattenSeq is given by a function that is defined from its *)
(* own values; that there is one, and what it returns, goes by the least   *)
(* length for which it would not be so.                                    *)

\* f flattens the first n sequences of ss.
Flattens(f, ss, n) ==
  f = [i \in 1 .. n |-> IF i = 1 THEN ss[i] ELSE f[i - 1] \o ss[i]]

LEMMA FlattenExists ==
  ASSUME NEW ss, NEW n \in Nat \ {0}
  PROVE  \E f : Flattens(f, ss, n)
  <1> DEFINE Bad == {k \in Nat \ {0} : ~ \E f : Flattens(f, ss, k)}
  <1> SUFFICES ASSUME Bad # {}
               PROVE  FALSE
    OBVIOUS
  <1>1. PICK k \in Bad : \A j \in Bad : k <= j
    BY Least
  <1>2. CASE k = 1
    <2> DEFINE f == [i \in 1 .. 1 |-> ss[i]]
    <2>1. f = [i \in 1 .. 1 |-> IF i = 1 THEN ss[i] ELSE f[i - 1] \o ss[i]]
      OBVIOUS
    <2>2. Flattens(f, ss, 1)
      BY <2>1 DEF Flattens
    <2>3. QED
      BY <1>2, <2>2
  <1>3. CASE k # 1
    <2>1. k - 1 \in Nat \ {0} /\ k \in Nat /\ k - 1 \notin Bad
      BY <1>1, <1>3
    <2>2. PICK f : Flattens(f, ss, k - 1)
      BY <2>1
    <2> DEFINE g == [i \in 1 .. k |-> IF i = k THEN f[k - 1] \o ss[k] ELSE f[i]]
    <2>3. \A i \in 1 .. k - 1 :
            f[i] = IF i = 1 THEN ss[i] ELSE f[i - 1] \o ss[i]
      BY <2>2 DEF Flattens
    <2>4. \A i \in 1 .. k - 1 : g[i] = f[i]
      BY <2>1
    <2>5. g[k] = g[k - 1] \o ss[k]
      <3>1. k \in 1 .. k /\ k - 1 \in 1 .. k - 1
        BY <2>1
      <3>2. g[k - 1] = f[k - 1]
        BY <2>4, <3>1
      <3>3. QED
        BY <3>1, <3>2
    <2>6. ASSUME NEW i \in 1 .. k
          PROVE  g[i] = IF i = 1 THEN ss[i] ELSE g[i - 1] \o ss[i]
      <3>1. CASE i = k
        BY <1>3, <2>5, <3>1
      <3>2. CASE i # k /\ i = 1
        BY <2>1, <2>3, <2>4, <3>2
      <3>3. CASE i # k /\ i # 1
        <4>1. i \in 1 .. k - 1 /\ i - 1 \in 1 .. k - 1
          BY <2>1, <3>3
        <4>2. g[i] = f[i] /\ g[i - 1] = f[i - 1]
          BY <2>4, <4>1
        <4>3. f[i] = f[i - 1] \o ss[i]
          BY <2>3, <3>3, <4>1
        <4>4. QED
          BY <3>3, <4>2, <4>3
      <3>4. QED
        BY <3>1, <3>2, <3>3
    <2>7. g = [i \in 1 .. k |-> g[i]]
      OBVIOUS
    <2> HIDE DEF g
    <2>8. Flattens(g, ss, k)
      BY <2>6, <2>7 DEF Flattens
    <2>9. QED
      BY <1>1, <2>8
  <1>4. QED
    BY <1>2, <1>3

\* A sequence made of elements of the first k sequences of ss.
MadeOf(S, ss, k, q) ==
  /\ q \in Seq(S)
  /\ \A j \in DOMAIN q : \E i \in 1 .. k : \E l \in DOMAIN ss[i] : q[j] = ss[i][l]

LEMMA FlattenMadeOf ==
  ASSUME NEW S, NEW n \in Nat \ {0}, NEW ss \in Seq(Seq(S)), n <= Len(ss),
         NEW f, Flattens(f, ss, n), NEW k \in 1 .. n
  PROVE  MadeOf(S, ss, k, f[k])
  <1> DEFINE Bad == {j \in 1 .. n : ~MadeOf(S, ss, j, f[j])}
  <1> SUFFICES ASSUME Bad # {}
               PROVE  FALSE
    OBVIOUS
  <1>1. PICK j \in Bad : \A i \in Bad : j <= i
    <2>1. Bad \in SUBSET Nat
      OBVIOUS
    <2> HIDE DEF Bad
    <2>2. QED
      BY <2>1, Least
  <1>2. j \in 1 .. n /\ ~MadeOf(S, ss, j, f[j])
    BY <1>1
  <1>3. \A i \in 1 .. n : ss[i] \in Seq(S)
    BY LenProperties
  <1>4. f[j] = IF j = 1 THEN ss[j] ELSE f[j - 1] \o ss[j]
    BY <1>2 DEF Flattens
  <1>5. CASE j = 1
    BY <1>2, <1>3, <1>4, <1>5 DEF MadeOf
  <1>6. CASE j # 1
    <2>1. j - 1 \in 1 .. n /\ j - 1 \notin Bad
      BY <1>1, <1>2, <1>6
    <2>2. MadeOf(S, ss, j - 1, f[j - 1])
      BY <2>1
    <2> DEFINE p == f[j - 1]
               q == ss[j]
    <2>3. p \in Seq(S) /\ q \in Seq(S) /\ f[j] = p \o q
      BY <1>2, <1>3, <1>4, <1>6, <2>2 DEF MadeOf
    <2>4. \A x \in DOMAIN p :
            \E i \in 1 .. j : \E l \in DOMAIN ss[i] : p[x] = ss[i][l]
      <3>1. 1 .. j - 1 \subseteq 1 .. j
        BY <1>2
      <3>2. QED
        BY <2>2, <3>1 DEF MadeOf
    <2>5. \A x \in DOMAIN q :
            \E i \in 1 .. j : \E l \in DOMAIN ss[i] : q[x] = ss[i][l]
      BY <1>2
    <2> HIDE DEF p, q
    <2>6. /\ p \o q \in Seq(S)
          /\ \A x \in DOMAIN (p \o q) :
               \/ x \in DOMAIN p /\ (p \o q)[x] = p[x]
               \/ x - Len(p) \in DOMAIN q /\ (p \o q)[x] = q[x - Len(p)]
      BY <2>3, ConcatProperties, LenProperties
    <2> DEFINE pq == p \o q
    <2> HIDE DEF pq
    <2>7. MadeOf(S, ss, j, pq)
      <3>1. ASSUME NEW x \in DOMAIN pq
            PROVE  \E i \in 1 .. j : \E l \in DOMAIN ss[i] : pq[x] = ss[i][l]
        <4>1. CASE x \in DOMAIN p /\ pq[x] = p[x]
          BY <2>4, <4>1
        <4>2. CASE x - Len(p) \in DOMAIN q /\ pq[x] = q[x - Len(p)]
          BY <2>5, <4>2
        <4>3. QED
          BY <2>6, <4>1, <4>2 DEF pq
      <3>2. QED
        BY <2>6, <3>1 DEF MadeOf, pq
    <2>8. QED
      BY <1>2, <2>3, <2>7 DEF pq
  <1>7. QED
    BY <1>5, <1>6

\* Sequences are flattened to what the first ones are made of, and the last.
LEMMA FlattenLast ==
  ASSUME NEW S, NEW n \in Nat \ {0}, NEW ss \in Seq(Seq(S)), Len(ss) = n
  PROVE  \E q : MadeOf(S, ss, n - 1, q) /\ FlattenSeq(ss) = q \o ss[n]
  <1> DEFINE f == CHOOSE g : Flattens(g, ss, Len(ss))
  <1>1. Flattens(f, ss, n)
    BY FlattenExists
  <1>2. FlattenSeq(ss) = f[n]
    BY DEF FlattenSeq, Flattens
  <1> HIDE DEF f
  <1>3. f[n] = IF n = 1 THEN ss[n] ELSE f[n - 1] \o ss[n]
    <2>1. n \in 1 .. n
      OBVIOUS
    <2>2. QED
      BY <1>1, <2>1 DEF Flattens
  <1>4. CASE n = 1
    <2>1. ss[n] \in Seq(S)
      BY LenProperties
    <2>2. ss[n] = <<>> \o ss[n]
      BY <2>1
    <2>3. MadeOf(S, ss, n - 1, <<>>)
      BY DEF MadeOf
    <2>4. QED
      BY <1>2, <1>3, <1>4, <2>2, <2>3
  <1>5. CASE n # 1
    <2>1. MadeOf(S, ss, n - 1, f[n - 1])
      <3>1. n - 1 \in 1 .. n
        BY <1>5
      <3>2. n <= Len(ss)
        OBVIOUS
      <3>3. QED
        BY <1>1, <3>1, <3>2, FlattenMadeOf
    <2>2. QED
      BY <1>2, <1>3, <1>5, <2>1
  <1>6. QED
    BY <1>4, <1>5

\* The IL of a block that ends in a call or a return: that of its last
\* instruction, after instructions that do not branch.
LEMMA LiftedBlock ==
  ASSUME NEW code, X86Block(code), code # <<>>,
         Last(code).op \in {"call", "ret"}
  PROVE  /\ Last(code) \in Machine /\ WellFormed(Last(code))
         /\ \E before \in Seq(Instruction) : \E t \in Temps :
              /\ Plain(before)
              /\ x86_lift(code) = <<before \o lifted(Last(code), t)>>
  <1> DEFINE n == Len(code)
             ils == [i \in 1 .. n |-> lifted(code[i], temp[i])]
             t == temp[n]
  <1>1. /\ code \in Seq(Machine) /\ n \in Nat \ {0} /\ DOMAIN code = 1 .. n
        /\ n <= Len(temp)
    BY LenProperties, EmptySeq DEF X86Block
  <1>2. Last(code) = code[n]
    BY DEF Last
  <1>3. \A i \in 1 .. n : /\ code[i] \in Machine /\ WellFormed(code[i])
                          /\ temp[i] \in Temps
    BY <1>1, TempAssumption, LenProperties DEF X86Block
  <1>4. \A i \in 1 .. n - 1 : code[i].op \in {"push", "pop", "mov"}
    <2> TAKE i \in 1 .. n - 1
    <2> HIDE DEF n
    <2>1. i \in 1 .. n /\ i # n
      BY <1>1
    <2> USE DEF n
    <2>2. code[i].op \notin {"call", "jmp", "jcc", "ret"}
      BY <1>1, <2>1 DEF X86Block
    <2>3. QED
      BY <1>3, <2>1, <2>2 DEF Machine
  <1>5. \A i \in 1 .. n : ils[i] \in Seq(Instruction)
    BY <1>3, LiftedType
  <1>6. \A i \in 1 .. n - 1 : Plain(ils[i])
    <2> TAKE i \in 1 .. n - 1
    <2>1. i \in 1 .. n
      BY <1>1
    <2>2. Plain(lifted(code[i], temp[i]))
      BY <1>3, <1>4, <2>1, LiftedType
    <2>3. QED
      BY <2>1, <2>2
  <1>7. x86_lift(code) = <<FlattenSeq(ils)>>
    <2>1. ~ends_in_jcc(code)
      BY DEF ends_in_jcc
    <2>2. QED
      BY <1>1, <2>1 DEF x86_lift
  <1>8. ils[n] = lifted(Last(code), t) /\ t \in Temps
    BY <1>1, <1>2, <1>3
  <1> HIDE DEF t
  <1>9. ils = [i \in 1 .. n |-> ils[i]]
    OBVIOUS
  <1> HIDE DEF ils
  <1>10. ils \in Seq(Seq(Instruction)) /\ Len(ils) = n
    BY <1>1, <1>5, <1>9, FunctionIsSeq
  <1> HIDE DEF n
  <1>11. PICK before : /\ MadeOf(Instruction, ils, n - 1, before)
                       /\ FlattenSeq(ils) = before \o ils[n]
    BY <1>1, <1>10, FlattenLast
  <1>12. before \in Seq(Instruction) /\ Plain(before)
    BY <1>6, <1>11 DEF MadeOf, Plain
  <1>13. x86_lift(code) = <<before \o lifted(Last(code), t)>>
    BY <1>7, <1>8, <1>11
  <1>14. Last(code) \in Machine /\ WellFormed(Last(code))
    BY <1>1, <1>2, <1>3
  <1>15. QED
    BY <1>8, <1>12, <1>13, <1>14

\* The branch of a block that ends in a call or a return says which, and the
\* callee or the register it is called through, whatever is in the block.
THEOREM EndingFound ==
  ASSUME NEW arch \in StackArchs, NEW code, X86Block(code), code # <<>>,
         Last(code).op \in {"call", "ret"}
  PROVE  LET m == Last(code)
             found == find_branch(arch, x86_lift(code))
         IN  /\ m.op = "ret" => found = Sentinel("ReturnSentinel", NoReg)
             /\ m.op = "call" /\ m.mode = "imm" =>
                  found = Direct("DirectCall", m.imm)
             /\ m.op = "call" /\ m.mode # "imm" /\ m.reg # NoReg =>
                  found = Sentinel("CallSentinel", m.reg)
  <1> DEFINE m == Last(code)
  <1>1. PICK before \in Seq(Instruction), t \in Temps :
          /\ Plain(before)
          /\ x86_lift(code) = <<before \o lifted(m, t)>>
    BY LiftedBlock
  <1>2. /\ m \in Machine
        /\ m.mode = "imm" => m.imm \in Pc
        /\ m.op = "call" /\ m.mode # "imm" => m.mode \in {"reg", "mem"}
        /\ m.reg # NoReg => m.reg \in Scalar \ Temps
    BY LiftedBlock DEF WellFormed, Machine
  <1> HIDE DEF m
  <1>3. m.op = "ret" =>
          find_branch(arch, x86_lift(code)) = Sentinel("ReturnSentinel", NoReg)
    BY <1>1, <1>2, ReturnFound
  <1>4. m.op = "call" /\ m.mode = "imm" =>
          find_branch(arch, x86_lift(code)) = Direct("DirectCall", m.imm)
    BY <1>1, <1>2, CallFound
  <1>5. m.op = "call" /\ m.mode # "imm" /\ m.reg # NoReg =>
          find_branch(arch, x86_lift(code)) = Sentinel("CallSentinel", m.reg)
    BY <1>1, <1>2, CallFound
  <1>6. QED
    BY <1>3, <1>4, <1>5 DEF m

=============================================================================
