------------------------ MODULE TraceFaithfulProofs ------------------------
(***************************************************************************)
(* The trace of panda-il-trace is the guest's history, for every number of *)
(* workers, every recording and every order in which the workers finish.   *)
(* Every block under way or collected is the stamped block of some traced  *)
(* block of the recording; when uninit has collected as many as were       *)
(* stamped it has each of them, and from puts them in order.               *)
(***************************************************************************)
EXTENDS IlTraceProofs, TraceListProofs

\* The traced block i as the callback queues it ...
JobOf(i) ==
  [bb |-> new_block(Stamp(i), recording[i].pc, recording[i].asid),
   il |-> recording[i].il]

\* ... and as a worker leaves it.
DoneBlock(i) == process(JobOf(i).bb, JobOf(i).il)

Jobs == {JobOf(i) : i \in TracedAt}

DoneBlocks == {DoneBlock(i) : i \in {j \in TracedAt : ~panics(recording[j].il)}}

\* The number of stamps, and where every block comes from.
FromGuest ==
  /\ BB_NUM = Cardinality(TracedAt)
  /\ fresh \in Jobs \cup {Idle}
  /\ BBQ_IN \in Seq(Jobs)
  /\ held \in [Workers -> Jobs \cup {Idle}]
  /\ BBQ_OUT \in Seq(DoneBlocks)
  /\ bbs \in Seq(DoneBlocks)

\* Where the final list and the file come from.
FromList ==
  /\ main \in {"write", "exited"} => final = from(bbs)
  /\ main = "exited" => json = to_branch_json(final)

HistoryInv == WholeInv /\ FromGuest /\ FromList

-----------------------------------------------------------------------------
(* Stamps.                                                                 *)

LEMMA RecordingType ==
  ASSUME TypeInv
  PROVE  /\ recording \in Seq(Executed)
         /\ Len(recording) \in Nat
         /\ pos \in 0 .. Len(recording)
         /\ DOMAIN recording = 1 .. Len(recording)
  BY TraceAssumption, LenProperties DEF TypeInv, TypeOK

LEMMA TracedAtType ==
  ASSUME TypeInv
  PROVE  /\ TracedAt \subseteq 1 .. pos
         /\ IsFiniteSet(TracedAt)
         /\ Cardinality(TracedAt) \in Nat
         /\ \A i \in TracedAt : i \in Nat /\ recording[i] \in Executed
  <1>1. /\ recording \in Seq(Executed) /\ Len(recording) \in Nat
        /\ pos \in 0 .. Len(recording)
    BY RecordingType
  <1>2. TracedAt \subseteq 1 .. pos
    BY DEF TracedAt
  <1>3. IsFiniteSet(1 .. pos)
    BY <1>1, FS_Interval
  <1>4. IsFiniteSet(TracedAt) /\ Cardinality(TracedAt) \in Nat
    BY <1>2, <1>3, FS_Subset, FS_CardinalityType
  <1>5. ASSUME NEW i \in TracedAt
        PROVE  i \in Nat /\ recording[i] \in Executed
    <2>1. i \in 1 .. Len(recording)
      BY <1>1, <1>2
    <2>2. QED
      BY <1>1, <2>1, ElementOfSeq
  <1>6. QED
    BY <1>2, <1>4, <1>5

\* The traced blocks have numbers below their count, in the guest's order.
LEMMA StampsInOrder ==
  ASSUME TypeInv
  PROVE  /\ \A i \in TracedAt : Stamp(i) \in 0 .. Cardinality(TracedAt) - 1
         /\ \A i, j \in TracedAt : i < j <=> Stamp(i) < Stamp(j)
         /\ \A i, j \in TracedAt : Stamp(i) = Stamp(j) => i = j
  <1> DEFINE before(i) == {j \in TracedAt : j < i}
  <1>1. IsFiniteSet(TracedAt) /\ \A i \in TracedAt : i \in Nat
    BY TracedAtType
  <1>2. ASSUME NEW i \in TracedAt
        PROVE  /\ IsFiniteSet(before(i)) /\ Stamp(i) \in Nat
               /\ Stamp(i) <= Cardinality(TracedAt)
               /\ Stamp(i) # Cardinality(TracedAt)
    <2>1. before(i) \subseteq TracedAt /\ i \notin before(i)
      BY <1>1
    <2>2. Stamp(i) = Cardinality(before(i))
      BY DEF Stamp
    <2> HIDE DEF before
    <2>3. QED
      BY <1>1, <2>1, <2>2, FS_Subset, FS_CardinalityType
  <1>3. Cardinality(TracedAt) \in Nat
    BY <1>1, FS_CardinalityType
  <1>4. ASSUME NEW i \in TracedAt, NEW j \in TracedAt, i < j
        PROVE  Stamp(i) < Stamp(j)
    <2>1. before(i) \subseteq before(j) /\ i \in before(j) /\ i \notin before(i)
      BY <1>1, <1>4
    <2>2. Stamp(i) = Cardinality(before(i)) /\ Stamp(j) = Cardinality(before(j))
      BY DEF Stamp
    <2>3. IsFiniteSet(before(j)) /\ Stamp(i) \in Nat /\ Stamp(j) \in Nat
      BY <1>2
    <2> HIDE DEF before
    <2>4. Stamp(i) <= Stamp(j) /\ Stamp(i) # Stamp(j)
      BY <2>1, <2>2, <2>3, FS_Subset
    <2>5. QED
      BY <2>3, <2>4
  <1>5. ASSUME NEW i \in TracedAt
        PROVE  Stamp(i) \in 0 .. Cardinality(TracedAt) - 1
    <2> DEFINE n == Stamp(i)
               c == Cardinality(TracedAt)
    <2>1. n \in Nat /\ c \in Nat /\ n <= c /\ n # c
      BY <1>2, <1>3
    <2> HIDE DEF n, c
    <2>2. n \in 0 .. c - 1
      BY <2>1
    <2>3. QED
      BY <2>2 DEF n, c
  <1>6. ASSUME NEW i \in TracedAt, NEW j \in TracedAt
        PROVE  /\ i < j <=> Stamp(i) < Stamp(j)
               /\ Stamp(i) = Stamp(j) => i = j
    <2>1. i < j \/ i = j \/ j < i
      BY <1>1
    <2>2. Stamp(i) \in Nat /\ Stamp(j) \in Nat
      BY <1>2
    <2>3. QED
      BY <1>1, <1>4, <2>1, <2>2
  <1>7. QED
    BY <1>5, <1>6

-----------------------------------------------------------------------------
(* Every block comes from the guest.                                       *)

LEMMA SeqOfMore ==
  ASSUME NEW S, NEW T, S \subseteq T, NEW q \in Seq(S)
  PROVE  q \in Seq(T)
  OBVIOUS

LEMMA HistoryInvInit == Init => HistoryInv
  <1> SUFFICES ASSUME Init
               PROVE  HistoryInv
    OBVIOUS
  <1>1. TracedAt = {}
    BY DEF Init, TracedAt
  <1>2. FromGuest
    BY <1>1, FS_EmptySet, EmptySeq DEF Init, FromGuest
  <1>3. FromList
    BY DEF Init, FromList
  <1>4. QED
    BY <1>2, <1>3, WholeInvInit DEF HistoryInv

\* A stamp counts one more traced block, and changes no other block's number.
LEMMA TracedByStamp ==
  ASSUME TypeInv, StampBlock, NEW n, n = pos + 1
  PROVE  /\ TracedAt' = TracedAt \cup {n}
         /\ n \notin TracedAt
         /\ \A i \in TracedAt : Stamp(i)' = Stamp(i)
         /\ Stamp(n)' = Cardinality(TracedAt)
  <1>1. /\ pos \in Nat /\ TracedAt \subseteq 1 .. pos
    BY RecordingType, TracedAtType
  <1>2. n = pos + 1 /\ pos' = n /\ Traced(recording[n]) /\ recording' = recording
    BY DEF StampBlock
  <1>3. TracedAt' = {i \in 1 .. n : Traced(recording[i])}
    BY <1>2 DEF TracedAt, Traced
  <1>4. TracedAt' = TracedAt \cup {n} /\ n \notin TracedAt
    BY <1>1, <1>2, <1>3 DEF TracedAt
  <1>5. ASSUME NEW i \in TracedAt
        PROVE  Stamp(i)' = Stamp(i)
    <2>1. {j \in TracedAt' : j < i} = {j \in TracedAt : j < i}
      BY <1>1, <1>4
    <2>2. QED
      BY <2>1 DEF Stamp
  <1>6. Stamp(n)' = Cardinality(TracedAt)
    <2>1. {j \in TracedAt' : j < n} = TracedAt
      <3>1. \A j \in TracedAt : j < n
        BY <1>1
      <3>2. ~(n < n)
        BY <1>1
      <3>3. QED
        BY <1>4, <3>1, <3>2
    <2>2. Stamp(n)' = Cardinality({j \in TracedAt' : j < n})
      BY <1>2 DEF Stamp
    <2>3. QED
      BY <2>1, <2>2
  <1>7. QED
    BY <1>4, <1>5, <1>6

LEMMA TracedBySkip ==
  ASSUME TypeInv, SkipBlock
  PROVE  /\ TracedAt' = TracedAt
         /\ \A i \in TracedAt : Stamp(i)' = Stamp(i)
  <1>1. /\ pos \in Nat /\ TracedAt \subseteq 1 .. pos
    BY RecordingType, TracedAtType
  <1>2. pos' = pos + 1 /\ ~Traced(recording[pos + 1]) /\ recording' = recording
    BY DEF SkipBlock
  <1>3. TracedAt' = {i \in 1 .. pos + 1 : Traced(recording[i])}
    BY <1>2 DEF TracedAt, Traced
  <1>4. TracedAt' = TracedAt
    BY <1>1, <1>2, <1>3 DEF TracedAt
  <1>5. QED
    BY <1>4 DEF Stamp

\* What is known of a traced block stays as the guest goes on.
LEMMA HistoryGrows ==
  ASSUME TypeInv, Guest
  PROVE  Jobs \subseteq Jobs' /\ DoneBlocks \subseteq DoneBlocks'
  <1>1. /\ TracedAt \subseteq TracedAt'
        /\ \A i \in TracedAt : Stamp(i)' = Stamp(i)
        /\ arch' = arch /\ recording' = recording
    <2>1. CASE SkipBlock
      BY <2>1, TracedBySkip DEF SkipBlock
    <2>2. CASE StampBlock
      <3> PICK n : n = pos + 1
        OBVIOUS
      <3>1. QED
        BY <2>2, TracedByStamp DEF StampBlock
    <2>3. QED
      BY <2>1, <2>2 DEF Guest
  <1>2. \A i \in TracedAt : JobOf(i)' = JobOf(i)
    BY <1>1 DEF JobOf, new_block
  <1>3. \A i \in TracedAt : DoneBlock(i)' = DoneBlock(i)
    BY <1>1, <1>2 DEF DoneBlock, process
  <1>4. \A i \in TracedAt :
          panics(recording[i].il)' <=> panics(recording[i].il)
    BY <1>1 DEF panics
  <1>5. Jobs \subseteq Jobs'
    BY <1>1, <1>2 DEF Jobs
  <1>6. DoneBlocks \subseteq DoneBlocks'
    BY <1>1, <1>3, <1>4 DEF DoneBlocks
  <1>7. QED
    BY <1>5, <1>6

LEMMA GuestHistory ==
  ASSUME HistoryInv, Guest
  PROVE  FromGuest'
  <1>1. TypeInv
    BY DEF HistoryInv, WholeInv, PipeInv
  <1>2. Jobs \subseteq Jobs' /\ DoneBlocks \subseteq DoneBlocks'
    BY <1>1, HistoryGrows
  <1>3. /\ BBQ_IN' \in Seq(Jobs') /\ BBQ_OUT' \in Seq(DoneBlocks')
        /\ bbs' \in Seq(DoneBlocks')
    <2>1. UNCHANGED <<BBQ_IN, BBQ_OUT, bbs>>
      BY DEF Guest, SkipBlock, StampBlock
    <2>2. QED
      BY <1>2, <2>1, SeqOfMore DEF HistoryInv, FromGuest
  <1>4. held' \in [Workers -> Jobs' \cup {Idle}]
    <2>1. held' = held
      BY DEF Guest, SkipBlock, StampBlock
    <2>2. QED
      BY <1>2, <2>1 DEF HistoryInv, FromGuest
  <1>5. CASE SkipBlock
    <2>1. fresh' = fresh /\ BB_NUM' = BB_NUM /\ TracedAt' = TracedAt
      BY <1>1, <1>5, TracedBySkip DEF SkipBlock
    <2>2. QED
      BY <1>2, <1>3, <1>4, <2>1 DEF HistoryInv, FromGuest
  <1>6. CASE StampBlock
    <2> PICK n : n = pos + 1
      OBVIOUS
    <2>1. /\ TracedAt' = TracedAt \cup {n} /\ n \notin TracedAt
          /\ Stamp(n)' = BB_NUM
          /\ BB_NUM' = BB_NUM + 1
      BY <1>1, <1>6, TracedByStamp DEF StampBlock, HistoryInv, FromGuest
    <2>2. BB_NUM' = Cardinality(TracedAt')
      BY <1>1, <2>1, TracedAtType, FS_AddElement DEF HistoryInv, FromGuest
    <2>3. fresh' = JobOf(n)'
      BY <1>6, <2>1 DEF StampBlock, JobOf, new_block
    <2>4. fresh' \in Jobs'
      BY <2>1, <2>3 DEF Jobs
    <2>5. QED
      BY <1>3, <1>4, <2>2, <2>4 DEF FromGuest
  <1>7. QED
    BY <1>5, <1>6 DEF Guest

\* The other steps leave the recording alone.
LEMMA HistoryStays ==
  ASSUME UNCHANGED guestVars
  PROVE  /\ TracedAt' = TracedAt /\ Jobs' = Jobs /\ DoneBlocks' = DoneBlocks
  <1>1. TracedAt' = TracedAt
    BY DEF guestVars, TracedAt, Traced
  <1>2. \A i : Stamp(i)' = Stamp(i)
    BY <1>1 DEF Stamp
  <1>3. \A i : JobOf(i)' = JobOf(i)
    BY <1>2 DEF JobOf, new_block, guestVars
  <1>4. \A i : DoneBlock(i)' = DoneBlock(i)
    BY <1>3 DEF DoneBlock, process, guestVars
  <1>5. \A il : panics(il)' <=> panics(il)
    BY DEF panics, guestVars
  <1>6. QED
    BY <1>1, <1>3, <1>4, <1>5 DEF Jobs, DoneBlocks, guestVars

LEMMA JobsAreJobs ==
  ASSUME TypeInv
  PROVE  Idle \notin Jobs
  <1> SUFFICES ASSUME NEW i \in TracedAt
               PROVE  JobOf(i) \in Job
    BY IdleIsNoJob DEF Jobs
  <1>1. recording[i] \in Executed
    BY TracedAtType
  <1>2. Stamp(i) \in Nat
    BY TracedAtType, StampsInOrder
  <1>3. QED
    BY <1>1, <1>2, NewBlockType DEF JobOf, Job, Executed

LEMMA FromGuestNext ==
  ASSUME HistoryInv, [Next]_vars
  PROVE  FromGuest'
  <1>1. TypeInv
    BY DEF HistoryInv, WholeInv, PipeInv
  <1> USE DEF HistoryInv, FromGuest
  <1>2. CASE Guest
    BY <1>2, GuestHistory
  <1>3. ASSUME UNCHANGED <<guestVars, BB_NUM>>
        PROVE  /\ BB_NUM' = Cardinality(TracedAt')
               /\ Jobs' = Jobs /\ DoneBlocks' = DoneBlocks
    BY <1>3, HistoryStays
  <1>4. CASE QueueBlock
    <2>1. fresh \in Jobs
      BY <1>1, <1>4 DEF QueueBlock, TypeInv, InHand
    <2>2. QED
      BY <1>3, <1>4, <2>1, AppendProperties DEF QueueBlock
  <1>5. CASE DrainOut
    BY <1>3, <1>5, HeadTailProperties, AppendProperties DEF DrainOut
  <1>6. CASE \/ FinishLifts \/ Finalize \/ WriteTrace \/ WriteFails
             \/ BeginUninit
    BY <1>3, <1>6
       DEF FinishLifts, Finalize, WriteTrace, WriteFails, BeginUninit
  <1>7. ASSUME NEW w \in Workers, PopIn(w)
        PROVE  FromGuest'
    <2>1. Head(BBQ_IN) \in Jobs /\ Tail(BBQ_IN) \in Seq(Jobs)
      BY <1>7, HeadTailProperties DEF PopIn
    <2>2. QED
      BY <1>3, <1>7, <2>1 DEF PopIn
  <1>8. ASSUME NEW w \in Workers, PushOut(w)
        PROVE  FromGuest'
    <2>1. PICK i \in TracedAt : held[w] = JobOf(i)
      BY <1>8 DEF PushOut, Jobs
    <2>2. held[w].il = recording[i].il
      BY <2>1 DEF JobOf
    <2>3. process(held[w].bb, held[w].il) = DoneBlock(i)
      BY <2>1 DEF DoneBlock
    <2>4. ~panics(recording[i].il)
      BY <1>8, <2>2 DEF PushOut
    <2>5. DoneBlock(i) \in DoneBlocks
      BY <2>4 DEF DoneBlocks
    <2>6. QED
      BY <1>3, <1>8, <2>3, <2>5, AppendProperties DEF PushOut
  <1>9. ASSUME NEW w \in Workers, WorkerPanics(w)
        PROVE  FromGuest'
    BY <1>3, <1>9 DEF WorkerPanics
  <1>10. CASE UNCHANGED vars
    BY <1>3, <1>10 DEF vars
  <1>11. QED
    BY <1>2, <1>4, <1>5, <1>6, <1>7, <1>8, <1>9, <1>10
       DEF Next, Callback, Worker

\* The list and the file are made once, from what was collected.
LEMMA FromListNext ==
  ASSUME HistoryInv, [Next]_vars
  PROVE  FromList'
  <1> USE DEF HistoryInv, FromList
  <1>1. CASE Guest \/ BeginUninit
    BY <1>1 DEF Guest, SkipBlock, StampBlock, BeginUninit
  <1>2. CASE Callback
    BY <1>2 DEF Callback, QueueBlock, FinishLifts, DrainOut, Finalize,
                WriteTrace, WriteFails
  <1>3. ASSUME NEW w \in Workers, Worker(w)
        PROVE  FromList'
    BY <1>3, WorkersDone DEF Worker, PopIn, PushOut, WorkerPanics
  <1>4. CASE UNCHANGED vars
    BY <1>4 DEF vars
  <1>5. QED
    BY <1>1, <1>2, <1>3, <1>4 DEF Next

LEMMA HistoryInvNext == HistoryInv /\ [Next]_vars => HistoryInv'
  BY WholeInvNext, FromGuestNext, FromListNext DEF HistoryInv

\* A block the pipeline has is a traced one of the recording, with its number
\* and what lifting its own code gives, and what is written is made of all
\* that were collected.
THEOREM HistoryKept == Spec => []HistoryInv
  BY HistoryInvInit, HistoryInvNext, PTL DEF Spec

-----------------------------------------------------------------------------
(* The collected blocks.                                                   *)

\* The branch of the traced block i, before it is resolved.
BranchOf(i) ==
  IF recording[i].il = NotLifted
    THEN NoBranch
    ELSE find_branch(arch, recording[i].il)

LEMMA DoneBlockIs ==
  ASSUME TypeInv, NEW i \in TracedAt, ~panics(recording[i].il)
  PROVE  /\ DoneBlock(i) \in BasicBlock
         /\ DoneBlock(i).seq_num = Stamp(i)
         /\ DoneBlock(i).asid = recording[i].asid
         /\ DoneBlock(i).pc = recording[i].pc
         /\ DoneBlock(i).branch = BranchOf(i)
         /\ DoneBlock(i) =
              [new_block(Stamp(i), recording[i].pc, recording[i].asid) EXCEPT
                 !.lifted = recording[i].il # NotLifted, !.branch = BranchOf(i)]
  <1> DEFINE block == new_block(Stamp(i), recording[i].pc, recording[i].asid)
  <1>1. recording[i] \in Executed /\ Stamp(i) \in Nat
    BY TracedAtType, StampsInOrder
  <1>2. block \in BasicBlock /\ recording[i].il \in Cfg \cup {NotLifted}
    BY <1>1, NewBlockType DEF Executed
  <1>3. DoneBlock(i) = process(block, recording[i].il)
    BY DEF DoneBlock, JobOf
  <1>4. DoneBlock(i) \in BasicBlock
    BY <1>2, <1>3, ProcessType
  <1>5. CASE recording[i].il = NotLifted
    <2>1. DoneBlock(i) = block /\ BranchOf(i) = NoBranch
      BY <1>3, <1>5 DEF process, BranchOf
    <2>2. block.branch = NoBranch /\ block.lifted = FALSE
      BY DEF new_block
    <2>3. /\ block.seq_num = Stamp(i) /\ block.pc = recording[i].pc
          /\ block.asid = recording[i].asid
      BY DEF new_block
    <2> HIDE DEF block
    <2>4. block = [block EXCEPT !.lifted = FALSE, !.branch = NoBranch]
      BY <1>2, <2>2 DEF BasicBlock
    <2>5. block = [block EXCEPT !.lifted = recording[i].il # NotLifted,
                                !.branch = NoBranch]
      BY <1>5, <2>4
    <2>6. QED
      BY <1>4, <2>1, <2>2, <2>3, <2>5 DEF block
  <1>6. CASE recording[i].il # NotLifted
    <2> DEFINE branch == find_branch(arch, recording[i].il)
    <2>1. DoneBlock(i) = [block EXCEPT !.lifted = TRUE, !.branch = branch]
      BY <1>3, <1>6 DEF process
    <2>2. BranchOf(i) = branch
      BY <1>6 DEF BranchOf
    <2> HIDE DEF branch
    <2>3. QED
      BY <1>4, <1>6, <2>1, <2>2 DEF new_block
  <1>7. QED
    BY <1>5, <1>6

\* The blocks of the trace before their branches are resolved.
Line == Sorted(bbs, DOMAIN bbs)

\* Uninit has each traced block once, and no other.
LEMMA Collected ==
  ASSUME HistoryInv, main \in {"write", "exited"}
  PROVE  /\ bbs \in Seq(BasicBlock)
         /\ Distinct(bbs, DOMAIN bbs)
         /\ \A k \in DOMAIN bbs : \E i \in TracedAt :
              bbs[k] = DoneBlock(i) /\ ~panics(recording[i].il)
         /\ \A i \in TracedAt : ~panics(recording[i].il) /\
              \E k \in DOMAIN bbs : bbs[k] = DoneBlock(i)
  <1>1. TypeInv /\ bbs \in Seq(BasicBlock) /\ BB_NUM = Cardinality(TracedAt)
    BY DEF HistoryInv, WholeInv, PipeInv, TypeInv, TypeOK, FromGuest
  <1>2. Len(bbs) = BB_NUM /\ Stamps(bbs) = 0 .. BB_NUM - 1
    <2>1. BBQ_OUT = <<>>
      BY DEF HistoryInv, WholeInv, Gathered
    <2>2. Len(BBQ_OUT) = 0 /\ Stamps(BBQ_OUT) = {}
      BY <2>1 DEF Stamps
    <2>3. Len(BBQ_OUT) + Len(bbs) = BB_NUM
          /\ Stamps(BBQ_OUT) \cup Stamps(bbs) = 0 .. BB_NUM - 1
      BY DrainHolds DEF HistoryInv
    <2>4. Len(bbs) \in Nat
      BY <1>1, LenProperties
    <2>5. QED
      BY <2>2, <2>3, <2>4
  <1>3. BB_NUM \in Nat
    BY <1>1, TracedAtType
  <1>4. DOMAIN bbs = 1 .. BB_NUM
    BY <1>1, <1>2, LenProperties
  <1>5. Distinct(bbs, DOMAIN bbs)
    <2> DEFINE D == 1 .. BB_NUM
               T == 0 .. BB_NUM - 1
               f == [k \in D |-> bbs[k].seq_num]
    <2>1. f \in Surjection(D, T)
      BY <1>2, <1>4 DEF Surjection, Stamps
    <2>2. IsFiniteSet(D) /\ Cardinality(D) = BB_NUM /\ Cardinality(T) = BB_NUM
      BY <1>3, FS_Interval
    <2>3. f \in Injection(D, T)
      <3> HIDE DEF D, T, f
      <3>1. QED
        BY <2>1, <2>2, FS_Surjection
    <2>4. QED
      BY <1>4, <2>3 DEF Injection, IsInjective, Distinct
  <1>6. ASSUME NEW k \in DOMAIN bbs
        PROVE  \E i \in TracedAt :
                 bbs[k] = DoneBlock(i) /\ ~panics(recording[i].il)
    <2>1. bbs \in Seq(DoneBlocks)
      BY DEF HistoryInv, FromGuest
    <2>2. bbs[k] \in DoneBlocks
      BY <2>1
    <2>3. QED
      BY <2>2 DEF DoneBlocks
  <1>7. ASSUME NEW i \in TracedAt
        PROVE  ~panics(recording[i].il) /\
               \E k \in DOMAIN bbs : bbs[k] = DoneBlock(i)
    <2>1. Stamp(i) \in Stamps(bbs)
      BY <1>1, <1>2, StampsInOrder
    <2>2. PICK k \in DOMAIN bbs : bbs[k].seq_num = Stamp(i)
      BY <2>1 DEF Stamps
    <2>3. PICK j \in TracedAt :
            bbs[k] = DoneBlock(j) /\ ~panics(recording[j].il)
      BY <1>6
    <2>4. Stamp(j) = Stamp(i)
      BY <1>1, <2>2, <2>3, DoneBlockIs
    <2>5. j = i
      BY <1>1, <2>4, StampsInOrder
    <2>6. QED
      BY <2>3, <2>5
  <1>8. QED
    BY <1>1, <1>5, <1>6, <1>7

\* The final list is the collected blocks in order, with their branches
\* resolved.
LEMMA FinalIs ==
  ASSUME HistoryInv, main \in {"write", "exited"}
  PROVE  /\ Line \in Seq(BasicBlock) /\ InOrder(Line)
         /\ final = Settle(Line)
         /\ \A x \in DOMAIN Line : \E i \in TracedAt : Line[x] = DoneBlock(i)
         /\ \A i \in TracedAt : \E x \in DOMAIN Line : Line[x] = DoneBlock(i)
  <1>1. /\ bbs \in Seq(BasicBlock) /\ Distinct(bbs, DOMAIN bbs)
        /\ \A k \in DOMAIN bbs : \E i \in TracedAt : bbs[k] = DoneBlock(i)
        /\ \A i \in TracedAt : \E k \in DOMAIN bbs : bbs[k] = DoneBlock(i)
    BY Collected
  <1>2. /\ Line \in Seq(BasicBlock) /\ InOrder(Line)
        /\ {Line[x] : x \in DOMAIN Line} = {bbs[k] : k \in DOMAIN bbs}
    BY <1>1, SortedList DEF Line
  <1>3. final = Settle(Line)
    BY DEF HistoryInv, FromList, from, from_some, Line
  <1> HIDE DEF Line
  <1>4. \A x \in DOMAIN Line : \E k \in DOMAIN bbs : Line[x] = bbs[k]
    BY <1>2
  <1>5. \A k \in DOMAIN bbs : \E x \in DOMAIN Line : Line[x] = bbs[k]
    BY <1>2
  <1>6. \A x \in DOMAIN Line : \E i \in TracedAt : Line[x] = DoneBlock(i)
    BY <1>1, <1>4
  <1>7. \A i \in TracedAt : \E x \in DOMAIN Line : Line[x] = DoneBlock(i)
    BY <1>1, <1>5
  <1>8. QED
    BY <1>2, <1>3, <1>6, <1>7

-----------------------------------------------------------------------------
(* The final list.                                                         *)

\* The later blocks of the line are those of the guest.
LEMMA LaterIsAfter ==
  ASSUME HistoryInv, main \in {"write", "exited"},
         NEW x \in DOMAIN Line, NEW y \in DOMAIN Line,
         NEW i \in TracedAt, NEW j \in TracedAt,
         Line[x] = DoneBlock(i), Line[y] = DoneBlock(j)
  PROVE  y \in Later(Line, x) <=> j \in After(i)
  <1>1. TypeInv
    BY DEF HistoryInv, WholeInv, PipeInv
  <1>2. ~panics(recording[i].il) /\ ~panics(recording[j].il)
    BY Collected
  <1>3. /\ Line[x].seq_num = Stamp(i) /\ Line[x].asid = recording[i].asid
        /\ Line[y].seq_num = Stamp(j) /\ Line[y].asid = recording[j].asid
    BY <1>1, <1>2, DoneBlockIs
  <1>4. i < j <=> Stamp(i) < Stamp(j)
    BY <1>1, StampsInOrder
  <1>5. i \in Nat /\ j \in Nat
    BY <1>1, TracedAtType
  <1>6. QED
    BY <1>3, <1>4, <1>5 DEF Later, After

\* What the final list has for a traced block.
LEMMA FinalIsExpected ==
  ASSUME HistoryInv, main \in {"write", "exited"},
         NEW x \in DOMAIN Line, NEW i \in TracedAt, Line[x] = DoneBlock(i)
  PROVE  final[x] = Expected(i)
  <1>1. TypeInv /\ ~panics(recording[i].il)
    BY Collected DEF HistoryInv, WholeInv, PipeInv
  <1> DEFINE block == new_block(Stamp(i), recording[i].pc, recording[i].asid)
             lifts == recording[i].il # NotLifted
             branch == BranchOf(i)
             next == recording[Min(After(i))].pc
  <1>2. /\ Line[x] = [block EXCEPT !.lifted = lifts, !.branch = branch]
        /\ Line[x].branch = branch
    BY <1>1, DoneBlockIs
  <1>3. Expected(i) =
          [block EXCEPT !.lifted = lifts,
                        !.branch = IF After(i) = {} THEN branch
                                   ELSE resolve(branch, next)]
    BY DEF Expected, BranchOf
  <1>4. /\ Line \in Seq(BasicBlock) /\ InOrder(Line)
        /\ final = Settle(Line)
        /\ \A y \in DOMAIN Line : \E j \in TracedAt : Line[y] = DoneBlock(j)
        /\ \A j \in TracedAt : \E y \in DOMAIN Line : Line[y] = DoneBlock(j)
    BY FinalIs
  <1>5. CASE After(i) = {}
    <2>1. Later(Line, x) = {}
      <3> SUFFICES ASSUME NEW y \in Later(Line, x)
                   PROVE  FALSE
        OBVIOUS
      <3>1. y \in DOMAIN Line
        BY DEF Later
      <3>2. PICK j \in TracedAt : Line[y] = DoneBlock(j)
        BY <1>4, <3>1
      <3>3. QED
        BY <1>5, <3>1, <3>2, LaterIsAfter
    <2>2. final[x] = Line[x]
      BY <1>4, <2>1, SettledByNext
    <2>3. QED
      BY <1>2, <1>3, <1>5, <2>2
  <1>6. CASE After(i) # {}
    <2> DEFINE m == Min(After(i))
    <2>1. After(i) \subseteq TracedAt /\ After(i) \in SUBSET Nat
      BY <1>1, TracedAtType DEF After
    <2>2. m \in After(i) /\ \A j \in After(i) : m <= j
      BY <1>6, <2>1, MinIsLeast
    <2> HIDE DEF m
    <2>3. m \in TracedAt /\ ~panics(recording[m].il)
      BY <2>1, <2>2, Collected
    <2>4. PICK y \in DOMAIN Line : Line[y] = DoneBlock(m)
      BY <1>4, <2>3
    <2>5. y \in Later(Line, x)
      BY <2>2, <2>3, <2>4, LaterIsAfter
    <2>6. Line[y].seq_num = Stamp(m) /\ Line[y].pc = recording[m].pc
      BY <1>1, <2>3, <2>4, DoneBlockIs
    <2>7. ASSUME NEW z \in Later(Line, x)
          PROVE  Line[y].seq_num <= Line[z].seq_num
      <3>1. z \in DOMAIN Line
        BY DEF Later
      <3>2. PICK j \in TracedAt : Line[z] = DoneBlock(j)
        BY <1>4, <3>1
      <3>3. j \in After(i) /\ ~panics(recording[j].il)
        BY <3>1, <3>2, LaterIsAfter, Collected
      <3>4. m <= j /\ m \in Nat /\ j \in Nat
        BY <2>1, <2>2, <3>3
      <3>5. Line[z].seq_num = Stamp(j)
        BY <1>1, <3>2, <3>3, DoneBlockIs
      <3>6. ~(Stamp(j) < Stamp(m))
        BY <1>1, <2>3, <3>4, StampsInOrder
      <3>7. Stamp(j) \in Nat /\ Stamp(m) \in Nat
        BY <1>1, <2>3, StampsInOrder, TracedAtType
      <3>8. QED
        BY <2>6, <3>5, <3>6, <3>7
    <2>8. final[x] = [Line[x] EXCEPT !.branch = resolve(@, Line[y].pc)]
      BY <1>4, <2>5, <2>7, SettledByNext
    <2>9. Line[y].pc = next
      BY <2>6 DEF m
    <2>10. final[x] = [Line[x] EXCEPT !.branch = resolve(branch, next)]
      BY <1>2, <2>8, <2>9
    <2> HIDE DEF lifts, branch, next
    <2>11. QED
      BY <1>2, <1>3, <1>6, <2>10 DEF new_block
  <1>7. QED
    BY <1>5, <1>6

LEMMA Faithful ==
  ASSUME HistoryInv
  PROVE  TraceFaithful
  <1> SUFFICES ASSUME main \in {"write", "exited"}
               PROVE  /\ {final[x] : x \in DOMAIN final}
                           = {Expected(i) : i \in TracedAt}
                      /\ \A x, y \in DOMAIN final :
                           x < y => Precedes(final[x], final[y])
    BY DEF TraceFaithful
  <1>1. /\ Line \in Seq(BasicBlock) /\ InOrder(Line)
        /\ final = Settle(Line)
        /\ \A x \in DOMAIN Line : \E i \in TracedAt : Line[x] = DoneBlock(i)
        /\ \A i \in TracedAt : \E x \in DOMAIN Line : Line[x] = DoneBlock(i)
    BY FinalIs
  <1>2. DOMAIN final = DOMAIN Line /\ InOrder(final)
    BY <1>1, SettleType, SettleInOrder
  <1>3. \A x \in DOMAIN Line : \E i \in TracedAt : final[x] = Expected(i)
    BY <1>1, FinalIsExpected
  <1>4. \A i \in TracedAt : \E x \in DOMAIN Line : final[x] = Expected(i)
    BY <1>1, FinalIsExpected
  <1>5. {final[x] : x \in DOMAIN final} = {Expected(i) : i \in TracedAt}
    BY <1>2, <1>3, <1>4
  <1>6. QED
    BY <1>2, <1>5 DEF InOrder, Earlier, Precedes

\* The final list is the guest's history, block for block, however many
\* workers there are and in whatever order they take and return the blocks.
THEOREM TraceIsHistory == Spec => []TraceFaithful
  BY HistoryKept, Faithful, PTL

-----------------------------------------------------------------------------
(* The file.                                                               *)

\* What the file says of a block the final list has, and it alone.
LEMMA JsonIs ==
  ASSUME HistoryInv, main = "exited"
  PROVE  /\ \A k \in DOMAIN json :
              \E x \in WithBranch : SameTarget(json[k], final[x])
         /\ \A x \in WithBranch :
              \E k \in DOMAIN json : SameTarget(json[k], final[x])
         /\ InOrder(json)
         /\ json \in Seq(BasicBlock) /\ final \in Seq(BasicBlock)
  <1>1. /\ Line \in Seq(BasicBlock) /\ InOrder(Line)
        /\ final = Settle(Line)
    BY FinalIs
  <1>2. DOMAIN final = DOMAIN Line /\ final \in Seq(BasicBlock)
    BY <1>1, SettleType
  <1>3. WithBranch \in SUBSET DOMAIN Line
    BY <1>2 DEF WithBranch
  <1>4. json = from_some(Settle(Line), WithBranch)
    BY <1>1 DEF HistoryInv, FromList, to_branch_json, WithBranch
  <1>5. QED
    BY <1>1, <1>2, <1>3, <1>4, SecondPass

LEMMA KeepsTargets ==
  ASSUME HistoryInv
  PROVE  JsonKeepsTargets
  <1> SUFFICES ASSUME main = "exited"
               PROVE  /\ {ButTaken(json[k]) : k \in DOMAIN json}
                           = {ButTaken(final[x]) : x \in WithBranch}
                      /\ \A k, l \in DOMAIN json :
                           k < l => Precedes(json[k], json[l])
    BY DEF JsonKeepsTargets
  <1>1. \A x, y : SameTarget(x, y) <=> ButTaken(x) = ButTaken(y)
    BY DEF SameTarget, ButTaken
  <1>2. /\ \A k \in DOMAIN json :
             \E x \in WithBranch : ButTaken(json[k]) = ButTaken(final[x])
        /\ \A x \in WithBranch :
             \E k \in DOMAIN json : ButTaken(json[k]) = ButTaken(final[x])
    BY <1>1, JsonIs
  <1>3. {ButTaken(json[k]) : k \in DOMAIN json}
          = {ButTaken(final[x]) : x \in WithBranch}
    BY <1>2
  <1>4. QED
    BY <1>3, JsonIs DEF InOrder, Earlier, Precedes

\* The second pass of from, over the blocks with a branch only, changes no
\* kind and no destination: the last block of an address space is the only
\* one that is not resolved, and none comes after it in the second pass.
THEOREM SecondPassHarmless == Spec => []JsonKeepsTargets
  BY HistoryKept, KeepsTargets, PTL

-----------------------------------------------------------------------------
(* The file, against the machine code.                                     *)

\* What the branch says, resolved or not, of a call or a return.
LEMMA ResolvedTells ==
  ASSUME NEW branch \in Branch, NEW m, m.op \in {"call", "ret"},
         NEW addr \in Pc, Tells(branch, m)
  PROVE  Tells(resolve(branch, addr), m)
  <1>1. CASE IsSentinel(branch)
    <2>1. branch.kind # "DirectJump"
      BY <1>1 DEF IsSentinel, Sentinels
    <2>2. /\ resolve(branch, addr).kind = Sentinels[branch.kind]
          /\ resolve(branch, addr).reg = branch.reg
      BY <1>1, <2>1 DEF resolve, Branch
    <2>3. QED
      BY <1>1, <2>2 DEF Tells, IsSentinel, Sentinels
  <1>2. CASE ~IsSentinel(branch)
    <2>1. branch.kind # "DirectJump"
      BY DEF Tells
    <2>2. resolve(branch, addr) = branch
      BY <1>2, <2>1 DEF resolve
    <2>3. QED
      BY <2>2
  <1>3. QED
    BY <1>1, <1>2

\* What find_branch returns for the code of the block tells.
LEMMA BranchTells ==
  ASSUME TypeInv, NEW i \in TracedAt,
         EndsIn(i, {"call", "ret"}), ~Far(Ending(i)), ~panics(recording[i].il)
  PROVE  BranchOf(i) \in Branch /\ Tells(BranchOf(i), Ending(i))
  <1> DEFINE code == recording[i].x86
             m == Ending(i)
  <1>1. /\ recording \in Recordings[arch] /\ arch \in Archs
        /\ i \in DOMAIN recording
    BY RecordingType, TracedAtType DEF TypeInv, TypeOK
  <1>2. /\ code # <<>> /\ m = Last(code) /\ m.op \in {"call", "ret"}
        /\ recording[i].il # NotLifted
    BY DEF EndsIn, Ending
  <1>3. /\ arch \in StackArchs /\ X86Block(code)
        /\ recording[i].il = x86_lift(code)
    BY <1>1, <1>2, TraceAssumption
  <1>4. BranchOf(i) = find_branch(arch, x86_lift(code))
    BY <1>2, <1>3 DEF BranchOf
  <1>5. BranchOf(i) \in Branch
    <2>1. DoneBlock(i) \in BasicBlock /\ DoneBlock(i).branch = BranchOf(i)
      BY DoneBlockIs
    <2>2. QED
      BY <2>1 DEF BasicBlock
  <1>6. m \in Machine /\ WellFormed(m)
    BY <1>2, <1>3, LiftedBlock
  <1>7. CASE m.op = "ret"
    <2>1. BranchOf(i) = Sentinel("ReturnSentinel", NoReg)
      BY <1>2, <1>3, <1>4, <1>7, EndingFound
    <2>2. BranchOf(i).kind = "ReturnSentinel"
      BY <2>1 DEF Sentinel, NoBranch
    <2>3. QED
      BY <1>5, <1>6, <1>7, <2>2 DEF Tells, WellFormed
  <1>8. CASE m.op = "call" /\ m.mode = "imm"
    <2>1. BranchOf(i) = Direct("DirectCall", m.imm)
      BY <1>2, <1>3, <1>4, <1>8, EndingFound
    <2>2. BranchOf(i).kind = "DirectCall" /\ BranchOf(i).dst = m.imm
      BY <2>1 DEF Direct, NoBranch
    <2>3. QED
      BY <1>5, <1>8, <2>2 DEF Tells
  <1>9. CASE m.op = "call" /\ m.mode # "imm"
    <2>1. m.reg # NoReg
      BY <1>6, <1>9 DEF Far, WellFormed, Machine
    <2>2. BranchOf(i) = Sentinel("CallSentinel", m.reg)
      BY <1>2, <1>3, <1>4, <1>9, <2>1, EndingFound
    <2>3. BranchOf(i).kind = "CallSentinel" /\ BranchOf(i).reg = m.reg
      BY <2>2 DEF Sentinel, NoBranch
    <2>4. QED
      BY <1>5, <1>9, <2>3 DEF Tells
  <1>10. QED
    BY <1>2, <1>7, <1>8, <1>9

\* The final list says the same, whether or not the branch is resolved.
LEMMA ExpectedTells ==
  ASSUME TypeInv, NEW i \in TracedAt,
         EndsIn(i, {"call", "ret"}), ~Far(Ending(i)), ~panics(recording[i].il)
  PROVE  /\ Expected(i).seq_num = Stamp(i)
         /\ Tells(Expected(i).branch, Ending(i))
  <1> DEFINE next == recording[Min(After(i))].pc
  <1>1. BranchOf(i) \in Branch /\ Tells(BranchOf(i), Ending(i))
    BY BranchTells
  <1>2. /\ Expected(i).seq_num = Stamp(i)
        /\ Expected(i).branch = IF After(i) = {} THEN BranchOf(i)
                                ELSE resolve(BranchOf(i), next)
    BY DEF Expected, BranchOf, new_block
  <1>3. After(i) # {} => next \in Pc
    <2>1. After(i) \in SUBSET Nat /\ After(i) \subseteq TracedAt
      BY TracedAtType DEF After
    <2>2. After(i) # {} => Min(After(i)) \in TracedAt
      BY <2>1, MinIsLeast
    <2>3. QED
      BY <2>2, TracedAtType DEF Executed
  <1>4. Ending(i).op \in {"call", "ret"}
    BY DEF EndsIn
  <1> HIDE DEF next
  <1>5. QED
    BY <1>1, <1>2, <1>3, <1>4, ResolvedTells

\* Blocks with the same target say the same of a call or a return.
LEMMA SameTargetTells ==
  ASSUME NEW x \in BasicBlock, NEW y \in BasicBlock, SameTarget(x, y), NEW m
  PROVE  x.seq_num = y.seq_num /\ (Tells(x.branch, m) <=> Tells(y.branch, m))
  <1> DEFINE b == [x.branch EXCEPT !.taken = FALSE]
             c == [y.branch EXCEPT !.taken = FALSE]
  <1>1. x.seq_num = y.seq_num /\ b = c
    BY DEF SameTarget, BasicBlock
  <1>2. /\ x.branch \in Branch /\ y.branch \in Branch
    BY DEF BasicBlock
  <1>3. /\ b.kind = x.branch.kind /\ b.dst = x.branch.dst
        /\ b.reg = x.branch.reg
        /\ c.kind = y.branch.kind /\ c.dst = y.branch.dst
        /\ c.reg = y.branch.reg
    BY <1>2 DEF Branch
  <1> HIDE DEF b, c
  <1>4. QED
    BY <1>1, <1>3 DEF Tells

LEMMA FileTells ==
  ASSUME HistoryInv
  PROVE  CallsAndReturnsTraced
  <1> SUFFICES ASSUME main = "exited", NEW i \in TracedAt,
                      EndsIn(i, {"call", "ret"}), ~Far(Ending(i))
               PROVE  InFile(i)
    BY DEF CallsAndReturnsTraced
  <1>1. TypeInv /\ ~panics(recording[i].il)
    BY Collected DEF HistoryInv, WholeInv, PipeInv
  <1>2. PICK x \in DOMAIN Line : Line[x] = DoneBlock(i)
    BY FinalIs
  <1>3. final[x] = Expected(i) /\ x \in DOMAIN final
    BY <1>2, FinalIs, FinalIsExpected, SettleType
  <1>4. /\ final[x].seq_num = Stamp(i)
        /\ Tells(final[x].branch, Ending(i))
    BY <1>1, <1>3, ExpectedTells
  <1>5. x \in WithBranch
    <2>1. final[x].branch.kind # "None"
      BY <1>4 DEF Tells
    <2>2. QED
      BY <1>3, <2>1 DEF WithBranch
  <1>6. PICK k \in DOMAIN json : SameTarget(json[k], final[x])
    BY <1>5, JsonIs
  <1>7. json[k] \in BasicBlock /\ final[x] \in BasicBlock
    BY <1>3, JsonIs
  <1>8. json[k].seq_num = Stamp(i) /\ Tells(json[k].branch, Ending(i))
    BY <1>4, <1>6, <1>7, SameTargetTells
  <1>9. QED
    BY <1>8 DEF InFile

\* Every call and every return that is traced is in the file as one, with the
\* callee or the register used, whatever code its block has before it.
THEOREM CallsAndReturnsInFile == Spec => []CallsAndReturnsTraced
  BY HistoryKept, FileTells, PTL

=============================================================================
