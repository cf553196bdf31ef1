--------------------------- MODULE IlTraceProofs ---------------------------
(***************************************************************************)
(* Theorems of panda-il-trace's pipeline, for every finite set of workers  *)
(* and every set of recordings.  Counted is inductive together with the    *)
(* types; that uninit's wait ends only when no block is under way is       *)
(* arithmetic from it.                                                     *)
(***************************************************************************)
EXTENDS IlTraceProps, FindBranchProofs, FiniteSetTheorems

-----------------------------------------------------------------------------
(* Types.                                                                  *)

\* A block is in the callback's hands between its stamp and its push.
InHand ==
  /\ main = "queue" => fresh # Idle
  /\ main \notin {"queue", "aborted"} => fresh = Idle

TypeInv == TypeOK /\ InHand

LEMMA IdleIsNoJob == Idle \notin Job
  BY TraceAssumption

\* The constructor makes a block.
LEMMA NewBlockType ==
  ASSUME NEW n \in Nat, NEW addr \in Pc, NEW space \in Asids
  PROVE  new_block(n, addr, space) \in BasicBlock
  BY NoneIsABranch DEF new_block, BasicBlock

\* A job that does not fail find_branch's assertion is processed to a block
\* with the number it was given.
LEMMA ProcessType ==
  ASSUME NEW bb \in BasicBlock, NEW il \in Cfg \cup {NotLifted}, ~panics(il)
  PROVE  /\ process(bb, il) \in BasicBlock
         /\ process(bb, il).seq_num = bb.seq_num
  <1>1. CASE il = NotLifted
    BY <1>1 DEF process
  <1>2. CASE il # NotLifted
    <2>1. find_branch(arch, il) \in Branch
      BY <1>2, FindBranchType DEF panics, Found
    <2>2. process(bb, il) =
            [bb EXCEPT !.lifted = TRUE, !.branch = find_branch(arch, il)]
      BY <1>2 DEF process
    <2>3. QED
      BY <2>1, <2>2 DEF BasicBlock
  <1>3. QED
    BY <1>1, <1>2

LEMMA TypeInvInit == Init => TypeInv
  <1> SUFFICES ASSUME Init
               PROVE  TypeInv
    OBVIOUS
  <1>1. 0 \in 0 .. Len(recording)
    BY TraceAssumption, LenProperties DEF Init
  <1>2. BBQ_IN \in Seq(Job) /\ BBQ_OUT \in Seq(BasicBlock)
        /\ bbs \in Seq(BasicBlock)
    BY EmptySeq DEF Init
  <1>3. QED
    BY <1>1, <1>2 DEF Init, TypeInv, TypeOK, InHand

LEMMA GuestType ==
  ASSUME TypeInv, Guest
  PROVE  TypeInv'
  <1>1. recording \in Seq(Executed) /\ Len(recording) \in Nat
    BY TraceAssumption, LenProperties DEF TypeInv, TypeOK
  <1>2. CASE SkipBlock
    BY <1>1, <1>2 DEF SkipBlock, TypeInv, TypeOK, InHand
  <1>3. CASE StampBlock
    <2>1. pos' \in 0 .. Len(recording) /\ BB_NUM' \in Nat
      BY <1>1, <1>3 DEF StampBlock, TypeInv, TypeOK
    <2>2. recording[pos + 1] \in Executed
      BY <1>1, <1>3, ElementOfSeq DEF StampBlock, TypeInv, TypeOK
    <2>3. fresh' \in Job
      BY <1>3, <2>2, NewBlockType
         DEF StampBlock, TypeInv, TypeOK, Executed, Job
    <2>4. fresh' # Idle
      BY <2>3, IdleIsNoJob
    <2>5. QED
      BY <1>3, <2>1, <2>3, <2>4 DEF StampBlock, TypeInv, TypeOK, InHand
  <1>4. QED
    BY <1>2, <1>3 DEF Guest

LEMMA CallbackType ==
  ASSUME TypeInv, Callback \/ BeginUninit
  PROVE  TypeInv'
  <1> USE DEF TypeInv, TypeOK, InHand, guestVars
  <1>1. CASE QueueBlock
    <2>1. fresh \in Job
      BY <1>1 DEF QueueBlock
    <2>2. QED
      BY <1>1, <2>1, AppendProperties DEF QueueBlock
  <1>2. CASE FinishLifts
    BY <1>2 DEF FinishLifts
  <1>3. CASE DrainOut
    BY <1>3, HeadTailProperties, AppendProperties DEF DrainOut
  <1>4. CASE Finalize
    BY <1>4 DEF Finalize
  <1>5. CASE WriteTrace
    BY <1>5 DEF WriteTrace
  <1>6. CASE WriteFails
    BY <1>6 DEF WriteFails
  <1>7. CASE BeginUninit
    BY <1>7 DEF BeginUninit
  <1>8. QED
    BY <1>1, <1>2, <1>3, <1>4, <1>5, <1>6, <1>7 DEF Callback

LEMMA WorkerType ==
  ASSUME TypeInv, NEW w \in Workers, Worker(w)
  PROVE  TypeInv'
  <1> USE DEF TypeInv, TypeOK, InHand, guestVars
  <1>1. CASE PopIn(w)
    BY <1>1, HeadTailProperties DEF PopIn
  <1>2. CASE PushOut(w)
    <2>1. process(held[w].bb, held[w].il) \in BasicBlock
      BY <1>2, ProcessType DEF PushOut, Job
    <2>2. QED
      BY <1>2, <2>1, AppendProperties DEF PushOut
  <1>3. CASE WorkerPanics(w)
    BY <1>3 DEF WorkerPanics
  <1>4. QED
    BY <1>1, <1>2, <1>3 DEF Worker

LEMMA TypeInvNext == TypeInv /\ [Next]_vars => TypeInv'
  <1> SUFFICES ASSUME TypeInv, [Next]_vars
               PROVE  TypeInv'
    OBVIOUS
  <1>1. CASE UNCHANGED vars
    BY <1>1 DEF TypeInv, TypeOK, InHand, vars, guestVars
  <1>2. QED
    BY <1>1, GuestType, CallbackType, WorkerType DEF Next

\* Every variable of the pipeline keeps its type.
THEOREM TypeCorrect == Spec => []TypeOK
  <1>1. TypeInv => TypeOK
    BY DEF TypeInv
  <1>2. QED
    BY <1>1, TypeInvInit, TypeInvNext, PTL DEF Spec

-----------------------------------------------------------------------------
(* Counting.  A step moves at most one block, from one place to the next,  *)
(* and only a stamp makes one.                                             *)

PipeInv == TypeInv /\ Counted /\ DrainComplete

\* The terms of the count are numbers.
LEMMA Terms ==
  ASSUME TypeInv
  PROVE  /\ IsFiniteSet(Busy)
         /\ Cardinality(Busy) \in Nat
         /\ Len(BBQ_IN) \in Nat
         /\ Len(BBQ_OUT) \in Nat
         /\ Len(bbs) \in Nat
         /\ BB_NUM \in Nat
  <1>1. Busy \subseteq Workers
    BY DEF Busy
  <1>2. IsFiniteSet(Busy)
    BY <1>1, TraceAssumption, FS_Subset
  <1>3. QED
    BY <1>2, FS_CardinalityType, LenProperties DEF TypeInv, TypeOK

\* What the block in the callback's hands counts for.
LEMMA InHandCount ==
  /\ fresh = Idle => StampedNow = 0
  /\ fresh # Idle => StampedNow = 1
  /\ StampedNow \in {0, 1}
  BY DEF StampedNow

LEMMA InHandCountNext ==
  /\ fresh' = Idle => StampedNow' = 0
  /\ fresh' # Idle => StampedNow' = 1
  BY DEF StampedNow

LEMMA PipeInvInit == Init => PipeInv
  <1> SUFFICES ASSUME Init
               PROVE  PipeInv
    OBVIOUS
  <1>1. Busy = {}
    BY DEF Init, Busy
  <1>2. StampedNow = 0
    BY InHandCount DEF Init
  <1>3. Counted
    BY <1>1, <1>2, FS_EmptySet, EmptySeq DEF Init, Counted
  <1>4. DrainComplete
    BY DEF Init, DrainComplete
  <1>5. QED
    BY <1>3, <1>4, TypeInvInit DEF PipeInv

\* A stamp makes a block and counts it; the queue takes it over.
LEMMA StampQueueCounted ==
  ASSUME PipeInv, StampBlock \/ QueueBlock
  PROVE  Counted'
  <1>1. TypeInv'
    BY GuestType, CallbackType DEF PipeInv, Guest, Callback
  <1>2. Cardinality(Busy)' = Cardinality(Busy)
    BY DEF StampBlock, QueueBlock, Busy
  <1>3. CASE StampBlock
    <2>1. fresh = Idle /\ fresh' # Idle
      BY <1>1, <1>3 DEF PipeInv, TypeInv, InHand, StampBlock
    <2>2. StampedNow = 0 /\ StampedNow' = 1
      BY <2>1, InHandCount, InHandCountNext
    <2>3. /\ BB_NUM' = BB_NUM + 1
          /\ UNCHANGED <<BBQ_IN, BBQ_OUT, bbs>>
      BY <1>3 DEF StampBlock
    <2>4. QED
      BY <1>2, <2>2, <2>3, Terms DEF PipeInv, Counted
  <1>4. CASE QueueBlock
    <2>1. fresh # Idle /\ fresh \in Job /\ fresh' = Idle
      BY <1>4 DEF PipeInv, TypeInv, TypeOK, InHand, QueueBlock
    <2>2. StampedNow = 1 /\ StampedNow' = 0
      BY <2>1, InHandCount, InHandCountNext
    <2>3. Len(BBQ_IN') = Len(BBQ_IN) + 1
      BY <1>4, <2>1, AppendProperties
         DEF PipeInv, TypeInv, TypeOK, QueueBlock
    <2>4. UNCHANGED <<BB_NUM, BBQ_OUT, bbs>>
      BY <1>4 DEF QueueBlock, guestVars
    <2>5. QED
      BY <1>2, <2>2, <2>3, <2>4, Terms DEF PipeInv, Counted
  <1>5. QED
    BY <1>3, <1>4

\* A worker carries a block from one queue to the other.
LEMMA WorkerCounted ==
  ASSUME PipeInv, NEW w \in Workers, PopIn(w) \/ PushOut(w)
  PROVE  Counted'
  <1>1. IsFiniteSet(Busy) /\ Cardinality(Busy) \in Nat
    BY Terms DEF PipeInv
  <1>2. held \in [Workers -> Job \cup {Idle}]
    BY DEF PipeInv, TypeInv, TypeOK
  <1>3. StampedNow \in {0, 1} /\ StampedNow' = StampedNow
    BY DEF StampedNow, PopIn, PushOut
  <1>4. CASE PopIn(w)
    <2>1. BBQ_IN \in Seq(Job) /\ BBQ_IN # <<>>
      BY <1>4 DEF PipeInv, TypeInv, TypeOK, PopIn
    <2>2. Head(BBQ_IN) \in Job /\ Len(BBQ_IN') = Len(BBQ_IN) - 1
      BY <1>4, <2>1, HeadTailProperties DEF PopIn
    <2>3. held' = [held EXCEPT ![w] = Head(BBQ_IN)] /\ held[w] = Idle
      BY <1>4 DEF PopIn
    <2>4. Busy' = Busy \cup {w} /\ w \notin Busy
      BY <1>2, <2>2, <2>3, IdleIsNoJob DEF Busy
    <2>5. Cardinality(Busy') = Cardinality(Busy) + 1
      BY <1>1, <2>4, FS_AddElement
    <2>6. UNCHANGED <<BB_NUM, BBQ_OUT, bbs>>
      BY <1>4 DEF PopIn, guestVars
    <2>7. QED
      BY <1>1, <1>3, <2>2, <2>5, <2>6, Terms DEF PipeInv, Counted
  <1>5. CASE PushOut(w)
    <2>1. process(held[w].bb, held[w].il) \in BasicBlock
      BY <1>2, <1>5, ProcessType DEF PushOut, Job
    <2>2. Len(BBQ_OUT') = Len(BBQ_OUT) + 1
      BY <1>5, <2>1, AppendProperties
         DEF PipeInv, TypeInv, TypeOK, PushOut
    <2>3. held' = [held EXCEPT ![w] = Idle] /\ held[w] # Idle
      BY <1>5 DEF PushOut
    <2>4. Busy' = Busy \ {w} /\ w \in Busy
      BY <1>2, <2>3 DEF Busy
    <2>5. Cardinality(Busy') = Cardinality(Busy) - 1
      BY <1>1, <2>4, FS_RemoveElement
    <2>6. UNCHANGED <<BB_NUM, BBQ_IN, bbs>>
      BY <1>5 DEF PushOut, guestVars
    <2>7. QED
      BY <1>1, <1>3, <2>2, <2>5, <2>6, Terms DEF PipeInv, Counted
  <1>6. QED
    BY <1>4, <1>5

\* finalize_bbs moves blocks from the queue to the list.
LEMMA DrainOutCounted ==
  ASSUME PipeInv, DrainOut
  PROVE  Counted'
  <1>1. BBQ_OUT \in Seq(BasicBlock) /\ bbs \in Seq(BasicBlock)
        /\ BBQ_OUT # <<>>
    BY DEF PipeInv, TypeInv, TypeOK, DrainOut
  <1>2. /\ Len(BBQ_OUT') = Len(BBQ_OUT) - 1
        /\ Len(bbs') = Len(bbs) + 1
    BY <1>1, HeadTailProperties, AppendProperties DEF DrainOut
  <1>3. StampedNow \in {0, 1} /\ StampedNow' = StampedNow
    BY DEF StampedNow, DrainOut
  <1>4. Cardinality(Busy)' = Cardinality(Busy)
    BY DEF DrainOut, Busy
  <1>5. UNCHANGED <<BB_NUM, BBQ_IN>>
    BY DEF DrainOut
  <1>6. QED
    BY <1>2, <1>3, <1>4, <1>5, Terms DEF PipeInv, Counted

\* The counter and the queue agree only when nothing is under way.
LEMMA FinishLiftsComplete ==
  ASSUME PipeInv, FinishLifts
  PROVE  fresh = Idle /\ BBQ_IN = <<>> /\ Busy = {}
  <1>1. fresh = Idle /\ StampedNow = 0
    BY InHandCount DEF PipeInv, TypeInv, InHand, FinishLifts
  <1>2. Len(BBQ_IN) = 0 /\ Cardinality(Busy) = 0
    <2>1. Len(BBQ_OUT) = BB_NUM
      BY DEF FinishLifts
    <2>2. BB_NUM = Len(BBQ_IN) + Cardinality(Busy) + Len(BBQ_OUT) + Len(bbs)
      BY <1>1, Terms DEF PipeInv, Counted
    <2>3. QED
      BY <2>1, <2>2, Terms DEF PipeInv
  <1>3. BBQ_IN = <<>>
    BY <1>2, EmptySeq DEF PipeInv, TypeInv, TypeOK
  <1>4. Busy = {}
    BY <1>2, Terms, FS_EmptySet DEF PipeInv
  <1>5. QED
    BY <1>1, <1>3, <1>4

LEMMA CountedNext ==
  ASSUME PipeInv, [Next]_vars
  PROVE  Counted'
  <1>1. CASE SkipBlock \/ BeginUninit \/ FinishLifts \/ Finalize \/ WriteTrace
             \/ WriteFails \/ UNCHANGED vars
    BY <1>1 DEF PipeInv, Counted, StampedNow, Busy, SkipBlock, BeginUninit,
                FinishLifts, Finalize, WriteTrace, WriteFails, vars, guestVars
  <1>2. ASSUME NEW w \in Workers, WorkerPanics(w)
        PROVE  Counted'
    BY <1>2 DEF PipeInv, Counted, StampedNow, Busy, WorkerPanics, guestVars
  <1>3. QED
    BY <1>1, <1>2, StampQueueCounted, WorkerCounted, DrainOutCounted
       DEF Next, Guest, Callback, Worker

LEMMA DrainCompleteNext ==
  ASSUME PipeInv, [Next]_vars
  PROVE  DrainComplete'
  <1> USE DEF DrainComplete, Busy, guestVars
  <1>1. CASE Guest \/ BeginUninit
    BY <1>1 DEF Guest, SkipBlock, StampBlock, BeginUninit
  <1>2. CASE FinishLifts
    BY <1>2, FinishLiftsComplete DEF FinishLifts
  <1>3. CASE QueueBlock \/ DrainOut \/ Finalize \/ WriteTrace \/ WriteFails
    BY <1>3 DEF PipeInv, QueueBlock, DrainOut, Finalize, WriteTrace, WriteFails
  <1>4. ASSUME NEW w \in Workers, Worker(w)
        PROVE  DrainComplete'
    BY <1>4 DEF PipeInv, Worker, PopIn, PushOut, WorkerPanics
  <1>5. CASE UNCHANGED vars
    BY <1>5 DEF PipeInv, vars
  <1>6. QED
    BY <1>1, <1>2, <1>3, <1>4, <1>5 DEF Next, Callback

LEMMA PipeInvNext == PipeInv /\ [Next]_vars => PipeInv'
  BY TypeInvNext, CountedNext, DrainCompleteNext DEF PipeInv

\* The counter counts the blocks that are under way or collected.
THEOREM BlocksCounted == Spec => []Counted
  <1>1. PipeInv => Counted
    BY DEF PipeInv
  <1>2. QED
    BY <1>1, PipeInvInit, PipeInvNext, PTL DEF Spec

\* When uninit's wait is over, no block is left behind and the pops of
\* finalize_bbs race with no push.
THEOREM NothingLeftBehind == Spec => []DrainComplete
  <1>1. PipeInv => DrainComplete
    BY DEF PipeInv
  <1>2. QED
    BY <1>1, PipeInvInit, PipeInvNext, PTL DEF Spec

-----------------------------------------------------------------------------
(* Numbers.  No block is lost: the numbers in play are all that were given *)
(* out.  With the count it follows that none is there twice.               *)

LEMMA StampsOfAppend ==
  ASSUME NEW q \in Seq(BasicBlock), NEW bb \in BasicBlock
  PROVE  Stamps(Append(q, bb)) = Stamps(q) \cup {bb.seq_num}
  BY AppendProperties DEF Stamps

\* The elements of a sequence are its head and those of its tail.
LEMMA HeadAndTail ==
  ASSUME NEW S, NEW q \in Seq(S), q # <<>>
  PROVE  /\ \E i \in DOMAIN q : q[i] = Head(q)
         /\ \A j \in DOMAIN Tail(q) : \E i \in DOMAIN q : q[i] = Tail(q)[j]
         /\ \A i \in DOMAIN q :
              q[i] = Head(q) \/ \E j \in DOMAIN Tail(q) : q[i] = Tail(q)[j]
  <1>1. /\ Len(q) \in Nat \ {0} /\ DOMAIN q = 1 .. Len(q)
        /\ DOMAIN Tail(q) = 1 .. Len(q) - 1
        /\ \A j \in 1 .. Len(q) - 1 : Tail(q)[j] = q[j + 1]
    BY HeadTailProperties, LenProperties, EmptySeq
  <1>2. Head(q) = q[1] /\ 1 \in DOMAIN q
    BY <1>1
  <1>3. ASSUME NEW j \in DOMAIN Tail(q)
        PROVE  \E i \in DOMAIN q : q[i] = Tail(q)[j]
    <2>1. j + 1 \in DOMAIN q /\ Tail(q)[j] = q[j + 1]
      BY <1>1
    <2>2. QED
      BY <2>1
  <1>4. ASSUME NEW i \in DOMAIN q, i # 1
        PROVE  \E j \in DOMAIN Tail(q) : q[i] = Tail(q)[j]
    <2>1. i - 1 \in DOMAIN Tail(q) /\ Tail(q)[i - 1] = q[i]
      BY <1>1, <1>4
    <2>2. QED
      BY <2>1
  <1>5. QED
    BY <1>2, <1>3, <1>4

LEMMA StampsOfTail ==
  ASSUME NEW q \in Seq(BasicBlock), q # <<>>
  PROVE  Stamps(q) = {Head(q).seq_num} \cup Stamps(Tail(q))
  BY HeadAndTail DEF Stamps

LEMMA JobStampsOfAppend ==
  ASSUME NEW q \in Seq(Job), NEW job \in Job
  PROVE  JobStamps(Append(q, job)) = JobStamps(q) \cup {job.bb.seq_num}
  BY AppendProperties DEF JobStamps

LEMMA JobStampsOfTail ==
  ASSUME NEW q \in Seq(Job), q # <<>>
  PROVE  JobStamps(q) = {Head(q).bb.seq_num} \cup JobStamps(Tail(q))
  BY HeadAndTail DEF JobStamps

\* The final list is filled only while uninit drains, and has the queue's
\* last block before it is written.
Gathered ==
  /\ main \in {"run", "queue", "finish"} => bbs = <<>>
  /\ main \in {"write", "exited"} => BBQ_OUT = <<>>

AllInPlay == InPlay = 0 .. BB_NUM - 1

WholeInv == PipeInv /\ AllInPlay /\ Gathered

LEMMA WholeInvInit == Init => WholeInv
  <1> SUFFICES ASSUME Init
               PROVE  WholeInv
    OBVIOUS
  <1>1. InPlay = {}
    BY DEF Init, InPlay, Busy, Stamps, JobStamps
  <1>2. AllInPlay
    BY <1>1 DEF Init, AllInPlay
  <1>3. Gathered
    BY DEF Init, Gathered
  <1>4. QED
    BY <1>2, <1>3, PipeInvInit DEF WholeInv

LEMMA StampQueueInPlay ==
  ASSUME WholeInv, StampBlock \/ QueueBlock
  PROVE  AllInPlay'
  <1> USE DEF WholeInv, PipeInv, TypeInv, TypeOK, InHand
  <1>1. CASE StampBlock
    <2>1. fresh = Idle /\ fresh' # Idle
      <3>1. TypeInv'
        BY <1>1, GuestType DEF Guest
      <3>2. QED
        BY <1>1, <3>1 DEF StampBlock
    <2>2. fresh'.bb.seq_num = BB_NUM /\ BB_NUM' = BB_NUM + 1
      BY <1>1 DEF StampBlock, new_block
    <2>3. InPlay' = InPlay \cup {BB_NUM}
      BY <1>1, <2>1, <2>2 DEF InPlay, Busy, StampBlock
    <2>4. 0 .. BB_NUM = (0 .. BB_NUM - 1) \cup {BB_NUM}
      OBVIOUS
    <2>5. QED
      BY <2>2, <2>3, <2>4 DEF AllInPlay
  <1>2. CASE QueueBlock
    <2>1. fresh \in Job /\ fresh # Idle /\ fresh' = Idle
      BY <1>2 DEF QueueBlock
    <2>2. JobStamps(BBQ_IN') = JobStamps(BBQ_IN) \cup {fresh.bb.seq_num}
      BY <1>2, <2>1, JobStampsOfAppend DEF QueueBlock
    <2>3. InPlay' = InPlay
      BY <1>2, <2>1, <2>2 DEF InPlay, Busy, QueueBlock
    <2>4. QED
      BY <1>2, <2>3 DEF AllInPlay, QueueBlock
  <1>3. QED
    BY <1>1, <1>2

LEMMA PopInInPlay ==
  ASSUME WholeInv, NEW w \in Workers, PopIn(w)
  PROVE  AllInPlay'
  <1> USE DEF WholeInv, PipeInv, TypeInv, TypeOK
  <1> DEFINE job == Head(BBQ_IN)
  <1>1. BBQ_IN \in Seq(Job) /\ BBQ_IN # <<>> /\ job \in Job
    BY HeadTailProperties DEF PopIn
  <1>2. JobStamps(BBQ_IN) = {job.bb.seq_num} \cup JobStamps(BBQ_IN')
    BY <1>1, JobStampsOfTail DEF PopIn
  <1>3. /\ w \notin Busy /\ held'[w] = job /\ job # Idle
        /\ \A x \in Workers \ {w} : held'[x] = held[x]
    BY <1>1, IdleIsNoJob DEF PopIn, Busy
  <1>4. Busy' = Busy \cup {w}
    BY <1>3 DEF Busy
  <1>5. {held'[x].bb.seq_num : x \in Busy'}
          = {held[x].bb.seq_num : x \in Busy} \cup {job.bb.seq_num}
    <2>1. \A x \in Busy : held'[x] = held[x]
      BY <1>3 DEF Busy
    <2>2. QED
      BY <1>3, <1>4, <2>1
  <1>6. InPlay' = InPlay
    BY <1>2, <1>5 DEF InPlay, PopIn
  <1>7. QED
    BY <1>6 DEF AllInPlay, PopIn

LEMMA PushOutInPlay ==
  ASSUME WholeInv, NEW w \in Workers, PushOut(w)
  PROVE  AllInPlay'
  <1> USE DEF WholeInv, PipeInv, TypeInv, TypeOK
  <1> DEFINE job == held[w]
             bb == process(job.bb, job.il)
  <1>1. job \in Job /\ w \in Busy
    BY DEF PushOut, Busy
  <1>2. bb \in BasicBlock /\ bb.seq_num = job.bb.seq_num
    BY <1>1, ProcessType DEF PushOut, Job
  <1>3. Stamps(BBQ_OUT') = Stamps(BBQ_OUT) \cup {job.bb.seq_num}
    BY <1>2, StampsOfAppend DEF PushOut
  <1>4. \A x \in Workers \ {w} : held'[x] = held[x]
    BY DEF PushOut
  <1>5. Busy' = Busy \ {w}
    BY <1>4 DEF Busy, PushOut
  <1>6. {held[x].bb.seq_num : x \in Busy}
          = {held'[x].bb.seq_num : x \in Busy'} \cup {job.bb.seq_num}
    <2>1. \A x \in Busy' : held'[x] = held[x]
      BY <1>4, <1>5 DEF Busy
    <2>2. QED
      BY <1>1, <1>5, <2>1
  <1>7. InPlay' = InPlay
    BY <1>3, <1>6 DEF InPlay, PushOut
  <1>8. QED
    BY <1>7 DEF AllInPlay, PushOut

LEMMA DrainOutInPlay ==
  ASSUME WholeInv, DrainOut
  PROVE  AllInPlay'
  <1>1. BBQ_OUT \in Seq(BasicBlock) /\ bbs \in Seq(BasicBlock)
        /\ BBQ_OUT # <<>> /\ Head(BBQ_OUT) \in BasicBlock
    BY HeadTailProperties DEF WholeInv, PipeInv, TypeInv, TypeOK, DrainOut
  <1>2. Stamps(BBQ_OUT) = {Head(BBQ_OUT).seq_num} \cup Stamps(BBQ_OUT')
    BY <1>1, StampsOfTail DEF DrainOut
  <1>3. Stamps(bbs') = Stamps(bbs) \cup {Head(BBQ_OUT).seq_num}
    BY <1>1, StampsOfAppend DEF DrainOut
  <1>4. InPlay' = InPlay
    BY <1>2, <1>3 DEF InPlay, Busy, DrainOut
  <1>5. QED
    BY <1>4 DEF WholeInv, AllInPlay, DrainOut

LEMMA AllInPlayNext ==
  ASSUME WholeInv, [Next]_vars
  PROVE  AllInPlay'
  <1> USE DEF AllInPlay, InPlay, Busy, guestVars
  <1>1. CASE SkipBlock \/ BeginUninit \/ FinishLifts \/ Finalize \/ WriteTrace
             \/ WriteFails \/ UNCHANGED vars
    BY <1>1 DEF WholeInv, SkipBlock, BeginUninit, FinishLifts, Finalize,
                WriteTrace, WriteFails, vars
  <1>2. ASSUME NEW w \in Workers, WorkerPanics(w)
        PROVE  AllInPlay'
    BY <1>2 DEF WholeInv, WorkerPanics
  <1>3. QED
    BY <1>1, <1>2, StampQueueInPlay, PopInInPlay, PushOutInPlay,
       DrainOutInPlay
       DEF Next, Guest, Callback, Worker

\* While uninit drains no worker has a block, and none can get one.
LEMMA WorkersDone ==
  ASSUME WholeInv, main \in {"drain", "write", "exited"}, NEW w \in Workers
  PROVE  ~Worker(w)
  BY DEF WholeInv, PipeInv, DrainComplete, Busy, Worker, PopIn, PushOut,
         WorkerPanics

LEMMA GatheredNext ==
  ASSUME WholeInv, [Next]_vars
  PROVE  Gathered'
  <1> USE DEF Gathered, guestVars
  <1>1. CASE Guest \/ BeginUninit
    BY <1>1 DEF WholeInv, Guest, SkipBlock, StampBlock, BeginUninit
  <1>2. CASE Callback
    BY <1>2 DEF WholeInv, Callback, QueueBlock, FinishLifts, DrainOut,
                Finalize, WriteTrace, WriteFails
  <1>3. ASSUME NEW w \in Workers, Worker(w)
        PROVE  Gathered'
    BY <1>3, WorkersDone DEF WholeInv, Worker, PopIn, PushOut, WorkerPanics
  <1>4. CASE UNCHANGED vars
    BY <1>4 DEF WholeInv, vars
  <1>5. QED
    BY <1>1, <1>2, <1>3, <1>4 DEF Next

LEMMA WholeInvNext == WholeInv /\ [Next]_vars => WholeInv'
  BY PipeInvNext, AllInPlayNext, GatheredNext DEF WholeInv

\* Each stamped block is in exactly one place until it is in the final list.
THEOREM NothingLostOrDoubled == Spec => []OnceEach
  <1>1. WholeInv => OnceEach
    BY DEF WholeInv, PipeInv, AllInPlay, OnceEach
  <1>2. QED
    BY <1>1, WholeInvInit, WholeInvNext, PTL DEF Spec

-----------------------------------------------------------------------------
(* The promise.                                                            *)

\* A sequence has no more numbers than blocks.
LEMMA StampsBound ==
  ASSUME NEW q \in Seq(BasicBlock)
  PROVE  /\ IsFiniteSet(Stamps(q))
         /\ Cardinality(Stamps(q)) \in Nat
         /\ Cardinality(Stamps(q)) <= Len(q)
  <1> DEFINE D == 1 .. Len(q)
             f == [i \in D |-> q[i].seq_num]
  <1>1. Len(q) \in Nat /\ DOMAIN q = D
    BY LenProperties
  <1>2. IsFiniteSet(D) /\ Cardinality(D) = Len(q)
    BY <1>1, FS_Interval
  <1>3. f \in Surjection(D, Stamps(q))
    BY <1>1 DEF Surjection, Stamps
  <1>4. IsFiniteSet(Stamps(q)) /\ Cardinality(Stamps(q)) <= Len(q)
    BY <1>2, <1>3, FS_Surjection
  <1>5. QED
    BY <1>4, FS_CardinalityType

\* While uninit drains, what the queue and the list hold is what was stamped.
LEMMA DrainHolds ==
  ASSUME WholeInv, main \in {"drain", "write", "exited"}
  PROVE  /\ Len(BBQ_OUT) + Len(bbs) = BB_NUM
         /\ Stamps(BBQ_OUT) \cup Stamps(bbs) = 0 .. BB_NUM - 1
  <1>1. fresh = Idle /\ BBQ_IN = <<>> /\ Busy = {}
    BY DEF WholeInv, PipeInv, DrainComplete
  <1>2. StampedNow = 0 /\ Len(BBQ_IN) = 0 /\ Cardinality(Busy) = 0
    BY <1>1, InHandCount, EmptySeq, FS_EmptySet
  <1>3. JobStamps(BBQ_IN) = {} /\ {held[w].bb.seq_num : w \in Busy} = {}
    BY <1>1 DEF JobStamps
  <1>4. Len(BBQ_OUT) + Len(bbs) = BB_NUM
    BY <1>2, Terms DEF WholeInv, PipeInv, Counted
  <1>5. Stamps(BBQ_OUT) \cup Stamps(bbs) = 0 .. BB_NUM - 1
    BY <1>1, <1>3 DEF WholeInv, AllInPlay, InPlay
  <1>6. QED
    BY <1>4, <1>5

\* No number is collected twice: there would be too few for all of them.
LEMMA CollectedOnce ==
  ASSUME WholeInv, DrainOut
  PROVE  Head(BBQ_OUT).seq_num \in (0 .. BB_NUM - 1) \ Stamps(bbs)
  <1> DEFINE n == Head(BBQ_OUT).seq_num
             tail == Tail(BBQ_OUT)
  <1>1. /\ BBQ_OUT \in Seq(BasicBlock) /\ bbs \in Seq(BasicBlock)
        /\ BBQ_OUT # <<>> /\ BB_NUM \in Nat
    BY DEF WholeInv, PipeInv, TypeInv, TypeOK, DrainOut
  <1>2. /\ Len(BBQ_OUT) + Len(bbs) = BB_NUM
        /\ Stamps(BBQ_OUT) \cup Stamps(bbs) = 0 .. BB_NUM - 1
    BY DrainHolds DEF DrainOut
  <1>3. tail \in Seq(BasicBlock) /\ Len(tail) = Len(BBQ_OUT) - 1
    BY <1>1, HeadTailProperties
  <1>4. Stamps(BBQ_OUT) = {n} \cup Stamps(tail)
    BY <1>1, StampsOfTail
  <1>5. ASSUME n \in Stamps(bbs)
        PROVE  FALSE
    <2>1. Stamps(tail) \cup Stamps(bbs) = 0 .. BB_NUM - 1
      BY <1>2, <1>4, <1>5
    <2>2. Cardinality(Stamps(tail) \cup Stamps(bbs)) = BB_NUM
      <3>1. 0 \in Int /\ BB_NUM - 1 \in Int
        BY <1>1
      <3>2. Cardinality(0 .. BB_NUM - 1) = BB_NUM
        BY <1>1, <3>1, FS_Interval
      <3>3. QED
        BY <2>1, <3>2
    <2>3. /\ IsFiniteSet(Stamps(tail)) /\ IsFiniteSet(Stamps(bbs))
          /\ Cardinality(Stamps(tail)) \in Nat
          /\ Cardinality(Stamps(bbs)) \in Nat
          /\ Cardinality(Stamps(tail)) <= Len(tail)
          /\ Cardinality(Stamps(bbs)) <= Len(bbs)
      BY <1>1, <1>3, StampsBound
    <2>4. Cardinality(Stamps(tail) \cap Stamps(bbs)) \in Nat
      BY <2>3, FS_Intersection, FS_CardinalityType
    <2>5. Cardinality(Stamps(tail) \cup Stamps(bbs))
            = Cardinality(Stamps(tail)) + Cardinality(Stamps(bbs))
                - Cardinality(Stamps(tail) \cap Stamps(bbs))
      BY <2>3, FS_Union
    <2>6. Len(BBQ_OUT) \in Nat /\ Len(bbs) \in Nat
      BY <1>1, LenProperties
    <2>7. QED
      BY <1>1, <1>2, <1>3, <2>2, <2>3, <2>4, <2>5, <2>6
  <1>6. QED
    BY <1>2, <1>4, <1>5

LEMMA PromiseInit == Init => Promise!PInit
  BY DEF Init, Promise!PInit, Stamps

\* Each step of the pipeline is one of the promise, or none.
LEMMA PromiseNext ==
  WholeInv /\ [Next]_vars => [Promise!PNext]_Promise!pvars
  <1> SUFFICES ASSUME WholeInv, [Next]_vars
               PROVE  [Promise!PNext]_Promise!pvars
    OBVIOUS
  <1> USE DEF Promise!pvars, guestVars
  <1>1. CASE StampBlock
    <2>1. Stamps(bbs) = {}
      BY <1>1 DEF WholeInv, Gathered, StampBlock, Stamps
    <2>2. Promise!Number
      BY <1>1, <2>1 DEF StampBlock, Promise!Number
    <2>3. QED
      BY <2>2 DEF Promise!PNext
  <1>2. CASE DrainOut
    <2> DEFINE n == Head(BBQ_OUT).seq_num
    <2>1. n \in Promise!Numbers \ Stamps(bbs)
      BY <1>2, CollectedOnce DEF Promise!Numbers
    <2>2. Stamps(bbs') = Stamps(bbs) \cup {n}
      <3>1. bbs \in Seq(BasicBlock) /\ Head(BBQ_OUT) \in BasicBlock
        BY <1>2, HeadTailProperties
           DEF WholeInv, PipeInv, TypeInv, TypeOK, DrainOut
      <3>2. QED
        BY <1>2, <3>1, StampsOfAppend DEF DrainOut
    <2>3. Promise!Collect(n)
      BY <1>2, <2>2 DEF DrainOut, Promise!Collect
    <2>4. QED
      BY <2>1, <2>3 DEF Promise!PNext
  <1>3. CASE WriteTrace
    <2>1. BBQ_OUT = <<>> /\ Stamps(BBQ_OUT) = {}
      BY <1>3 DEF WholeInv, Gathered, WriteTrace, Stamps
    <2>2. Stamps(bbs) = Promise!Numbers
      BY <1>3, <2>1, DrainHolds DEF WriteTrace, Promise!Numbers
    <2>3. Promise!Publish
      BY <1>3, <2>2 DEF WriteTrace, Promise!Publish
    <2>4. QED
      BY <2>3 DEF Promise!PNext
  <1>4. CASE SkipBlock \/ QueueBlock \/ BeginUninit \/ FinishLifts \/ Finalize
             \/ WriteFails \/ UNCHANGED vars
    BY <1>4 DEF SkipBlock, QueueBlock, BeginUninit, FinishLifts, Finalize,
                WriteFails, vars
  <1>5. ASSUME NEW w \in Workers, Worker(w)
        PROVE  [Promise!PNext]_Promise!pvars
    <2>1. main \notin {"drain", "write", "exited"}
      BY <1>5, WorkersDone
    <2>2. UNCHANGED Promise!pvars
      BY <1>5, <2>1 DEF Worker, PopIn, PushOut, WorkerPanics, Alive
    <2>3. QED
      BY <2>2
  <1>6. QED
    BY <1>1, <1>2, <1>3, <1>4, <1>5 DEF Next, Guest, Callback

\* The pipeline keeps the promise: blocks are collected when all of them can
\* be, each once, and the trace that is written is made of all of them.
THEOREM PipelineKeepsPromise == Spec => ImplementsPromise
  BY WholeInvInit, WholeInvNext, PromiseInit, PromiseNext, PTL
     DEF Spec, ImplementsPromise, Promise!PSpec

=============================================================================
