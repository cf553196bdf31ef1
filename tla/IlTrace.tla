------------------------------ MODULE IlTrace ------------------------------
(***************************************************************************)
(* panda-il-trace: the callback that stamps and queues the executed blocks *)
(* of the traced process, the workers that lift them, and the plugin's     *)
(* unloading, which collects them and writes the trace (src/lib.rs).       *)
(*                                                                         *)
(* The callback and the unloading run on the emulation thread.  The guest  *)
(* is a recording; the user may quit before its end.  A block's bytes are  *)
(* abstracted to the translation Falcon has for them.                      *)
(***************************************************************************)
EXTENDS X86Lift, FiniteSets

CONSTANTS
  Workers,     \* the tasks that init spawns in WORKER_POOL
  NotLifted,   \* the bytes have no translation
  Recordings,  \* for each cargo feature, the recordings to be replayed
  Idle,        \* a thread that holds no block
  trace_lib    \* argument trace_lib: follow the process into libraries

\* Where the guest is when a block has executed, as every_basic_block finds
\* it: in the kernel, at a block that is to be re-executed, in another
\* process, in a shared object of the traced process, at an address that
\* cannot be read, or in code of the traced process.
Places ==
  {"kernel", "retranslated", "other_process", "shared_object", "unreadable",
   "code"}

Archs == DOMAIN Recordings

\* An executed block, with the translation Falcon has for its bytes.  On x86
\* its machine code is known too; no step looks at it.
Executed ==
  [pc : Pc, asid : Asids, place : Places, il : Cfg \cup {NotLifted},
   x86 : Seq(Machine)]

\* A block under way, with its bytes' translation.
Job == [bb : BasicBlock, il : Cfg \cup {NotLifted}]

ASSUME TraceAssumption ==
  /\ IsFiniteSet(Workers)
  /\ Archs \subseteq StackArchs \cup LinkArchs
  /\ \A cpu \in Archs : Recordings[cpu] \subseteq Seq(Executed)
  /\ \A cpu \in Archs : \A rec \in Recordings[cpu] : \A i \in DOMAIN rec :
       IF cpu \in StackArchs
         THEN /\ X86Block(rec[i].x86)
              /\ rec[i].il \in {NotLifted, x86_lift(rec[i].x86)}
         ELSE rec[i].x86 = <<>>
  /\ Idle \notin Job
  /\ trace_lib \in BOOLEAN

VARIABLES
  arch,       \* the cargo feature the plugin was built with
  recording,  \* what the guest executes
  pos,        \* the blocks that have executed
  main,       \* where the emulation thread is
  BB_NUM,     \* the atomic sequence counter
  fresh,      \* the stamped block that is not queued yet, or Idle
  BBQ_IN,     \* lock-free queue: callback to workers
  held,       \* the block each worker is processing, or Idle
  BBQ_OUT,    \* lock-free queue: workers to uninit
  bbs,        \* the blocks finalize_bbs has popped
  final,      \* the list that from made of them
  json        \* what was written to the trace file

guestVars == <<arch, recording, pos>>
vars == <<guestVars, main, BB_NUM, fresh, BBQ_IN, held, BBQ_OUT, bbs, final,
          json>>

TypeOK ==
  /\ arch \in Archs
  /\ recording \in Recordings[arch]
  /\ pos \in 0 .. Len(recording)
  /\ main \in {"run", "queue", "finish", "drain", "write", "exited", "aborted"}
  /\ BB_NUM \in Nat
  /\ fresh \in Job \cup {Idle}
  /\ BBQ_IN \in Seq(Job)
  /\ held \in [Workers -> Job \cup {Idle}]
  /\ BBQ_OUT \in Seq(BasicBlock)
  /\ bbs \in Seq(BasicBlock)

Init ==
  /\ arch \in Archs
  /\ recording \in Recordings[arch]
  /\ pos = 0
  /\ main = "run"
  /\ BB_NUM = 0
  /\ fresh = Idle
  /\ BBQ_IN = <<>>
  /\ held = [w \in Workers |-> Idle]
  /\ BBQ_OUT = <<>>
  /\ bbs = <<>>
  /\ final = <<>>
  /\ json = <<>>

-----------------------------------------------------------------------------
(* every_basic_block                                                       *)

\* The checks before the counter is touched.
Traced(bb) ==
  \/ bb.place = "code"
  \/ bb.place = "shared_object" /\ trace_lib

\* Mutant: a number is taken before the block turns out to be unreadable.
SkipBlockStamped ==
  /\ main = "run"
  /\ pos < Len(recording)
  /\ ~Traced(recording[pos + 1])
  /\ pos' = pos + 1
  /\ BB_NUM' = BB_NUM + (IF recording[pos + 1].place = "unreadable" THEN 1
                                                                   ELSE 0)
  /\ UNCHANGED <<arch, recording, main, fresh, BBQ_IN, held, BBQ_OUT, bbs,
                 final, json>>

\* The guest executes its next block, which is not traced.
SkipBlock ==
  /\ main = "run"
  /\ pos < Len(recording)
  /\ ~Traced(recording[pos + 1])
  /\ pos' = pos + 1
  /\ UNCHANGED <<arch, recording, main, BB_NUM, fresh, BBQ_IN, held, BBQ_OUT, bbs,
                 final, json>>

\* The guest executes its next block, which takes a sequence number.
StampBlock ==
  /\ main = "run"
  /\ pos < Len(recording)
  /\ LET bb == recording[pos + 1] IN
       /\ Traced(bb)
       /\ fresh' = [bb |-> new_block(BB_NUM, bb.pc, bb.asid),
                    il |-> bb.il]
  /\ pos' = pos + 1
  /\ BB_NUM' = BB_NUM + 1
  /\ main' = "queue"
  /\ UNCHANGED <<arch, recording, BBQ_IN, held, BBQ_OUT, bbs, final, json>>

QueueBlock ==
  /\ main = "queue"
  /\ BBQ_IN' = Append(BBQ_IN, fresh)
  /\ fresh' = Idle
  /\ main' = "run"
  /\ UNCHANGED <<guestVars, BB_NUM, held, BBQ_OUT, bbs, final, json>>

-----------------------------------------------------------------------------
(* A worker                                                                *)

\* The thread pool lives until the process ends.
Alive == main \notin {"exited", "aborted"}

PopIn(w) ==
  /\ Alive
  /\ held[w] = Idle
  /\ BBQ_IN # <<>>
  /\ held' = [held EXCEPT ![w] = Head(BBQ_IN)]
  /\ BBQ_IN' = Tail(BBQ_IN)
  /\ UNCHANGED <<guestVars, main, BB_NUM, fresh, BBQ_OUT, bbs, final, json>>

\* BasicBlock::process: lift, then look for the branch.
process(bb, il) ==
  IF il = NotLifted
    THEN bb
    ELSE [bb EXCEPT !.lifted = TRUE, !.branch = find_branch(arch, il)]

\* Mutant: the assertion is one of a debug build.
panics_never(il) == FALSE

panics(il) == il # NotLifted /\ find_branch(arch, il) = AssertionFails

\* Mutant: a block that cannot be lifted is dropped.
PushOutLifted(w) ==
  /\ Alive
  /\ held[w] # Idle
  /\ ~panics(held[w].il)
  /\ BBQ_OUT' = IF held[w].il = NotLifted
                  THEN BBQ_OUT
                  ELSE Append(BBQ_OUT, process(held[w].bb, held[w].il))
  /\ held' = [held EXCEPT ![w] = Idle]
  /\ UNCHANGED <<guestVars, main, BB_NUM, fresh, BBQ_IN, bbs, final, json>>

PushOut(w) ==
  /\ Alive
  /\ held[w] # Idle
  /\ ~panics(held[w].il)
  /\ BBQ_OUT' = Append(BBQ_OUT, process(held[w].bb, held[w].il))
  /\ held' = [held EXCEPT ![w] = Idle]
  /\ UNCHANGED <<guestVars, main, BB_NUM, fresh, BBQ_IN, bbs, final, json>>

\* find_branch's assertion fails: a panic in a task of the pool aborts the
\* process.
WorkerPanics(w) ==
  /\ Alive
  /\ held[w] # Idle
  /\ panics(held[w].il)
  /\ main' = "aborted"
  /\ UNCHANGED <<guestVars, BB_NUM, fresh, BBQ_IN, held, BBQ_OUT, bbs, final,
                 json>>

-----------------------------------------------------------------------------
(* uninit                                                                  *)

\* The recording ends, or the user quits.
BeginUninit ==
  /\ main = "run"
  /\ main' = "finish"
  /\ UNCHANGED <<guestVars, BB_NUM, fresh, BBQ_IN, held, BBQ_OUT, bbs, final,
                 json>>

\* Mutant: uninit waits for the workers' queue to be empty.
FinishLiftsEarly ==
  /\ main = "finish"
  /\ BBQ_IN = <<>>
  /\ main' = "drain"
  /\ UNCHANGED <<guestVars, BB_NUM, fresh, BBQ_IN, held, BBQ_OUT, bbs, final,
                 json>>

\* Every stamped block is in BBQ_OUT; until then uninit sleeps and retries.
FinishLifts ==
  /\ main = "finish"
  /\ Len(BBQ_OUT) = BB_NUM
  /\ main' = "drain"
  /\ UNCHANGED <<guestVars, BB_NUM, fresh, BBQ_IN, held, BBQ_OUT, bbs, final,
                 json>>

\* finalize_bbs pops the queue until it is empty ...
DrainOut ==
  /\ main = "drain"
  /\ BBQ_OUT # <<>>
  /\ bbs' = Append(bbs, Head(BBQ_OUT))
  /\ BBQ_OUT' = Tail(BBQ_OUT)
  /\ UNCHANGED <<guestVars, main, BB_NUM, fresh, BBQ_IN, held, final, json>>

\* Mutant: blocks are left in the queue.
FinalizeEarly ==
  /\ main = "drain"
  /\ final' = from(bbs)
  /\ main' = "write"
  /\ UNCHANGED <<guestVars, BB_NUM, fresh, BBQ_IN, held, BBQ_OUT, bbs, json>>

\* ... and makes the final list.
Finalize ==
  /\ main = "drain"
  /\ BBQ_OUT = <<>>
  /\ final' = from(bbs)
  /\ main' = "write"
  /\ UNCHANGED <<guestVars, BB_NUM, fresh, BBQ_IN, held, BBQ_OUT, bbs, json>>

\* The trace is written and the process exits.
WriteTrace ==
  /\ main = "write"
  /\ json' = to_branch_json(final)
  /\ main' = "exited"
  /\ UNCHANGED <<guestVars, BB_NUM, fresh, BBQ_IN, held, BBQ_OUT, bbs, final>>

\* The file cannot be written: expect panics and takes the process down.
WriteFails ==
  /\ main = "write"
  /\ main' = "aborted"
  /\ UNCHANGED <<guestVars, BB_NUM, fresh, BBQ_IN, held, BBQ_OUT, bbs, final,
                 json>>

-----------------------------------------------------------------------------
Guest == SkipBlock \/ StampBlock

\* The emulation thread, once a callback is entered.
Callback ==
  \/ QueueBlock \/ FinishLifts \/ DrainOut \/ Finalize
  \/ WriteTrace \/ WriteFails

Worker(w) == PopIn(w) \/ PushOut(w) \/ WorkerPanics(w)

Next ==
  \/ Guest
  \/ BeginUninit
  \/ Callback
  \/ \E w \in Workers : Worker(w)

Spec == Init /\ [][Next]_vars

(* The host schedules the emulation thread and every worker, and each      *)
(* worker polls in a loop.  Nothing makes the guest go on or the user quit.*)
Fairness ==
  /\ WF_vars(Callback)
  /\ \A w \in Workers : WF_vars(Worker(w))

FairSpec == Spec /\ Fairness

=============================================================================
