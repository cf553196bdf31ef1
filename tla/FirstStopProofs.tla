-------------------------- MODULE FirstStopProofs --------------------------
(***************************************************************************)
(* Theorems of panda-gdb's first stop: what the guest executes before it,  *)
(* with on_start and with on_entry, for every set of blocks and every      *)
(* length of the recording; and that PANDA crashes only for a cause.       *)
(***************************************************************************)
EXTENDS GdbStubProofs

-----------------------------------------------------------------------------
(* The invariant.                                                          *)

Translating == {"translate", "translate_bp"}
InCallback == {"accept_entry", "check", "check_bp", "hit", "set_cpu", "set_pc",
               "signal", "wait_cont", "revoke"}

\* Translations: none before the plugin is loaded, never longer than their
\* block, complete when the block executes.
CacheInv ==
  /\ emu \in {"load", "accept_start"} => \A b \in Blocks : cache[b] = <<>>
  /\ \A b \in Blocks : Len(cache[b]) <= Len(b)
  /\ emu \in Translating => Len(cache[tb]) < Len(tb)
  /\ emu \in InCallback \cup {"exec"} => Len(cache[tb]) = Len(tb)

\* A callback that has passed its first test is not at the entry any more.
EntrySeen == emu \in InCallback => ~exited_kernel(Here)

\* Once the entry is recognised its session is there and the guest has
\* stopped, or the callback that recognised it is on the way to that.
EntryPending ==
  OnEntry /\ emu # "load" /\ ~exit_kernel =>
    /\ emu \in {"accept_entry", "crashed"} \/ dbg["entry"] # "none"
    /\ \/ pc # NoAddr
       \/ emu \in {"accept_entry", "check"} /\ single_step
       \/ emu \in {"hit", "set_cpu", "set_pc", "crashed"}

\* With on_start, before the first stop the step flag is up and everything
\* translated is instrumented, or the guest is at that stop.
StartPending ==
  OnStart /\ pc = NoAddr =>
    \/ emu \in {"load", "accept_start", "hit", "set_cpu", "set_pc", "crashed"}
    \/ /\ emu \in {"fetch", "translate", "exec", "accept_entry", "check",
                   "down", "exited"}
       /\ single_step
       /\ \A b \in Blocks : \A i \in 1 .. Len(cache[b]) : cache[b][i]

FirstInv ==
  /\ TypeInv
  /\ CacheInv
  /\ EntryHooked
  /\ EntrySeen
  /\ EntryPending
  /\ StartPending

-----------------------------------------------------------------------------
(* What the debugger threads can do to it.                                 *)

\* A step of a debugger thread touches neither the emulation thread's state
\* nor exit_kernel; it may raise the step flag and store a program counter;
\* and a session that exists stays.
LEMMA DebuggerStep ==
  ASSUME TypeInv, NEW s \in Sessions, Serve(s) \/ Packet(s)
  PROVE  /\ Alive
         /\ UNCHANGED <<emu, tb, at, cache, exit_kernel>>
         /\ single_step => single_step'
         /\ pc' = pc \/ pc' \in Addr
         /\ \A t \in Sessions : dbg[t] # "none" => dbg'[t] # "none"
  <1> USE DEF TypeInv, TypeOK, Move, emuVars, stateVars
  <1>1. CASE ResumeStepSignals(s) \/ ResumeContinue(s)
    BY <1>1 DEF ResumeStepSignals, ResumeContinue, SignalCont
  <1>2. CASE WaitForBreak(s)
    BY <1>2 DEF WaitForBreak
  <1>3. CASE SeeCpu(s) \/ TakeCpu(s)
    BY <1>3 DEF SeeCpu, TakeCpu
  <1>4. CASE TakePanics(s)
    BY <1>4 DEF TakePanics
  <1>5. CASE UseCpu(s)
    BY <1>5 DEF UseCpu, set_pc
  <1>6. CASE ResumeStep(s)
    BY <1>6 DEF ResumeStep, start_single_stepping
  <1>7. CASE ResumeWithSignal(s) \/ Disconnect(s)
    BY <1>7 DEF ResumeWithSignal, Disconnect
  <1>8. CASE \E a \in Addr : AddSwBreakpoint(s, a) \/ RemoveSwBreakpoint(s, a)
    BY <1>8 DEF AddSwBreakpoint, RemoveSwBreakpoint
  <1>9. CASE \E o \in CpuOps : NeedCpu(s, o)
    BY <1>9 DEF NeedCpu
  <1>10. QED
    BY <1>1, <1>2, <1>3, <1>4, <1>5, <1>6, <1>7, <1>8, <1>9 DEF Serve, Packet

LEMMA DebuggerFirstInv ==
  ASSUME FirstInv, NEW s \in Sessions, Serve(s) \/ Packet(s)
  PROVE  FirstInv'
  <1>1. TypeInv'
    BY ServeType, PacketType DEF FirstInv
  <1>2. /\ UNCHANGED <<emu, tb, at, cache, exit_kernel>>
        /\ single_step => single_step'
        /\ pc' = pc \/ pc' \in Addr
        /\ \A t \in Sessions : dbg[t] # "none" => dbg'[t] # "none"
    BY DebuggerStep DEF FirstInv
  <1>3. pc # NoAddr => pc' # NoAddr
    BY <1>2, AddrAssumption
  <1>4. CacheInv' /\ EntryHooked' /\ EntrySeen'
    BY <1>2 DEF FirstInv, CacheInv, EntryHooked, EntrySeen, exited_kernel, Here
  <1>5. EntryPending'
    BY <1>2, <1>3 DEF FirstInv, EntryPending, Sessions
  <1>6. StartPending'
    BY <1>2, <1>3 DEF FirstInv, StartPending
  <1>7. QED
    BY <1>1, <1>4, <1>5, <1>6 DEF FirstInv

-----------------------------------------------------------------------------
(* The emulation thread, action by action.                                 *)

LEMMA FirstInvInit == Init => FirstInv
  <1> SUFFICES ASSUME Init
               PROVE  FirstInv
    OBVIOUS
  <1>1. \A b \in Blocks : cache[b] = <<>> /\ Len(cache[b]) = 0 /\ Len(b) \in Nat
    BY BlockAddr, EmptySeq DEF Init
  <1>2. CacheInv /\ EntryHooked
    BY <1>1 DEF Init, new, CacheInv, EntryHooked, Translating, InCallback
  <1>3. EntrySeen /\ EntryPending /\ StartPending
    BY DEF Init, new, EntrySeen, EntryPending, StartPending, InCallback
  <1>4. QED
    BY <1>2, <1>3, TypeInvInit DEF FirstInv

\* Loading the plugin and connecting the first client.
LEMMA LoadFirstInv ==
  ASSUME FirstInv, PluginInit \/ AcceptOnStart
  PROVE  FirstInv'
  <1>1. TypeInv'
    BY EmuStepType, ConnectType DEF FirstInv, EmuStep, Connect
  <1>2. \A b \in Blocks : cache'[b] = <<>> /\ Len(cache'[b]) = 0
    BY EmptySeq DEF FirstInv, CacheInv, PluginInit, AcceptOnStart
  <1>3. \A b \in Blocks : Len(b) \in Nat
    BY BlockAddr
  <1>4. emu' \in {"accept_start", "fetch"}
    BY DEF PluginInit, AcceptOnStart
  <1>5. CacheInv' /\ EntryHooked' /\ EntrySeen'
    BY <1>2, <1>3, <1>4
       DEF CacheInv, EntryHooked, EntrySeen, Translating, InCallback
  <1>6. EntryPending'
    <2>1. CASE PluginInit
      BY <2>1 DEF PluginInit, set_exit_kernel, EntryPending
    <2>2. CASE AcceptOnStart
      BY <2>2 DEF FirstInv, EntryPending, TypeInv, TypeOK, AcceptOnStart, Spawn,
                  Sessions
    <2>3. QED
      BY <2>1, <2>2
  <1>7. StartPending'
    BY <1>2 DEF StartPending, PluginInit, AcceptOnStart, start_single_stepping
  <1>8. QED
    BY <1>1, <1>5, <1>6, <1>7 DEF FirstInv

\* Between blocks.
LEMMA FetchFirstInv ==
  ASSUME FirstInv,
         FlushCache \/ Shutdown \/ ProcessExit \/ \E b \in Blocks : FetchBlock(b)
  PROVE  FirstInv'
  <1>1. TypeInv'
    BY EmuStepType, ConnectType DEF FirstInv, EmuStep
  <1>2. UNCHANGED <<exit_kernel, single_step, pc, dbg>>
    BY DEF FlushCache, Shutdown, ProcessExit, FetchBlock, stateVars
  <1>3. /\ emu \in {"fetch", "down"}
        /\ emu' \in {"fetch", "translate", "exec", "down", "exited"}
    BY DEF FlushCache, Shutdown, ProcessExit, FetchBlock
  <1>4. EntrySeen'
    BY <1>3 DEF EntrySeen, InCallback
  <1>5. EntryPending'
    BY <1>2, <1>3 DEF FirstInv, EntryPending
  <1>6. CASE FlushCache
    <2>1. \A b \in Blocks : cache'[b] = <<>> /\ Len(cache'[b]) = 0
                            /\ Len(b) \in Nat
      BY <1>6, BlockAddr, EmptySeq DEF FlushCache
    <2>2. emu' = "fetch"
      BY <1>6 DEF FlushCache
    <2>3. CacheInv' /\ EntryHooked'
      BY <2>1, <2>2 DEF CacheInv, EntryHooked, Translating, InCallback
    <2>4. StartPending'
      BY <1>2, <1>3, <2>1, <2>2 DEF FirstInv, StartPending
    <2>5. QED
      BY <1>1, <1>4, <1>5, <2>3, <2>4 DEF FirstInv
  <1>7. CASE Shutdown \/ ProcessExit \/ \E b \in Blocks : FetchBlock(b)
    <2>1. cache' = cache
      BY <1>7 DEF Shutdown, ProcessExit, FetchBlock
    <2>2. EntryHooked'
      BY <1>2, <2>1 DEF FirstInv, EntryHooked
    <2>3. StartPending'
      BY <1>2, <1>3, <2>1 DEF FirstInv, StartPending
    <2>4. CacheInv'
      <3>1. CASE Shutdown \/ ProcessExit
        BY <2>1, <3>1 DEF FirstInv, CacheInv, Shutdown, ProcessExit,
                          Translating, InCallback
      <3>2. ASSUME NEW b \in Blocks, FetchBlock(b)
            PROVE  CacheInv'
        <4>1. Len(b) \in Nat /\ Len(cache[b]) \in Nat /\ Len(cache[b]) <= Len(b)
          BY BlockAddr, LenProperties DEF FirstInv, TypeInv, TypeOK, CacheInv
        <4>2. /\ tb' = b
              /\ emu' = IF Len(cache[b]) = Len(b) THEN "exec" ELSE "translate"
          BY <3>2 DEF FetchBlock, Translated
        <4>3. QED
          BY <2>1, <4>1, <4>2 DEF FirstInv, CacheInv, Translating, InCallback
      <3>3. QED
        BY <1>7, <3>1, <3>2
    <2>5. QED
      BY <1>1, <1>4, <1>5, <2>2, <2>3, <2>4 DEF FirstInv
  <1>8. QED
    BY <1>6, <1>7

\* A translated instruction: its answer is the next of its block.
LEMMA TranslateFirstInv ==
  ASSUME FirstInv, emu \in Translating, NEW hook \in BOOLEAN,
         TranslateReturns(hook),
         exited_kernel(NextToTranslate) => hook,
         OnStart /\ pc = NoAddr => hook
  PROVE  FirstInv'
  <1>1. tb \in Blocks /\ cache[tb] \in Seq(BOOLEAN)
    BY DEF FirstInv, TypeInv, TypeOK, InBlock, InBlockStates, EmuStates,
           Translating
  <1>2. TypeInv'
    BY TranslateType
       DEF FirstInv, Translating, InBlockStates, EmuStates
  <1>3. UNCHANGED <<exit_kernel, single_step, pc, dbg, tb, at>>
    BY DEF TranslateReturns, stateVars
  <1>4. Len(cache[tb]) \in Nat /\ Len(tb) \in Nat /\ Len(cache[tb]) < Len(tb)
    BY <1>1, LenProperties, BlockAddr DEF FirstInv, CacheInv
  <1>5. /\ Len(cache'[tb]) = Len(cache[tb]) + 1
        /\ \A i \in 1 .. Len(cache[tb]) : cache'[tb][i] = cache[tb][i]
        /\ cache'[tb][Len(cache[tb]) + 1] = hook
    <2>1. cache'[tb] = Append(cache[tb], hook)
      BY <1>1 DEF TranslateReturns, FirstInv, TypeInv, TypeOK
    <2>2. QED
      BY <1>1, <2>1, AppendProperties
  <1>6. \A b \in Blocks : b # tb => cache'[b] = cache[b]
    BY DEF TranslateReturns, FirstInv, TypeInv, TypeOK
  <1>7. emu' = IF Len(cache[tb]) + 1 = Len(tb) THEN "exec" ELSE "translate"
    BY DEF TranslateReturns
  <1>8. CacheInv'
    <2>1. \A b \in Blocks : Len(cache'[b]) <= Len(b)
      BY <1>4, <1>5, <1>6 DEF FirstInv, CacheInv
    <2>2. emu' \in {"exec", "translate"}
      BY <1>7
    <2>3. emu' = "translate" => Len(cache'[tb]) < Len(tb)
      BY <1>4, <1>5, <1>7
    <2>4. emu' = "exec" => Len(cache'[tb]) = Len(tb)
      BY <1>5, <1>7
    <2>5. QED
      BY <1>3, <2>1, <2>2, <2>3, <2>4 DEF CacheInv, Translating, InCallback
  <1>9. EntryHooked'
    <2> SUFFICES ASSUME exit_kernel, NEW b \in Blocks,
                        NEW i \in 1 .. Len(cache'[b]), b[i] \in UserText
                 PROVE  cache'[b][i]
      BY <1>3 DEF EntryHooked
    <2>1. CASE b # tb
      BY <1>6, <2>1 DEF FirstInv, EntryHooked
    <2>2. CASE b = tb /\ i \in 1 .. Len(cache[tb])
      BY <1>5, <2>2 DEF FirstInv, EntryHooked
    <2>3. CASE b = tb /\ i = Len(cache[tb]) + 1
      BY <1>5, <2>3 DEF exited_kernel, NextToTranslate
    <2>4. QED
      BY <1>4, <1>5, <2>1, <2>2, <2>3
  <1>10. StartPending'
    <2> SUFFICES ASSUME OnStart, pc = NoAddr
                 PROVE  /\ single_step
                        /\ \A b \in Blocks : \A i \in 1 .. Len(cache'[b]) :
                             cache'[b][i]
      BY <1>3, <1>7 DEF StartPending
    <2>1. /\ single_step
          /\ \A b \in Blocks : \A i \in 1 .. Len(cache[b]) : cache[b][i]
      BY DEF FirstInv, StartPending, Translating
    <2>2. ASSUME NEW b \in Blocks, NEW i \in 1 .. Len(cache'[b])
          PROVE  cache'[b][i]
      <3>1. CASE b # tb
        BY <1>6, <2>1, <3>1
      <3>2. CASE b = tb /\ i \in 1 .. Len(cache[tb])
        BY <1>1, <1>5, <2>1, <3>2
      <3>3. CASE b = tb /\ i = Len(cache[tb]) + 1
        BY <1>5, <2>1, <3>3
      <3>4. QED
        BY <1>4, <1>5, <3>1, <3>2, <3>3
    <2>3. QED
      BY <2>1, <2>2
  <1>11. EntrySeen' /\ EntryPending'
    BY <1>3, <1>7
       DEF FirstInv, EntrySeen, EntryPending, InCallback, Translating
  <1>12. QED
    BY <1>2, <1>8, <1>9, <1>10, <1>11 DEF FirstInv

LEMMA TranslateStepFirstInv ==
  ASSUME FirstInv, TranslateReadsStep \/ TranslateReadsBreakpoints
  PROVE  FirstInv'
  <1>1. CASE TranslateReadsStep /\ single_step
    BY <1>1, TranslateFirstInv DEF TranslateReadsStep, Translating
  <1>2. CASE TranslateReadsStep /\ ~single_step
    <2>1. TypeInv'
      BY EmuStepType DEF FirstInv, EmuStep
    <2>2. /\ emu = "translate" /\ emu' = "translate_bp"
          /\ UNCHANGED <<exit_kernel, single_step, pc, dbg, tb, at, cache>>
      BY <1>2 DEF TranslateReadsStep, stateVars
    <2>3. CacheInv' /\ EntryHooked' /\ EntrySeen' /\ EntryPending'
      BY <2>2 DEF FirstInv, CacheInv, EntryHooked, EntrySeen, EntryPending,
                  Translating, InCallback
    <2>4. StartPending'
      BY <1>2, <2>2 DEF FirstInv, StartPending
    <2>5. QED
      BY <2>1, <2>3, <2>4 DEF FirstInv
  <1>3. CASE TranslateReadsBreakpoints
    <2> DEFINE hook == \/ breakpoints_contain(NextToTranslate)
                       \/ exited_kernel(NextToTranslate)
    <2>1. hook \in BOOLEAN /\ (exited_kernel(NextToTranslate) => hook)
      BY DEF breakpoints_contain, exited_kernel
    <2>2. emu = "translate_bp" /\ TranslateReturns(hook)
      BY <1>3 DEF TranslateReadsBreakpoints
    <2>3. ~(OnStart /\ pc = NoAddr)
      BY <2>2 DEF FirstInv, StartPending
    <2>4. QED
      BY <2>1, <2>2, <2>3, TranslateFirstInv DEF Translating
  <1>4. QED
    BY <1>1, <1>2, <1>3 DEF TranslateReadsStep


\* An instruction has executed.  If it ended its block the guest is between
\* blocks, else at the next instruction.
LEMMA AdvanceWhere ==
  ASSUME Advance
  PROVE  \/ emu' = "exec" /\ tb' = tb
         \/ emu' = "fetch"
  BY DEF Advance

\* What is left to show when a callback or an instruction without one leaves
\* the translations alone.
LEMMA SameCache ==
  ASSUME FirstInv, emu \in InCallback \cup {"exec"}, cache' = cache,
         emu' \in InCallback \cup {"exec", "fetch", "crashed"},
         emu' # "fetch" => tb' = tb
  PROVE  CacheInv'
  BY DEF FirstInv, CacheInv, Translating, InCallback

\* With a stop still owed at the start, every instruction has a callback.
LEMMA OwedAtStart ==
  ASSUME FirstInv, emu = "exec", OnStart, pc = NoAddr
  PROVE  Hooked /\ single_step
  <1>1. tb \in Blocks /\ at \in 1 .. Len(tb) /\ Len(cache[tb]) = Len(tb)
    BY DEF FirstInv, TypeInv, TypeOK, InBlock, InBlockStates, EmuStates,
           CacheInv
  <1>2. QED
    BY <1>1 DEF FirstInv, StartPending, Hooked

\* While the entry is awaited, each instruction it could be has a callback.
LEMMA OwedAtEntry ==
  ASSUME FirstInv, emu = "exec", exited_kernel(Here)
  PROVE  Hooked
  <1>1. tb \in Blocks /\ at \in 1 .. Len(tb) /\ Len(cache[tb]) = Len(tb)
    BY DEF FirstInv, TypeInv, TypeOK, InBlock, InBlockStates, EmuStates,
           CacheInv
  <1>2. QED
    BY <1>1 DEF FirstInv, EntryHooked, exited_kernel, Here, Hooked

LEMMA ExecFirstInv ==
  ASSUME FirstInv, ExecPlain \/ CheckBreakpoint
  PROVE  FirstInv'
  <1>1. TypeInv'
    BY EmuStepType DEF FirstInv, EmuStep
  <1>2. UNCHANGED <<exit_kernel, single_step, pc, dbg, cache>>
    BY DEF ExecPlain, CheckBreakpoint, stateVars
  <1>3. /\ emu \in {"exec", "check_bp"}
        /\ \/ emu' \in {"exec", "hit"} /\ tb' = tb
           \/ emu' = "fetch"
    BY AdvanceWhere DEF ExecPlain, CheckBreakpoint
  <1>4. CacheInv' /\ EntryHooked'
    BY <1>2, <1>3, SameCache DEF InCallback, FirstInv, EntryHooked
  <1>5. EntrySeen'
    <2>1. CASE emu' = "hit"
      BY <1>2, <2>1
         DEF ExecPlain, CheckBreakpoint, Advance, FirstInv, EntrySeen,
             InCallback, exited_kernel, Here
    <2>2. CASE emu' # "hit"
      BY <1>3, <2>2 DEF EntrySeen, InCallback
    <2>3. QED
      BY <2>1, <2>2
  <1>6. EntryPending'
    BY <1>2, <1>3 DEF FirstInv, EntryPending
  <1>7. StartPending'
    <2>1. ~(OnStart /\ pc = NoAddr)
      <3>1. CASE ExecPlain
        BY <3>1, OwedAtStart DEF ExecPlain
      <3>2. CASE CheckBreakpoint
        BY <3>2 DEF CheckBreakpoint, FirstInv, StartPending
      <3>3. QED
        BY <3>1, <3>2
    <2>2. QED
      BY <1>2, <2>1 DEF StartPending
  <1>8. QED
    BY <1>1, <1>4, <1>5, <1>6, <1>7 DEF FirstInv

\* The callback, up to its decision to stop.
LEMMA EnterFirstInv ==
  ASSUME FirstInv, EnterCallback \/ AcceptOnEntry \/ CheckStep
  PROVE  FirstInv'
  <1>1. TypeInv'
    BY EmuStepType, ConnectType DEF FirstInv, EmuStep, Connect
  <1>2. UNCHANGED <<pc, tb, at, cache>>
    BY DEF EnterCallback, AcceptOnEntry, CheckStep, stateVars
  <1>3. /\ emu \in {"exec", "accept_entry", "check"}
        /\ emu' \in {"accept_entry", "check", "hit", "check_bp"}
    BY DEF EnterCallback, AcceptOnEntry, CheckStep
  <1>4. CacheInv'
    BY <1>2, <1>3, SameCache DEF InCallback
  <1>5. exit_kernel' => exit_kernel
    BY DEF EnterCallback, AcceptOnEntry, CheckStep, unset_exit_kernel, stateVars
  <1>6. EntryHooked'
    BY <1>2, <1>5 DEF FirstInv, EntryHooked
  <1>7. CASE EnterCallback
    <2>1. EntrySeen'
      BY <1>2, <1>7
         DEF EnterCallback, unset_exit_kernel, EntrySeen, exited_kernel, Here
    <2>2. EntryPending'
      <3>1. CASE exited_kernel(Here)
        <4>1. emu' = "accept_entry" /\ single_step' = TRUE
          BY <1>7, <3>1 DEF EnterCallback, start_single_stepping
        <4>2. QED
          BY <4>1 DEF EntryPending
      <3>2. CASE ~exited_kernel(Here)
        <4>1. emu = "exec" /\ UNCHANGED <<exit_kernel, dbg>>
          BY <1>7, <3>2 DEF EnterCallback
        <4>2. QED
          BY <1>2, <4>1 DEF FirstInv, EntryPending
      <3>3. QED
        BY <3>1, <3>2
    <2>3. StartPending'
      <3>1. emu = "exec" /\ emu' \in {"accept_entry", "check"}
        BY <1>7 DEF EnterCallback
      <3>2. single_step' = TRUE \/ single_step' = single_step
        BY <1>7 DEF EnterCallback, start_single_stepping
      <3>3. ASSUME OnStart, pc = NoAddr
            PROVE  /\ single_step
                   /\ \A b \in Blocks : \A i \in 1 .. Len(cache[b]) : cache[b][i]
        BY <3>1, <3>3 DEF FirstInv, StartPending
      <3>4. single_step => single_step'
        BY <3>2
      <3>5. QED
        BY <1>2, <3>1, <3>3, <3>4 DEF StartPending
    <2>4. QED
      BY <1>1, <1>4, <1>6, <2>1, <2>2, <2>3 DEF FirstInv
  <1>8. CASE AcceptOnEntry
    <2>1. /\ emu = "accept_entry" /\ emu' = "check"
          /\ UNCHANGED <<exit_kernel, single_step>>
      BY <1>8 DEF AcceptOnEntry, stateVars
    <2>2. dbg'["entry"] # "none"
      BY <1>8 DEF AcceptOnEntry, Spawn, FirstInv, TypeInv, TypeOK, Sessions
    <2>3. EntrySeen'
      BY <1>2, <2>1
         DEF FirstInv, EntrySeen, InCallback, exited_kernel, Here
    <2>4. EntryPending' /\ StartPending'
      BY <1>2, <2>1, <2>2 DEF FirstInv, EntryPending, StartPending
    <2>5. QED
      BY <1>1, <1>4, <1>6, <2>3, <2>4 DEF FirstInv
  <1>9. CASE CheckStep
    <2>1. /\ emu = "check"
          /\ emu' = IF single_step THEN "hit" ELSE "check_bp"
          /\ UNCHANGED <<exit_kernel, single_step, dbg>>
      BY <1>9 DEF CheckStep, stateVars
    <2>2. EntrySeen'
      BY <1>2, <2>1
         DEF FirstInv, EntrySeen, InCallback, exited_kernel, Here
    <2>3. EntryPending' /\ StartPending'
      BY <1>2, <2>1 DEF FirstInv, EntryPending, StartPending
    <2>4. QED
      BY <1>1, <1>4, <1>6, <2>2, <2>3 DEF FirstInv
  <1>10. QED
    BY <1>7, <1>8, <1>9

\* The stop.
LEMMA StopFirstInv ==
  ASSUME FirstInv,
         \/ ClearStep \/ GrantCpu \/ PublishPc
         \/ SignalBreak \/ WaitForCont \/ RevokeCpu
  PROVE  FirstInv'
  <1>1. TypeInv'
    BY EmuStepType DEF FirstInv, EmuStep
  <1>2. UNCHANGED <<exit_kernel, dbg, cache>>
    BY DEF ClearStep, GrantCpu, PublishPc, SignalBreak, WaitForCont, RevokeCpu
  <1>3. /\ emu \in {"hit", "set_cpu", "set_pc", "signal", "wait_cont", "revoke"}
        /\ emu' \in {"set_cpu", "set_pc", "signal", "wait_cont", "revoke",
                     "exec", "fetch", "crashed"}
        /\ emu' # "fetch" => tb' = tb
        /\ emu' \notin {"exec", "fetch"} => at' = at
    BY DEF ClearStep, GrantCpu, PublishPc, SignalBreak, WaitForCont, RevokeCpu,
           Advance
  <1>4. CacheInv' /\ EntryHooked'
    BY <1>2, <1>3, SameCache DEF InCallback, FirstInv, EntryHooked
  <1>5. EntrySeen'
    BY <1>2, <1>3 DEF FirstInv, EntrySeen, InCallback, exited_kernel, Here
  <1>6. CASE emu \in {"hit", "set_cpu"}
    <2>1. /\ emu' \in {"set_cpu", "set_pc", "crashed"}
          /\ pc' = pc
      BY <1>6 DEF ClearStep, GrantCpu, PublishPc, SignalBreak, WaitForCont,
                  RevokeCpu
    <2>2. EntryPending' /\ StartPending'
      BY <1>2, <1>6, <2>1 DEF FirstInv, EntryPending, StartPending
    <2>3. QED
      BY <1>1, <1>4, <1>5, <2>2 DEF FirstInv
  <1>7. CASE emu \notin {"hit", "set_cpu"}
    <2>1. pc' \in Addr \/ (pc' = pc /\ emu # "set_pc")
      <3>1. CASE PublishPc
        <4>1. Here \in Addr
          BY <3>1, BlockAddr
             DEF PublishPc, FirstInv, TypeInv, TypeOK, InBlock, InBlockStates,
                 EmuStates, Here
        <4>2. QED
          BY <3>1, <4>1 DEF PublishPc, set_pc
      <3>2. CASE ~PublishPc
        BY <1>7, <3>2
           DEF ClearStep, GrantCpu, SignalBreak, WaitForCont, RevokeCpu
      <3>3. QED
        BY <3>1, <3>2
    <2>2. pc' # NoAddr \/ (pc' = pc /\ emu # "set_pc")
      BY <2>1, AddrAssumption
    <2>3. EntryPending'
      BY <1>2, <1>3, <1>7, <2>2 DEF FirstInv, EntryPending
    <2>4. StartPending'
      BY <1>3, <1>7, <2>2 DEF FirstInv, StartPending
    <2>5. QED
      BY <1>1, <1>4, <1>5, <2>3, <2>4 DEF FirstInv
  <1>8. QED
    BY <1>6, <1>7

\* The wait for a client panics.
LEMMA FailFirstInv ==
  ASSUME FirstInv, AcceptFails
  PROVE  FirstInv'
  <1>1. TypeInv'
    BY ConnectType DEF FirstInv, Connect
  <1>2. /\ emu \in {"accept_start", "accept_entry"} /\ emu' = "crashed"
        /\ UNCHANGED <<exit_kernel, single_step, pc, tb, at, cache, dbg>>
    BY DEF AcceptFails, stateVars
  <1>3. CacheInv' /\ EntryHooked' /\ EntrySeen'
    BY <1>2 DEF FirstInv, CacheInv, EntryHooked, EntrySeen, Translating,
                InCallback
  <1>4. EntryPending' /\ StartPending'
    BY <1>2 DEF FirstInv, EntryPending, StartPending
  <1>5. QED
    BY <1>1, <1>3, <1>4 DEF FirstInv

LEMMA FirstInvNext == FirstInv /\ [Next]_vars => FirstInv'
  <1> SUFFICES ASSUME FirstInv, [Next]_vars
               PROVE  FirstInv'
    OBVIOUS
  <1>1. CASE UNCHANGED vars
    <2>1. TypeInv'
      BY <1>1, TypeInvNext DEF FirstInv
    <2>2. QED
      BY <1>1, <2>1
         DEF FirstInv, CacheInv, EntryHooked, EntrySeen, EntryPending,
             StartPending, exited_kernel, Here, vars, stateVars, emuVars
  <1>2. CASE EmuStep
    BY <1>2, LoadFirstInv, FetchFirstInv, TranslateStepFirstInv, ExecFirstInv,
       EnterFirstInv, StopFirstInv DEF EmuStep
  <1>3. CASE Connect \/ FlushCache
    BY <1>3, LoadFirstInv, FetchFirstInv, EnterFirstInv, FailFirstInv DEF Connect
  <1>4. ASSUME NEW s \in Sessions, Serve(s) \/ Packet(s)
        PROVE  FirstInv'
    BY <1>4, DebuggerFirstInv
  <1>5. QED
    BY <1>1, <1>2, <1>3, <1>4 DEF Next

-----------------------------------------------------------------------------
(* The first stop.                                                         *)

\* A step that executes an instruction is the emulation thread's, at an
\* instruction without a callback or at the end of one.
LEMMA ExecutedBy ==
  ASSUME FirstInv, Next, Executed
  PROVE  ExecPlain \/ CheckBreakpoint \/ RevokeCpu
  <1>1. /\ emu \in {"exec", "check_bp", "revoke"}
        /\ emu' = "fetch" \/ at' = at + 1
        /\ at \in Nat
    BY DEF Executed, FirstInv, TypeInv, TypeOK
  <1>2. ASSUME NEW s \in Sessions, Serve(s) \/ Packet(s)
        PROVE  FALSE
    BY <1>1, <1>2, DebuggerStep DEF FirstInv
  <1>3. ~(Connect \/ FlushCache)
    BY <1>1 DEF Connect, AcceptOnStart, AcceptOnEntry, AcceptFails, FlushCache
  <1>4. ~EnterCallback
    BY <1>1 DEF EnterCallback
  <1>5. EmuStep
    BY <1>2, <1>3 DEF Next
  <1>6. QED
    BY <1>1, <1>4, <1>5
       DEF EmuStep, PluginInit, FetchBlock, TranslateReadsStep,
           TranslateReadsBreakpoints, CheckStep, ClearStep, GrantCpu, PublishPc,
           SignalBreak, WaitForCont, Shutdown, ProcessExit

LEMMA FirstInvAlways == Spec => []FirstInv
  BY FirstInvInit, FirstInvNext, PTL DEF Spec

\* While the kernel's exit is awaited, every instruction it could be
\* recognised at is instrumented in every cached translation.
THEOREM EntryAlwaysHooked == Spec => []EntryHooked
  <1>1. FirstInv => EntryHooked
    BY DEF FirstInv
  <1>2. QED
    BY <1>1, FirstInvAlways, PTL

\* With on_start, the guest executes nothing before its first stop.
THEOREM StopsAtStart == Spec => StartStop
  <1>1. ASSUME FirstInv, [Next]_vars
        PROVE  [Executed /\ OnStart => pc # NoAddr]_vars
    <2> SUFFICES ASSUME Next, Executed, OnStart, pc = NoAddr
                 PROVE  FALSE
      BY <1>1
    <2>1. CASE ExecPlain
      BY <1>1, <2>1, OwedAtStart DEF ExecPlain
    <2>2. CASE CheckBreakpoint \/ RevokeCpu
      BY <1>1, <2>2 DEF CheckBreakpoint, RevokeCpu, FirstInv, StartPending
    <2>3. QED
      BY <1>1, <2>1, <2>2, ExecutedBy
  <1>2. QED
    BY <1>1, FirstInvAlways, PTL DEF Spec, StartStop

\* With on_entry, no user instruction executes before the entry session is
\* there and the guest has stopped.
THEOREM StopsAtEntry == Spec => EntryStop
  <1>1. ASSUME FirstInv, [Next]_vars
        PROVE  [Executed /\ OnEntry /\ Here \in UserText
                 => ~exit_kernel /\ dbg["entry"] # "none" /\ pc # NoAddr]_vars
    <2> SUFFICES ASSUME Next, Executed, OnEntry, Here \in UserText
                 PROVE  ~exit_kernel /\ dbg["entry"] # "none" /\ pc # NoAddr
      BY <1>1
    <2>1. ExecPlain \/ CheckBreakpoint \/ RevokeCpu
      BY <1>1, ExecutedBy
    <2>2. emu \in {"exec", "check_bp", "revoke"}
      BY DEF Executed
    <2>3. ~exit_kernel
      <3>1. CASE emu = "exec"
        BY <1>1, <2>1, <3>1, OwedAtEntry
           DEF ExecPlain, CheckBreakpoint, RevokeCpu, exited_kernel
      <3>2. CASE emu # "exec"
        BY <1>1, <2>2, <3>2
           DEF FirstInv, EntrySeen, InCallback, exited_kernel
      <3>3. QED
        BY <3>1, <3>2
    <2>4. dbg["entry"] # "none" /\ pc # NoAddr
      BY <1>1, <2>2, <2>3 DEF FirstInv, EntryPending
    <2>5. QED
      BY <2>3, <2>4
  <1>2. QED
    BY <1>1, FirstInvAlways, PTL DEF Spec, EntryStop

-----------------------------------------------------------------------------
(* Crashes.                                                                *)

\* A session that takes the CPU serves a packet that needs it, and has seen it
\* at a stop, which has published its program counter or is about to.  So the
\* session that finds it gone has outlived a stop, and the one that panics
\* with the lock held is remembered.
CrashInv ==
  /\ \A s \in Sessions :
       /\ dbg[s] \in {"poll", "take", "use"} => op[s] # "none"
       /\ dbg[s] = "take" => pc # NoAddr \/ emu = "set_pc"
  /\ emu \in Granted \ {"set_pc"} => pc # NoAddr
  /\ cpu = "poisoned" => HandlerPanicked /\ pc # NoAddr

LEMMA CrashInvInit == Init => CrashInv
  BY DEF Init, new, CrashInv, Granted

LEMMA CrashInvDebugger ==
  ASSUME TypeInv, CrashInv, NEW s \in Sessions, Serve(s) \/ Packet(s)
  PROVE  CrashInv'
  <1>1. emu' = emu /\ (pc # NoAddr => pc' # NoAddr)
    BY DebuggerStep, AddrAssumption
  <1>2. /\ \A t \in Sessions \ {s} : dbg'[t] = dbg[t] /\ op'[t] = op[t]
        /\ \/ dbg'[s] \notin {"poll", "take", "use", "panicked"}
           \/ dbg'[s] = "panicked" /\ cpu' = cpu /\ dbg[s] = "idle"
           \/ dbg'[s] = "poll" /\ op'[s] # "none" /\ cpu' = cpu
           \/ /\ dbg[s] = "poll" /\ op'[s] = op[s] /\ cpu' = cpu
              /\ \/ dbg'[s] = "take" /\ cpu = "some"
                 \/ dbg'[s] = "panicked" /\ cpu = "poisoned"
           \/ /\ dbg[s] = "take" /\ op'[s] = op[s]
              /\ \/ dbg'[s] = "use" /\ cpu' = cpu
                 \/ dbg'[s] = "panicked" /\ cpu # "some"
        /\ dbg[s] # "panicked"
        /\ dbg'[s] = "panicked" \/ cpu' = cpu
    <2> USE DEF TypeInv, TypeOK, StateTypeOK, Move, stateVars
    <2>1. CASE ResumeStepSignals(s) \/ WaitForBreak(s)
      BY <2>1 DEF ResumeStepSignals, WaitForBreak, SignalCont
    <2>2. CASE SeeCpu(s)
      BY <2>2 DEF SeeCpu, cpu_seen
    <2>3. CASE TakeCpu(s)
      BY <2>3 DEF TakeCpu
    <2>4. CASE TakePanics(s)
      BY <2>4 DEF TakePanics, cpu_taken
    <2>5. CASE UseCpu(s)
      BY <2>5 DEF UseCpu
    <2>6. CASE ResumeStep(s) \/ ResumeContinue(s) \/ ResumeWithSignal(s)
               \/ Disconnect(s)
      BY <2>6 DEF ResumeStep, ResumeContinue, ResumeWithSignal, Disconnect,
                  SignalCont
    <2>7. CASE \E a \in Addr : AddSwBreakpoint(s, a) \/ RemoveSwBreakpoint(s, a)
      BY <2>7 DEF AddSwBreakpoint, RemoveSwBreakpoint
    <2>8. CASE \E o \in CpuOps : NeedCpu(s, o)
      BY <2>8 DEF NeedCpu, CpuOps
    <2>9. QED
      BY <2>1, <2>2, <2>3, <2>4, <2>5, <2>6, <2>7, <2>8 DEF Serve, Packet
  <1>3. cpu = "some" => pc # NoAddr \/ emu = "set_pc"
    BY DEF TypeInv, TypeOK, CrashInv
  <1>4. ASSUME NEW t \in Sessions
        PROVE  /\ dbg'[t] \in {"poll", "take", "use"} => op'[t] # "none"
               /\ dbg'[t] = "take" => pc' # NoAddr \/ emu' = "set_pc"
    BY <1>1, <1>2, <1>3 DEF CrashInv
  <1>5. cpu' = "poisoned" => HandlerPanicked' /\ pc' # NoAddr
    <2>1. CASE cpu = "poisoned"
      BY <1>1, <1>2, <2>1 DEF CrashInv, HandlerPanicked
    <2>2. CASE cpu # "poisoned" /\ cpu' = "poisoned"
      <3>1. dbg[s] = "take" /\ dbg'[s] = "panicked" /\ op'[s] = op[s] /\ cpu # "some"
        BY <1>2, <2>2
      <3>2. op[s] # "none" /\ emu # "set_pc" /\ pc # NoAddr
        BY <3>1 DEF CrashInv, TypeInv, TypeOK, Granted
      <3>3. QED
        BY <1>1, <3>1, <3>2 DEF HandlerPanicked
    <2>3. QED
      BY <2>1, <2>2
  <1>6. QED
    BY <1>1, <1>4, <1>5 DEF CrashInv

LEMMA CrashInvNext ==
  ASSUME TypeInv, CrashInv, [Next]_vars
  PROVE  CrashInv'
  <1>1. CASE UNCHANGED vars
    BY <1>1 DEF CrashInv, HandlerPanicked, vars, stateVars, emuVars
  <1>2. ASSUME NEW s \in Sessions, Serve(s) \/ Packet(s)
        PROVE  CrashInv'
    BY <1>2, CrashInvDebugger
  <1>3. CASE AcceptOnStart \/ AcceptOnEntry
    BY <1>3 DEF AcceptOnStart, AcceptOnEntry, Spawn, CrashInv, HandlerPanicked,
                Granted, TypeInv, TypeOK, stateVars
  <1>4. CASE GrantCpu \/ RevokeCpu
    BY <1>4 DEF GrantCpu, RevokeCpu, set_cpu, unset_cpu, Advance, CrashInv,
                HandlerPanicked, Granted
  <1>5. CASE PublishPc
    <2>1. pc' # NoAddr
      BY <1>5, BlockAddr, AddrAssumption
         DEF PublishPc, set_pc, Here, TypeInv, TypeOK, InBlock, InBlockStates,
             EmuStates
    <2>2. QED
      BY <1>5, <2>1 DEF PublishPc, CrashInv, HandlerPanicked
  <1>6. CASE SignalBreak \/ WaitForCont
    BY <1>6 DEF SignalBreak, WaitForCont, CrashInv, HandlerPanicked, Granted
  <1>7. CASE \/ AcceptFails \/ FlushCache \/ PluginInit \/ Shutdown
             \/ \E b \in Blocks : FetchBlock(b)
             \/ TranslateReadsStep \/ TranslateReadsBreakpoints \/ ExecPlain
             \/ EnterCallback \/ CheckStep \/ CheckBreakpoint \/ ClearStep
             \/ ProcessExit
    <2>1. UNCHANGED <<cpu, pc, dbg, op>>
      BY <1>7
         DEF AcceptFails, FlushCache, PluginInit, FetchBlock,
             TranslateReadsStep, TranslateReadsBreakpoints, TranslateReturns,
             ExecPlain, EnterCallback, CheckStep, CheckBreakpoint, ClearStep,
             Shutdown, ProcessExit, stateVars
    <2>2. emu # "set_pc" /\ emu' \notin Granted
      BY <1>7
         DEF AcceptFails, FlushCache, PluginInit, FetchBlock,
             TranslateReadsStep, TranslateReadsBreakpoints, TranslateReturns,
             ExecPlain, EnterCallback, CheckStep, CheckBreakpoint, ClearStep,
             Shutdown, ProcessExit, Advance, Granted
    <2>3. QED
      BY <2>1, <2>2 DEF CrashInv, HandlerPanicked
  <1>8. QED
    BY <1>1, <1>2, <1>3, <1>4, <1>5, <1>6, <1>7 DEF Next, EmuStep, Connect

\* A callback panics while it waits for a client, or because a debugger thread
\* has panicked between the two locks of wait_for_cpu, which takes a stop.
THEOREM CrashesHaveCause == Spec => CrashHasCause
  <1>1. ASSUME TypeInv, CrashInv, [Next]_vars
        PROVE  [emu' = "crashed" =>
                  \/ emu \in {"accept_start", "accept_entry", "crashed"}
                  \/ HandlerPanicked /\ pc # NoAddr]_vars
    <2> SUFFICES ASSUME Next, emu' = "crashed", emu # "crashed",
                        emu \notin {"accept_start", "accept_entry"}
                 PROVE  HandlerPanicked /\ pc # NoAddr
      BY <1>1
    <2>1. ASSUME NEW s \in Sessions, Serve(s) \/ Packet(s)
          PROVE  FALSE
      BY <1>1, <2>1, DebuggerStep
    <2>2. EmuStep
      BY <2>1 DEF Next, Connect, AcceptOnStart, AcceptOnEntry, AcceptFails,
                  FlushCache
    <2>3. GrantCpu /\ cpu = "poisoned"
      BY <2>2
         DEF EmuStep, PluginInit, FetchBlock, TranslateReadsStep,
             TranslateReadsBreakpoints, TranslateReturns, ExecPlain,
             EnterCallback, CheckStep, CheckBreakpoint, ClearStep, GrantCpu,
             PublishPc, SignalBreak, WaitForCont, RevokeCpu, Shutdown,
             ProcessExit, Advance
    <2>4. QED
      BY <1>1, <2>3 DEF CrashInv
  <1>2. QED
    BY <1>1, CrashInvInit, CrashInvNext, TypeInvInit, TypeInvNext, PTL
       DEF Spec, CrashHasCause

=============================================================================
