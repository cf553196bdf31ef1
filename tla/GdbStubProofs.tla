--------------------------- MODULE GdbStubProofs ---------------------------
(***************************************************************************)
(* Theorems of panda-gdb, for every set of addresses and blocks, every     *)
(* length of the recording, every argument of the plugin.                  *)
(***************************************************************************)
EXTENDS GdbStubProps, SequenceTheorems, FiniteSetTheorems, TLAPS

-----------------------------------------------------------------------------
(* Types.                                                                  *)

InBlockStates == EmuStates \ {"load", "accept_start", "fetch", "down",
                              "exited", "crashed"}

\* Inside a block the emulation thread is at one of its instructions.
InBlock == emu \in InBlockStates => tb \in Blocks /\ at \in 1 .. Len(tb)

TypeInv == TypeOK /\ InBlock

\* Every instruction of a block has an address.
LEMMA BlockAddr ==
  ASSUME NEW b \in Blocks
  PROVE  /\ Len(b) \in Nat \ {0}
         /\ \A i \in 1 .. Len(b) : b[i] \in Addr
  <1>1. b \in Seq(Addr) /\ b # <<>>
    BY StubAssumption
  <1>2. QED
    BY <1>1, EmptySeq, ElementOfSeq

LEMMA AdvanceType ==
  ASSUME TypeInv, emu \in InBlockStates, Advance
  PROVE  /\ emu' \in EmuStates \ Granted
         /\ tb' \in Blocks \cup {<<>>}
         /\ at' \in Nat
         /\ InBlock'
  BY BlockAddr
  DEF TypeInv, TypeOK, InBlock, InBlockStates, EmuStates, Advance, Granted

LEMMA TranslateType ==
  ASSUME TypeInv, emu \in {"translate", "translate_bp"}, NEW hook \in BOOLEAN,
         TranslateReturns(hook)
  PROVE  TypeInv'
  <1>1. Append(cache[tb], hook) \in Seq(BOOLEAN)
    BY AppendProperties
       DEF TypeInv, TypeOK, InBlock, InBlockStates, EmuStates
  <1>2. cache' \in [Blocks -> Seq(BOOLEAN)]
    BY <1>1 DEF TypeInv, TypeOK, TranslateReturns
  <1>3. QED
    BY <1>2 DEF TypeInv, TypeOK, StateTypeOK, InBlock, InBlockStates,
                EmuStates, TranslateReturns, stateVars, Granted

\* The emulation thread keeps the types.
LEMMA EmuStepType ==
  ASSUME TypeInv, EmuStep
  PROVE  TypeInv'
  <1> USE DEF TypeInv, TypeOK, StateTypeOK, InBlock, InBlockStates, EmuStates,
              stateVars, DbgStates, CpuOps, BreakStatus, Granted
  <1>1. CASE PluginInit
    BY <1>1 DEF PluginInit, set_exit_kernel
  <1>2. ASSUME NEW b \in Blocks, FetchBlock(b)
        PROVE  TypeInv'
    <2>1. Len(b) \in Nat \ {0}
      BY BlockAddr
    <2>2. left' \in 0 .. ReplayLen
      BY <1>2, StubAssumption DEF FetchBlock
    <2>3. emu = "fetch" /\ emu' \in {"exec", "translate"} /\ tb' = b /\ at' = 1
      BY <1>2 DEF FetchBlock
    <2>4. InBlock'
      BY <2>1, <2>3
    <2>5. UNCHANGED <<stateVars, cache, dbg, op>>
      BY <1>2 DEF FetchBlock
    <2>6. QED
      BY <2>2, <2>3, <2>4, <2>5
  <1>3. CASE TranslateReadsStep
    BY <1>3, TranslateType DEF TranslateReadsStep
  <1>4. CASE TranslateReadsBreakpoints
    BY <1>4, TranslateType
       DEF TranslateReadsBreakpoints, breakpoints_contain, exited_kernel
  <1>5. CASE ExecPlain
    BY <1>5, AdvanceType DEF ExecPlain
  <1>6. CASE EnterCallback
    BY <1>6 DEF EnterCallback, unset_exit_kernel, start_single_stepping
  <1>7. CASE CheckStep
    BY <1>7 DEF CheckStep
  <1>8. CASE CheckBreakpoint
    BY <1>8, AdvanceType DEF CheckBreakpoint
  <1>9. CASE ClearStep
    BY <1>9 DEF ClearStep, stop_single_stepping
  <1>10. CASE GrantCpu
    BY <1>10 DEF GrantCpu, set_cpu
  <1>11. CASE PublishPc
    BY <1>11, BlockAddr DEF PublishPc, set_pc, Here
  <1>12. CASE SignalBreak
    BY <1>12, AppendProperties DEF SignalBreak, signal
  <1>13. CASE WaitForCont
    BY <1>13, HeadTailProperties DEF WaitForCont, can_receive, after_receive
  <1>14. CASE RevokeCpu
    BY <1>14, AdvanceType DEF RevokeCpu, unset_cpu
  <1>15. CASE Shutdown
    BY <1>15, AppendProperties DEF Shutdown, signal
  <1>16. CASE ProcessExit
    BY <1>16 DEF ProcessExit
  <1>17. QED
    BY <1>1, <1>2, <1>3, <1>4, <1>5, <1>6, <1>7, <1>8, <1>9, <1>10, <1>11,
       <1>12, <1>13, <1>14, <1>15, <1>16 DEF EmuStep

LEMMA ConnectType ==
  ASSUME TypeInv, Connect \/ FlushCache
  PROVE  TypeInv'
  <1> USE DEF TypeInv, TypeOK, StateTypeOK, InBlock, InBlockStates, EmuStates,
              stateVars, DbgStates, Spawn, Sessions, Granted
  <1>1. CASE AcceptOnStart
    BY <1>1 DEF AcceptOnStart, start_single_stepping
  <1>2. CASE AcceptOnEntry
    BY <1>2 DEF AcceptOnEntry
  <1>3. CASE AcceptFails
    BY <1>3 DEF AcceptFails
  <1>4. CASE FlushCache
    BY <1>4, EmptySeq DEF FlushCache
  <1>5. QED
    BY <1>1, <1>2, <1>3, <1>4 DEF Connect

\* A move of a debugger thread touches nothing of the emulation thread.
LEMMA MoveType ==
  ASSUME TypeInv, NEW s \in Sessions, NEW from, NEW to \in DbgStates,
         Move(s, from, to)
  PROVE  /\ UNCHANGED <<emu, tb, at, cache, left>>
         /\ dbg' \in [Sessions -> DbgStates]
         /\ InBlock'
  BY DEF TypeInv, TypeOK, InBlock, Move, emuVars

\* The debugger threads keep the types.
LEMMA ServeType ==
  ASSUME TypeInv, NEW s \in Sessions, Serve(s)
  PROVE  TypeInv'
  <1> USE MoveType
      DEF TypeInv, TypeOK, StateTypeOK, stateVars, DbgStates, CpuOps
  <1>1. CASE ResumeStepSignals(s)
    BY <1>1, AppendProperties DEF ResumeStepSignals, SignalCont, signal
  <1>2. CASE WaitForBreak(s)
    BY <1>2, HeadTailProperties DEF WaitForBreak, can_receive, after_receive
  <1>3. CASE SeeCpu(s)
    BY <1>3 DEF SeeCpu
  <1>4. CASE TakeCpu(s)
    BY <1>4 DEF TakeCpu
  <1>5. CASE TakePanics(s)
    BY <1>5 DEF TakePanics, cpu_take_panics
  <1>6. CASE UseCpu(s)
    BY <1>6 DEF UseCpu, set_pc
  <1>7. QED
    BY <1>1, <1>2, <1>3, <1>4, <1>5, <1>6 DEF Serve

LEMMA PacketType ==
  ASSUME TypeInv, NEW s \in Sessions, Packet(s)
  PROVE  TypeInv'
  <1> USE MoveType
      DEF TypeInv, TypeOK, StateTypeOK, stateVars, DbgStates, CpuOps
  <1>1. CASE ResumeStep(s)
    BY <1>1 DEF ResumeStep, start_single_stepping
  <1>2. CASE ResumeContinue(s)
    BY <1>2, AppendProperties DEF ResumeContinue, SignalCont, signal
  <1>3. CASE ResumeWithSignal(s)
    BY <1>3 DEF ResumeWithSignal
  <1>4. CASE Disconnect(s)
    BY <1>4 DEF Disconnect
  <1>5. ASSUME NEW a \in Addr, AddSwBreakpoint(s, a)
        PROVE  TypeInv'
    BY <1>5 DEF AddSwBreakpoint, add_breakpoint
  <1>6. ASSUME NEW a \in Addr, RemoveSwBreakpoint(s, a)
        PROVE  TypeInv'
    BY <1>6 DEF RemoveSwBreakpoint, remove_breakpoint
  <1>7. ASSUME NEW o \in CpuOps, NeedCpu(s, o)
        PROVE  TypeInv'
    BY <1>7 DEF NeedCpu
  <1>8. QED
    BY <1>1, <1>2, <1>3, <1>4, <1>5, <1>6, <1>7 DEF Packet

LEMMA TypeInvInit == Init => TypeInv
  <1> SUFFICES ASSUME Init
               PROVE  TypeInv
    OBVIOUS
  <1>1. StateTypeOK
    BY EmptySeq DEF Init, new, StateTypeOK
  <1>2. cache \in [Blocks -> Seq(BOOLEAN)]
    BY EmptySeq DEF Init
  <1>3. left \in 0 .. ReplayLen
    BY StubAssumption DEF Init
  <1>4. QED
    BY <1>1, <1>2, <1>3
       DEF Init, new, TypeInv, TypeOK, InBlock, InBlockStates, EmuStates,
           DbgStates, Granted

LEMMA TypeInvNext == TypeInv /\ [Next]_vars => TypeInv'
  <1> SUFFICES ASSUME TypeInv, [Next]_vars
               PROVE  TypeInv'
    OBVIOUS
  <1>1. CASE UNCHANGED vars
    BY <1>1 DEF TypeInv, TypeOK, StateTypeOK, InBlock, vars, stateVars, emuVars
  <1>2. QED
    BY <1>1, EmuStepType, ConnectType, ServeType, PacketType DEF Next

\* Every variable of the stub keeps its type.
THEOREM TypeCorrect == Spec => []TypeOK
  <1>1. TypeInv => TypeOK
    BY DEF TypeInv
  <1>2. QED
    BY <1>1, TypeInvInit, TypeInvNext, PTL DEF Spec

-----------------------------------------------------------------------------
(* The stub implements the handshake.                                      *)

\* A step that leaves the signals alone, and neither stops, releases nor ends
\* the guest, is invisible to the handshake.
Quiet ==
  /\ UNCHANGED <<brk, cont, dbg>>
  /\ Stopped' = Stopped
  /\ Ended' = Ended

LEMMA QuietStutters ==
  ASSUME Quiet
  PROVE  UNCHANGED H!hvars
  BY DEF Quiet, H!hvars, Waiting

\* So is a debugger thread's move into and out of other places than wait.
LEMMA MoveStutters ==
  ASSUME TypeInv, NEW s \in Sessions, NEW from, NEW to,
         from # "wait", to # "wait", Move(s, from, to), UNCHANGED <<brk, cont>>
  PROVE  UNCHANGED H!hvars
  <1>1. Waiting' = Waiting
    BY DEF Move, Waiting, TypeInv, TypeOK
  <1>2. Stopped' = Stopped /\ Ended' = Ended
    BY DEF Move, emuVars, Stopped, Ended
  <1>3. QED
    BY <1>1, <1>2 DEF H!hvars

\* A session that begins to wait, with its release paid.
LEMMA ResumeMaps ==
  ASSUME TypeInv, NEW s \in Sessions, NEW from, from # "wait",
         Move(s, from, "wait"), SignalCont
  PROVE  H!Resume(s)
  <1>1. Waiting' = Waiting \cup {s} /\ s \notin Waiting
    BY DEF Move, Waiting, TypeInv, TypeOK
  <1>2. Len(cont') = Len(cont) + 1
    BY AppendProperties DEF SignalCont, signal, TypeInv, TypeOK, StateTypeOK
  <1>3. Stopped' = Stopped /\ Ended' = Ended
    BY DEF Move, emuVars, Stopped, Ended
  <1>4. brk' = brk
    BY DEF SignalCont
  <1>5. QED
    BY <1>1, <1>2, <1>3, <1>4 DEF H!Resume

LEMMA EmuStepMaps ==
  ASSUME TypeInv, EmuStep
  PROVE  [H!HNext]_(H!hvars)
  <1>1. CASE SignalBreak
    <2>1. Len(brk') = Len(brk) + 1
      BY <1>1, AppendProperties
         DEF SignalBreak, signal, TypeInv, TypeOK, StateTypeOK, BreakStatus
    <2>2. ~Stopped /\ ~Ended /\ Stopped' = TRUE /\ Ended' = Ended
      BY <1>1 DEF SignalBreak, Stopped, Ended
    <2>3. UNCHANGED <<cont, Waiting>>
      BY <1>1 DEF SignalBreak, Waiting
    <2>4. H!Stop
      BY <2>1, <2>2, <2>3 DEF H!Stop
    <2>5. QED
      BY <2>4 DEF H!HNext
  <1>2. CASE WaitForCont
    <2>1. Len(cont) > 0 /\ Len(cont') = Len(cont) - 1
      BY <1>2, EmptySeq, HeadTailProperties
         DEF WaitForCont, can_receive, after_receive, TypeInv, TypeOK,
             StateTypeOK
    <2>2. Stopped /\ Stopped' = FALSE /\ Ended' = Ended
      BY <1>2 DEF WaitForCont, Stopped, Ended
    <2>3. UNCHANGED <<brk, Waiting>>
      BY <1>2 DEF WaitForCont, Waiting
    <2>4. H!Release
      BY <2>1, <2>2, <2>3 DEF H!Release
    <2>5. QED
      BY <2>4 DEF H!HNext
  <1>3. CASE Shutdown
    <2>1. Len(brk') = Len(brk) + 1
      BY <1>3, AppendProperties
         DEF Shutdown, signal, TypeInv, TypeOK, StateTypeOK, BreakStatus
    <2>2. ~Stopped /\ ~Ended /\ Ended' = TRUE /\ Stopped' = Stopped
      BY <1>3 DEF Shutdown, Stopped, Ended
    <2>3. UNCHANGED <<cont, Waiting>>
      BY <1>3 DEF Shutdown, Waiting
    <2>4. H!End
      BY <2>1, <2>2, <2>3 DEF H!End
    <2>5. QED
      BY <2>4 DEF H!HNext
  <1>4. CASE PluginInit \/ TranslateReadsStep \/ TranslateReadsBreakpoints
             \/ \E b \in Blocks : FetchBlock(b)
    <2>1. UNCHANGED <<brk, cont, dbg>>
      BY <1>4 DEF PluginInit, TranslateReadsStep, TranslateReadsBreakpoints,
                  TranslateReturns, FetchBlock, stateVars
    <2>2. /\ emu \in {"load", "fetch", "translate", "translate_bp"}
          /\ emu' \in {"accept_start", "fetch", "translate", "translate_bp",
                       "exec"}
      <3>1. CASE PluginInit \/ \E b \in Blocks : FetchBlock(b)
        BY <3>1 DEF PluginInit, FetchBlock
      <3>2. CASE TranslateReadsStep
        BY <3>2 DEF TranslateReadsStep, TranslateReturns
      <3>3. CASE TranslateReadsBreakpoints
        BY <3>3 DEF TranslateReadsBreakpoints, TranslateReturns
      <3>4. QED
        BY <1>4, <3>1, <3>2, <3>3
    <2>3. Stopped' = Stopped /\ Ended' = Ended
      BY <2>2 DEF Stopped, Ended
    <2>4. QED
      BY <2>1, <2>3, QuietStutters DEF Quiet
  <1>5. CASE ExecPlain \/ EnterCallback \/ CheckStep \/ CheckBreakpoint
    <2>1. Quiet
      BY <1>5 DEF ExecPlain, EnterCallback, CheckStep, CheckBreakpoint, Advance,
                  Quiet, Stopped, Ended, stateVars
    <2>2. QED
      BY <2>1, QuietStutters
  <1>6. CASE ClearStep \/ GrantCpu \/ PublishPc \/ RevokeCpu \/ ProcessExit
    <2>1. UNCHANGED <<brk, cont, dbg>>
      BY <1>6 DEF ClearStep, GrantCpu, PublishPc, RevokeCpu, ProcessExit,
                  stateVars
    <2>2. Stopped' = Stopped /\ Ended' = Ended
      BY <1>6 DEF ClearStep, GrantCpu, PublishPc, RevokeCpu, ProcessExit,
                  Advance, Stopped, Ended
    <2>3. QED
      BY <2>1, <2>2, QuietStutters DEF Quiet
  <1>7. QED
    BY <1>1, <1>2, <1>3, <1>4, <1>5, <1>6 DEF EmuStep

LEMMA ConnectMaps ==
  ASSUME TypeInv, Connect \/ FlushCache
  PROVE  UNCHANGED H!hvars
  <1>1. Waiting' = Waiting
    BY DEF Connect, AcceptOnStart, AcceptOnEntry, AcceptFails, FlushCache, Spawn,
           Sessions, Waiting, TypeInv, TypeOK, stateVars
  <1>2. Stopped' = Stopped /\ Ended' = Ended
    BY DEF Connect, AcceptOnStart, AcceptOnEntry, AcceptFails, FlushCache, Stopped,
           Ended
  <1>3. UNCHANGED <<brk, cont>>
    BY DEF Connect, AcceptOnStart, AcceptOnEntry, AcceptFails, FlushCache, stateVars
  <1>4. QED
    BY <1>1, <1>2, <1>3 DEF H!hvars

LEMMA ServeMaps ==
  ASSUME TypeInv, NEW s \in Sessions, Serve(s)
  PROVE  [H!HNext]_(H!hvars)
  <1>1. CASE ResumeStepSignals(s)
    BY <1>1, ResumeMaps DEF ResumeStepSignals, H!HNext
  <1>2. CASE WaitForBreak(s)
    <2>1. Len(brk) > 0 /\ Len(brk') = Len(brk) - 1
      BY <1>2, EmptySeq, HeadTailProperties
         DEF WaitForBreak, can_receive, after_receive, TypeInv, TypeOK,
             StateTypeOK
    <2>2. s \in Waiting /\ Waiting' = Waiting \ {s}
      BY <1>2 DEF WaitForBreak, Move, Waiting, TypeInv, TypeOK
    <2>3. Stopped' = Stopped /\ Ended' = Ended
      BY <1>2 DEF WaitForBreak, Move, emuVars, Stopped, Ended
    <2>4. cont' = cont
      BY <1>2 DEF WaitForBreak
    <2>5. H!Receive(s)
      BY <2>1, <2>2, <2>3, <2>4 DEF H!Receive
    <2>6. QED
      BY <2>5 DEF H!HNext
  <1>3. CASE SeeCpu(s) \/ TakeCpu(s) \/ TakePanics(s) \/ UseCpu(s)
    BY <1>3, MoveStutters DEF SeeCpu, TakeCpu, TakePanics, UseCpu, stateVars
  <1>4. QED
    BY <1>1, <1>2, <1>3 DEF Serve

LEMMA PacketMaps ==
  ASSUME TypeInv, NEW s \in Sessions, Packet(s)
  PROVE  [H!HNext]_(H!hvars)
  <1>1. CASE ResumeContinue(s)
    BY <1>1, ResumeMaps DEF ResumeContinue, H!HNext
  <1>2. CASE ResumeStep(s) \/ ResumeWithSignal(s) \/ Disconnect(s)
             \/ \E o \in CpuOps : NeedCpu(s, o)
    BY <1>2, MoveStutters
       DEF ResumeStep, ResumeWithSignal, Disconnect, NeedCpu, stateVars
  <1>3. CASE \E a \in Addr : AddSwBreakpoint(s, a) \/ RemoveSwBreakpoint(s, a)
    BY <1>3, MoveStutters DEF AddSwBreakpoint, RemoveSwBreakpoint
  <1>4. QED
    BY <1>1, <1>2, <1>3 DEF Packet

LEMMA InitMaps == Init => H!HInit
  <1> SUFFICES ASSUME Init
               PROVE  H!HInit
    OBVIOUS
  <1>1. Len(brk) = 0 /\ Len(cont) = 0
    BY EmptySeq DEF Init, new
  <1>2. Waiting = {}
    BY DEF Init, Waiting
  <1>3. Stopped = FALSE /\ Ended = FALSE
    BY DEF Init, Stopped, Ended
  <1>4. QED
    BY <1>1, <1>2, <1>3 DEF H!HInit

LEMMA NextMaps == TypeInv /\ [Next]_vars => [H!HNext]_(H!hvars)
  <1> SUFFICES ASSUME TypeInv, [Next]_vars
               PROVE  [H!HNext]_(H!hvars)
    OBVIOUS
  <1>1. CASE UNCHANGED vars
    BY <1>1 DEF vars, stateVars, emuVars, H!hvars, Waiting, Stopped, Ended
  <1>2. QED
    BY <1>1, EmuStepMaps, ConnectMaps, ServeMaps, PacketMaps DEF Next

\* The stub implements the handshake: every stop and the exit are announced
\* once, every resume releases the guest once, whatever the threads do.
THEOREM StubImplementsHandshake == Spec => ImplementsHandshake
  BY TypeInvInit, TypeInvNext, InitMaps, NextMaps, PTL
     DEF Spec, ImplementsHandshake, H!HSpec

-----------------------------------------------------------------------------
(* What the stub inherits from the handshake.                              *)

P == INSTANCE HandshakeProofs
       WITH news <- Len(brk), credit <- Len(cont), waiting <- Waiting,
            stopped <- Stopped, ended <- Ended

\* There are two sessions; H and P each have their own copy of the library's
\* definitions of finiteness and cardinality.
LEMMA SessionsFinite ==
  /\ IsFiniteSet(Sessions)
  /\ P!IsFiniteSet(Sessions)
  /\ Cardinality(Sessions) \in Nat
  <1>1. IsFiniteSet({"start"})
    BY FS_Singleton
  <1>2. IsFiniteSet({"start"} \cup {"entry"})
    BY <1>1, FS_AddElement
  <1>3. Sessions = {"start"} \cup {"entry"}
    BY DEF Sessions
  <1>4. IsFiniteSet(Sessions)
    BY <1>2, <1>3
  <1>5. P!IsFiniteSet(Sessions)
    BY <1>4 DEF IsFiniteSet, P!IsFiniteSet
  <1>6. QED
    BY <1>4, <1>5, FS_CardinalityType

LEMMA SameCardinality ==
  \A S : Cardinality(S) = H!Cardinality(S) /\ Cardinality(S) = P!Cardinality(S)
  BY DEF Cardinality, H!Cardinality, P!Cardinality

\* The inductive invariant of the handshake is one of the stub.
LEMMA InvInit == Init => P!HInv
  <1>1. H!HInit => P!HInit
    BY DEF H!HInit, P!HInit
  <1>2. QED
    BY <1>1, InitMaps, P!HInitInv

LEMMA InvNext == P!HInv /\ TypeInv /\ [Next]_vars => P!HInv'
  <1>1. [H!HNext]_(H!hvars) => [P!HNext]_(P!hvars)
    BY DEF H!HNext, P!HNext, H!hvars, P!hvars, H!Stop, P!Stop, H!Release,
           P!Release, H!End, P!End, H!Resume, P!Resume, H!Receive, P!Receive
  <1>2. QED
    BY <1>1, NextMaps, SessionsFinite, P!HNextInv

LEMMA InvAlways == Spec => [](TypeInv /\ P!HInv)
  BY TypeInvInit, TypeInvNext, InvInit, InvNext, PTL DEF Spec

\* The tokens in brk and cont are exactly the ones the waiting sessions, the
\* stopped guest and the exit account for.
THEOREM StubBalanced == Spec => []Balanced
  <1>1. P!HInv => Balanced
    BY SameCardinality
       DEF P!HInv, P!Balanced, P!AsNat, Balanced, H!Balanced, H!AsNat
  <1>2. QED
    BY <1>1, InvAlways, PTL

\* Whoever blocks in wait_for, the signal that frees it is sent or will be.
THEOREM StubNeverWaitsMutually == Spec => []NoMutualWait
  <1>1. P!HInv => NoMutualWait
    BY SameCardinality, SessionsFinite, P!NoMutualWaitFromInv
       DEF NoMutualWait, H!NoMutualWait, P!NoMutualWait
  <1>2. QED
    BY <1>1, InvAlways, PTL

\* The channels never hold more than one token per session and one more.
THEOREM StubBacklogBounded == Spec => []BacklogBounded
  <1>1. ASSUME TypeInv, P!HInv
        PROVE  BacklogBounded
    <2>1. /\ Cardinality(Waiting) \in Nat
          /\ Cardinality(Waiting) <= Cardinality(Sessions)
      BY SessionsFinite, FS_Subset, FS_CardinalityType DEF Waiting
    <2>2. P!AsNat(Stopped) + P!AsNat(Ended) \in {0, 1}
      BY DEF P!AsNat, Stopped, Ended
    <2>3. Len(brk) \in Nat /\ Len(cont) \in Nat
      BY <1>1, LenProperties DEF TypeInv, TypeOK, StateTypeOK
    <2>4. /\ P!AsNat(Stopped) \in {0, 1}
          /\ P!AsNat(Ended) \in {0, 1}
          /\ Len(brk) + Len(cont) =
               Cardinality(Waiting) + P!AsNat(Stopped) + P!AsNat(Ended)
      BY <1>1, SameCardinality DEF P!HInv, P!Balanced, P!AsNat
    <2>5. QED
      BY <2>1, <2>2, <2>3, <2>4, SessionsFinite DEF BacklogBounded
  <1>2. QED
    BY <1>1, InvAlways, PTL

=============================================================================
