---------------------------- MODULE GdbStubProps ----------------------------
(***************************************************************************)
(* The properties of panda-gdb: what holds of the code, and, at the end,   *)
(* what its comments and its README say and the code does not do.          *)
(***************************************************************************)
EXTENDS GdbStub

-----------------------------------------------------------------------------
(* The two signals.                                                        *)

Waiting == {s \in Sessions : dbg[s] = "wait"}
Stopped == emu = "wait_cont"
Ended == emu \in {"down", "exited"}

H == INSTANCE Handshake
       WITH news <- Len(brk), credit <- Len(cont), waiting <- Waiting,
            stopped <- Stopped, ended <- Ended

\* The stub implements the handshake: every stop and the exit are announced
\* once, every resume releases the guest once, nothing else moves a token
\* (Signal in target_state.rs, resume in panda_target.rs, every_instruction).
ImplementsHandshake == H!HSpec

\* The tokens in brk and cont are exactly the ones the waiting sessions, the
\* stopped guest and the exit account for: no wakeup is lost or made up.
Balanced == H!Balanced

\* Emulation thread and debugger threads never wait for each other: whoever
\* blocks in wait_for, the signal that frees it is sent or will be.
NoMutualWait == H!NoMutualWait

\* The unbounded channels hold a few tokens at most, however long a session
\* lasts and however its packets interleave with the stops.
BacklogBounded == Len(brk) + Len(cont) <= Cardinality(Sessions) + 1

\* The wait for a client comes to an end.
ClientsConnect == WF_vars(Connect)

\* A resume call always comes back, with a stop or with the exit, while the
\* process lives: no wakeup is lost, the recording ends, and a session that
\* waits while every_instruction waits for the other one's client is served
\* once that client is there.
ResumeReturns ==
  ClientsConnect =>
    \A s \in Sessions : dbg[s] = "wait" ~> (dbg[s] # "wait" \/ ~Alive)

-----------------------------------------------------------------------------
(* The first stop.                                                         *)

\* The current instruction of the guest executes.
Executed ==
  /\ emu \in {"exec", "check_bp", "revoke"}
  /\ \/ emu' = "fetch"
     \/ at' = at + 1

\* With on_start, the guest executes nothing before its first stop: the step
\* flag is up before anything is translated and stays up until that stop.
StartStop == [][Executed /\ OnStart => pc # NoAddr]_vars

\* With on_entry, no user instruction executes before the entry session is
\* there and the guest has stopped: translate_instr instruments every
\* candidate for the entry as long as exit_kernel is up, cached or not.
EntryStop ==
  [][Executed /\ OnEntry /\ Here \in UserText
       => ~exit_kernel /\ dbg["entry"] # "none" /\ pc # NoAddr]_vars

\* Its invariant: while the kernel's exit is awaited, every instruction it
\* could be recognised at is instrumented in every cached translation.
EntryHooked ==
  exit_kernel =>
    \A b \in Blocks : \A i \in 1 .. Len(cache[b]) :
      b[i] \in UserText => cache[b][i]

-----------------------------------------------------------------------------
(* Crashes.                                                                *)

\* A handler that asked for the CPU has panicked.
HandlerPanicked == \E s \in Sessions : dbg[s] = "panicked" /\ op[s] # "none"

\* Once its client is connected, a callback panics, and takes PANDA down, only
\* after a debugger thread has panicked between the two locks of
\* wait_for_cpu; and since that takes a stop which ended under its hands,
\* never at the first stop.
CrashHasCause ==
  [][emu' = "crashed" =>
       \/ emu \in {"accept_start", "accept_entry", "crashed"}
       \/ HandlerPanicked /\ pc # NoAddr]_vars

-----------------------------------------------------------------------------
(* What the code says and does not do.                                     *)

\* README: continue and step work.  A stop is reported to the client only
\* while the guest is stopped.
StopReportTrue ==
  [][\A s \in Sessions :
       dbg[s] = "wait" /\ dbg'[s] = "idle" => Stopped]_vars

\* wait_for_cpu returns a CPU once it has seen one: its second unwrap never
\* fails and never poisons the lock.
CpuLockSound == cpu # "poisoned"

\* every_instruction: "Pass the CPU to the debugging thread" and "Revoke the
\* CPU from the debugging thread".  The registers and the program counter a
\* client is given are those of the instruction the guest is stopped at.
RegistersOfTheStop ==
  \A s \in Sessions :
    dbg[s] = "use" /\ op[s] = "read_registers" =>
      emu \in Granted /\ pc = Here

\* translate_instr: "Only instrument the instruction if we might break on
\* it"; README: breakpoints and step work.  A block that runs from the cache
\* stops at every breakpoint set in it, and a step from a stop ends at the
\* next instruction of the block.
StopsWhereAsked ==
  [][/\ \A b \in Blocks :
          FetchBlock(b) /\ Translated(b) =>
            \A i \in 1 .. Len(b) : b[i] \in breakpoints => cache[b][i]
     /\ RevokeCpu /\ single_step /\ at < Len(tb) => cache[tb][at + 1]]_vars

=============================================================================
