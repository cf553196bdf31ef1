------------------------------ MODULE GdbStub ------------------------------
(***************************************************************************)
(* panda-gdb: the emulation thread, which runs the plugin's callbacks      *)
(* (src/lib.rs), and the debugger threads, which serve one GDB client each *)
(* (src/panda_target.rs behind the gdbstub crate).  They share STATE, and  *)
(* only STATE.                                                             *)
(*                                                                         *)
(* The guest is a recording: it executes at most ReplayLen translation     *)
(* blocks, in any order, and then shuts down.  A block is translated       *)
(* before it first runs; translate_instr decides there, once, which of its *)
(* instructions will call every_instruction for as long as the translation *)
(* is cached.  A GDB client may send any packet whenever its session is    *)
(* not busy with one.                                                      *)
(*                                                                         *)
(* A step is one access to STATE, so the threads interleave between any    *)
(* two accesses.  exit_kernel is written by the emulation thread only, and *)
(* its accesses are part of the neighbouring step of that thread.          *)
(***************************************************************************)
EXTENDS TargetState, FiniteSets

CONSTANTS
  Blocks,     \* translation blocks: nonempty sequences of addresses
  ReplayLen,  \* length of the recording, in blocks
  OnStart,    \* argument on_start: attach a session when the plugin loads
  OnEntry,    \* argument on_entry: attach one at the first user instruction
  Arch        \* the cargo feature: "x86_64", "i386", "arm", "mips", "ppc"

ASSUME StubAssumption ==
  /\ Blocks \subseteq Seq(Addr) \ {<<>>}
  /\ ReplayLen \in Nat
  /\ OnStart \in BOOLEAN
  /\ OnEntry \in BOOLEAN

VARIABLES
  emu,    \* where the emulation thread is
  tb,     \* the block being translated or executed, <<>> between blocks
  at,     \* index in tb of the instruction being executed
  cache,  \* for each block, the answers of translate_instr so far
  left,   \* blocks left in the recording
  dbg,    \* where each debugger thread is
  op      \* what each debugger thread wants the CPU for

emuVars == <<emu, tb, at, cache, left>>
vars == <<stateVars, emuVars, dbg, op>>

\* One debugger thread per place that spawns one; each spawns it at most once.
Sessions == {"start", "entry"}

EmuStates ==
  {"load", "accept_start",                        \* init
   "fetch", "translate", "translate_bp",          \* translate_instr
   "exec", "accept_entry", "check", "check_bp",   \* every_instruction
   "hit", "set_cpu", "set_pc", "signal", "wait_cont", "revoke",
   "down", "exited", "crashed"}                   \* on_shutdown, the end

DbgStates ==
  {"none", "idle", "poll", "take", "use", "resume", "wait",
   "gone", "exited", "panicked"}

\* read_registers also reads STATE.pc and write_registers may write it;
\* get_section_offsets may fail; the other operations on the CPU (read_addrs,
\* write_addrs, handle_monitor_cmd of a line in UTF-8) take it and touch
\* nothing else of STATE.
CpuOps == {"read_registers", "write_registers", "get_section_offsets", "other"}

\* The stop, from the grant of the CPU to its revocation.
Granted == {"set_pc", "signal", "wait_cont", "revoke"}

\* The CPU is there for the debugger threads at a stop and at no other time.
TypeOK ==
  /\ StateTypeOK
  /\ cpu = "some" <=> emu \in Granted
  /\ emu \in EmuStates
  /\ tb \in Blocks \cup {<<>>}
  /\ at \in Nat
  /\ cache \in [Blocks -> Seq(BOOLEAN)]
  /\ left \in 0 .. ReplayLen
  /\ dbg \in [Sessions -> DbgStates]
  /\ op \in [Sessions -> CpuOps \cup {"none"}]

Init ==
  /\ new
  /\ emu = "load"
  /\ tb = <<>>
  /\ at = 0
  /\ cache = [b \in Blocks |-> <<>>]
  /\ left = ReplayLen
  /\ dbg = [s \in Sessions |-> "none"]
  /\ op = [s \in Sessions |-> "none"]

\* The process is still there: a panic in a callback aborts it.
Alive == emu \notin {"exited", "crashed"}

-----------------------------------------------------------------------------
(* init: the plugin is loaded.                                             *)

\* wait_for_gdb returns the connection of a client, and its debugger thread is
\* spawned.
Spawn(s) ==
  /\ dbg[s] = "none"
  /\ dbg' = [dbg EXCEPT ![s] = "idle"]

PluginInit ==
  /\ emu = "load"
  /\ IF OnEntry THEN set_exit_kernel ELSE UNCHANGED exit_kernel
  /\ emu' = IF OnStart THEN "accept_start" ELSE "fetch"
  /\ UNCHANGED <<single_step, breakpoints, cpu, pc, brk, cont,
                 tb, at, cache, left, dbg, op>>

\* Mutant: the session is attached, the guest is not asked to stop.
AcceptOnStartRuns ==
  /\ emu = "accept_start"
  /\ Spawn("start")
  /\ emu' = "fetch"
  /\ UNCHANGED <<stateVars, tb, at, cache, left, op>>

AcceptOnStart ==
  /\ emu = "accept_start"
  /\ start_single_stepping
  /\ Spawn("start")
  /\ emu' = "fetch"
  /\ UNCHANGED <<exit_kernel, breakpoints, cpu, pc, brk, cont,
                 tb, at, cache, left, op>>

\* wait_for_gdb panics: port 4444 cannot be bound, or no connection accepted.
AcceptFails ==
  /\ emu \in {"accept_start", "accept_entry"}
  /\ emu' = "crashed"
  /\ UNCHANGED <<stateVars, tb, at, cache, left, dbg, op>>

-----------------------------------------------------------------------------
(* The emulator between callbacks.                                         *)

Translated(b) == Len(cache[b]) = Len(b)

\* The next block of the recording is looked up in the translation cache.
FetchBlock(b) ==
  /\ emu = "fetch"
  /\ left > 0
  /\ left' = left - 1
  /\ tb' = b
  /\ at' = 1
  /\ emu' = IF Translated(b) THEN "exec" ELSE "translate"
  /\ UNCHANGED <<stateVars, cache, dbg, op>>

\* The emulator drops its translations, as it does when its buffer is full.
FlushCache ==
  /\ emu = "fetch"
  /\ cache' = [b \in Blocks |-> <<>>]
  /\ UNCHANGED <<stateVars, emu, tb, at, left, dbg, op>>

-----------------------------------------------------------------------------
(* translate_instr: is the next instruction of the block instrumented?     *)

NextToTranslate == tb[Len(cache[tb]) + 1]

\* The callback returns `hook` for the next instruction.
TranslateReturns(hook) ==
  /\ cache' = [cache EXCEPT ![tb] = Append(@, hook)]
  /\ emu' = IF Len(cache[tb]) + 1 = Len(tb) THEN "exec" ELSE "translate"
  /\ UNCHANGED <<stateVars, tb, at, left, dbg, op>>

TranslateReadsStep ==
  /\ emu = "translate"
  /\ \/ /\ single_step
        /\ TranslateReturns(TRUE)
     \/ /\ ~single_step
        /\ emu' = "translate_bp"
        /\ UNCHANGED <<stateVars, tb, at, cache, left, dbg, op>>

\* Mutant: translate_instr forgets the entry point.
TranslateForgetsEntry ==
  /\ emu = "translate_bp"
  /\ TranslateReturns(breakpoints_contain(NextToTranslate))

TranslateReadsBreakpoints ==
  /\ emu = "translate_bp"
  /\ TranslateReturns(\/ breakpoints_contain(NextToTranslate)
                      \/ exited_kernel(NextToTranslate))

-----------------------------------------------------------------------------
(* every_instruction, called before each instrumented instruction.         *)

Here == tb[at]
Hooked == cache[tb][at]

\* The current instruction has executed: on to the next one.
Advance ==
  \/ /\ at < Len(tb)
     /\ at' = at + 1
     /\ emu' = "exec"
     /\ UNCHANGED tb
  \/ /\ at = Len(tb)
     /\ at' = 0
     /\ emu' = "fetch"
     /\ tb' = <<>>

\* An instruction that was not instrumented runs without a callback.
ExecPlain ==
  /\ emu = "exec"
  /\ ~Hooked
  /\ Advance
  /\ UNCHANGED <<stateVars, cache, left, dbg, op>>

\* Mutant: the entry is recognised, the guest is not asked to stop.
EnterCallbackRuns ==
  /\ emu = "exec"
  /\ Hooked
  /\ \/ /\ exited_kernel(Here)
        /\ unset_exit_kernel
        /\ emu' = "accept_entry"
     \/ /\ ~exited_kernel(Here)
        /\ emu' = "check"
        /\ UNCHANGED exit_kernel
  /\ UNCHANGED <<single_step, breakpoints, cpu, pc, brk, cont,
                 tb, at, cache, left, dbg, op>>

\* every_instruction begins: is this the first user-space instruction?
EnterCallback ==
  /\ emu = "exec"
  /\ Hooked
  /\ \/ /\ exited_kernel(Here)
        /\ unset_exit_kernel
        /\ start_single_stepping
        /\ emu' = "accept_entry"
     \/ /\ ~exited_kernel(Here)
        /\ emu' = "check"
        /\ UNCHANGED <<exit_kernel, single_step>>
  /\ UNCHANGED <<breakpoints, cpu, pc, brk, cont, tb, at, cache, left, dbg, op>>

AcceptOnEntry ==
  /\ emu = "accept_entry"
  /\ Spawn("entry")
  /\ emu' = "check"
  /\ UNCHANGED <<stateVars, tb, at, cache, left, op>>

CheckStep ==
  /\ emu = "check"
  /\ emu' = IF single_step THEN "hit" ELSE "check_bp"
  /\ UNCHANGED <<stateVars, tb, at, cache, left, dbg, op>>

CheckBreakpoint ==
  /\ emu = "check_bp"
  /\ \/ /\ breakpoints_contain(Here)
        /\ emu' = "hit"
        /\ UNCHANGED <<tb, at>>
     \/ /\ ~breakpoints_contain(Here)
        /\ Advance
  /\ UNCHANGED <<stateVars, cache, left, dbg, op>>

ClearStep ==
  /\ emu = "hit"
  /\ stop_single_stepping
  /\ emu' = "set_cpu"
  /\ UNCHANGED <<exit_kernel, breakpoints, cpu, pc, brk, cont,
                 tb, at, cache, left, dbg, op>>

GrantCpu ==
  /\ emu = "set_cpu"
  /\ \/ /\ set_cpu
        /\ emu' = "set_pc"
     \/ /\ cpu = "poisoned"
        /\ emu' = "crashed"
        /\ UNCHANGED cpu
  /\ UNCHANGED <<single_step, exit_kernel, breakpoints, pc, brk, cont,
                 tb, at, cache, left, dbg, op>>

PublishPc ==
  /\ emu = "set_pc"
  /\ set_pc(Here)
  /\ emu' = "signal"
  /\ UNCHANGED <<single_step, exit_kernel, breakpoints, cpu, brk, cont,
                 tb, at, cache, left, dbg, op>>

\* Mutant: a stop is not announced while an announcement is pending.
SignalBreakOnce ==
  /\ emu = "signal"
  /\ brk' = IF brk = <<>> THEN signal(brk, "Break") ELSE brk
  /\ emu' = "wait_cont"
  /\ UNCHANGED <<single_step, exit_kernel, breakpoints, cpu, pc, cont,
                 tb, at, cache, left, dbg, op>>

SignalBreak ==
  /\ emu = "signal"
  /\ brk' = signal(brk, "Break")
  /\ emu' = "wait_cont"
  /\ UNCHANGED <<single_step, exit_kernel, breakpoints, cpu, pc, cont,
                 tb, at, cache, left, dbg, op>>

WaitForCont ==
  /\ emu = "wait_cont"
  /\ can_receive(cont)
  /\ cont' = after_receive(cont)
  /\ emu' = "revoke"
  /\ UNCHANGED <<single_step, exit_kernel, breakpoints, cpu, pc, brk,
                 tb, at, cache, left, dbg, op>>

\* Mutant: the CPU is not taken back.
RevokeNothing ==
  /\ emu = "revoke"
  /\ Advance
  /\ UNCHANGED <<stateVars, cache, left, dbg, op>>

RevokeCpu ==
  /\ emu = "revoke"
  /\ unset_cpu
  /\ Advance
  /\ UNCHANGED <<single_step, exit_kernel, breakpoints, pc, brk, cont,
                 cache, left, dbg, op>>

-----------------------------------------------------------------------------
(* on_shutdown, when the recording ends or the user stops it, and the end  *)
(* of the process after it.                                                *)

Shutdown ==
  /\ emu = "fetch"
  /\ brk' = signal(brk, "Exit")
  /\ emu' = "down"
  /\ UNCHANGED <<single_step, exit_kernel, breakpoints, cpu, pc, cont,
                 tb, at, cache, left, dbg, op>>

ProcessExit ==
  /\ emu = "down"
  /\ emu' = "exited"
  /\ UNCHANGED <<stateVars, tb, at, cache, left, dbg, op>>

-----------------------------------------------------------------------------
(* A debugger thread: the gdbstub loop reads a packet and calls the        *)
(* PandaTarget method for it.                                              *)

Move(s, from, to) ==
  /\ Alive
  /\ dbg[s] = from
  /\ dbg' = [dbg EXCEPT ![s] = to]
  /\ UNCHANGED emuVars

\* resume(Step) sets the flag first; resume(Continue) signals at once.
ResumeStep(s) ==
  /\ Move(s, "idle", "resume")
  /\ start_single_stepping
  /\ UNCHANGED <<exit_kernel, breakpoints, cpu, pc, brk, cont, op>>

\* Mutant: a release is not sent while one is pending.
SignalContOnce ==
  /\ cont' = IF cont = <<>> THEN signal(cont, "go") ELSE cont
  /\ UNCHANGED <<single_step, exit_kernel, breakpoints, cpu, pc, brk, op>>

SignalCont ==
  /\ cont' = signal(cont, "go")
  /\ UNCHANGED <<single_step, exit_kernel, breakpoints, cpu, pc, brk, op>>

\* Mutant: a step waits without a release.
ResumeStepSilent(s) == Move(s, "resume", "wait") /\ UNCHANGED <<stateVars, op>>

ResumeStepSignals(s) == Move(s, "resume", "wait") /\ SignalCont

\* Mutant: continue comes back at once.
ResumeContinueAsync(s) == Move(s, "idle", "idle") /\ SignalCont

ResumeContinue(s) == Move(s, "idle", "wait") /\ SignalCont

\* brk.wait_for in resume: a stop is reported to the client, an exit ends
\* the session.
WaitForBreak(s) ==
  /\ can_receive(brk)
  /\ Move(s, "wait", IF received(brk) = "Break" THEN "idle" ELSE "exited")
  /\ brk' = after_receive(brk)
  /\ UNCHANGED <<single_step, exit_kernel, breakpoints, cpu, pc, cont, op>>

\* resume with a signal to deliver panics; the session's thread is gone.
ResumeWithSignal(s) ==
  /\ Move(s, "idle", "panicked")
  /\ UNCHANGED <<stateVars, op>>

\* The client detaches, kills or drops the connection: debugger.run returns.
Disconnect(s) ==
  /\ Move(s, "idle", "gone")
  /\ UNCHANGED <<stateVars, op>>

AddSwBreakpoint(s, a) ==
  /\ Move(s, "idle", "idle")
  /\ add_breakpoint(a)
  /\ UNCHANGED <<single_step, exit_kernel, cpu, pc, brk, cont, op>>

RemoveSwBreakpoint(s, a) ==
  /\ Move(s, "idle", "idle")
  /\ remove_breakpoint(a)
  /\ UNCHANGED <<single_step, exit_kernel, cpu, pc, brk, cont, op>>

\* A packet whose handler calls wait_for_cpu.
NeedCpu(s, o) ==
  /\ Move(s, "idle", "poll")
  /\ op' = [op EXCEPT ![s] = o]
  /\ UNCHANGED stateVars

\* The loop of wait_for_cpu ends; while it sees no CPU it sleeps and retries.
SeeCpu(s) ==
  /\ cpu # "none"
  /\ Move(s, "poll", IF cpu_seen THEN "take" ELSE "panicked")
  /\ UNCHANGED <<stateVars, op>>

TakeCpu(s) ==
  /\ cpu_taken
  /\ Move(s, "take", "use")
  /\ UNCHANGED <<stateVars, op>>

\* Mutant: the panic is caught and the session goes on.
TakePanicCaught(s) ==
  /\ ~cpu_taken
  /\ Move(s, "take", "idle")
  /\ IF cpu = "poisoned" THEN UNCHANGED cpu ELSE cpu_take_panics
  /\ UNCHANGED <<single_step, exit_kernel, breakpoints, pc, brk, cont, op>>

TakePanics(s) ==
  /\ ~cpu_taken
  /\ Move(s, "take", "panicked")
  /\ IF cpu = "poisoned" THEN UNCHANGED cpu ELSE cpu_take_panics
  /\ UNCHANGED <<single_step, exit_kernel, breakpoints, pc, brk, cont, op>>

\* The handler has done its work on the CPU and replies.  On i386,
\* write_registers stores the client's program counter in STATE.  A process
\* with fewer than three mappings makes get_section_offsets return the error
\* that ends debugger.run.
UseCpu(s) ==
  /\ \/ Move(s, "use", "idle")
     \/ op[s] = "get_section_offsets" /\ Move(s, "use", "gone")
  /\ op' = [op EXCEPT ![s] = "none"]
  /\ IF op[s] = "write_registers" /\ Arch = "i386"
       THEN \E a \in Addr : set_pc(a)
       ELSE UNCHANGED pc
  /\ UNCHANGED <<single_step, exit_kernel, breakpoints, cpu, brk, cont>>

-----------------------------------------------------------------------------
\* The emulation thread, except what depends on a client or on the buffer.
EmuStep ==
  \/ PluginInit \/ \E b \in Blocks : FetchBlock(b)
  \/ TranslateReadsStep \/ TranslateReadsBreakpoints
  \/ ExecPlain \/ EnterCallback \/ CheckStep \/ CheckBreakpoint
  \/ ClearStep \/ GrantCpu \/ PublishPc \/ SignalBreak
  \/ WaitForCont \/ RevokeCpu
  \/ Shutdown \/ ProcessExit

\* wait_for_gdb comes to an end: a client connects, or it panics.
Connect == AcceptOnStart \/ AcceptOnEntry \/ AcceptFails

\* What a debugger thread does by itself to finish the packet it serves.
Serve(s) ==
  \/ ResumeStepSignals(s) \/ WaitForBreak(s)
  \/ SeeCpu(s) \/ TakeCpu(s) \/ TakePanics(s) \/ UseCpu(s)

\* The client sends the next packet.
Packet(s) ==
  \/ ResumeStep(s) \/ ResumeContinue(s) \/ ResumeWithSignal(s)
  \/ Disconnect(s)
  \/ \E a \in Addr : AddSwBreakpoint(s, a) \/ RemoveSwBreakpoint(s, a)
  \/ \E o \in CpuOps : NeedCpu(s, o)

Next ==
  \/ EmuStep
  \/ Connect
  \/ FlushCache
  \/ \E s \in Sessions : Serve(s) \/ Packet(s)

Spec == Init /\ [][Next]_vars

(* The host schedules both threads.  Nothing makes a client connect or     *)
(* send a packet.                                                          *)
Fairness ==
  /\ WF_vars(EmuStep)
  /\ \A s \in Sessions : WF_vars(Serve(s))

FairSpec == Spec /\ Fairness

=============================================================================
