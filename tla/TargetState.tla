---------------------------- MODULE TargetState ----------------------------
(***************************************************************************)
(* The STATE singleton of panda-gdb (src/target_state.rs): the flags, the  *)
(* breakpoint set, the granted CPU, the published program counter and the  *)
(* two signals that the emulation thread and the debugger threads share.   *)
(* Each definition is one method, as a condition on the state or as the    *)
(* assignment it makes; GdbStub says which thread calls it and when.       *)
(***************************************************************************)
EXTENDS Naturals, Sequences

CONSTANTS
  Addr,      \* guest addresses
  UserText,  \* the ones in the range exited_kernel looks for
  NoAddr     \* the value 0 of State.pc before the first stop

ASSUME AddrAssumption ==
  /\ UserText \subseteq Addr
  /\ NoAddr \notin Addr

VARIABLES
  single_step,  \* stop at the next instruction that is instrumented
  exit_kernel,  \* still waiting for the first user-space instruction
  breakpoints,  \* set of addresses
  cpu,          \* the Mutex<Option<..>>: "none", "some" or "poisoned"
  pc,           \* the address published with the last stop
  brk,          \* Signal<BreakStatus>: emulation thread to debugger threads
  cont          \* Signal<()>: debugger threads to emulation thread

stateVars == <<single_step, exit_kernel, breakpoints, cpu, pc, brk, cont>>

BreakStatus == {"Break", "Exit"}

StateTypeOK ==
  /\ single_step \in BOOLEAN
  /\ exit_kernel \in BOOLEAN
  /\ breakpoints \subseteq Addr
  /\ cpu \in {"none", "some", "poisoned"}
  /\ pc \in Addr \cup {NoAddr}
  /\ brk \in Seq(BreakStatus)
  /\ cont \in Seq({"go"})

\* State::new
new ==
  /\ single_step = FALSE
  /\ exit_kernel = FALSE
  /\ breakpoints = {}
  /\ cpu = "none"
  /\ pc = NoAddr
  /\ brk = <<>>
  /\ cont = <<>>

-----------------------------------------------------------------------------
(* The flags and the breakpoints.                                          *)

breakpoints_contain(a) == a \in breakpoints

exited_kernel(a) == exit_kernel /\ a \in UserText

set_exit_kernel == exit_kernel' = TRUE

unset_exit_kernel == exit_kernel' = FALSE

start_single_stepping == single_step' = TRUE

stop_single_stepping == single_step' = FALSE

add_breakpoint(a) == breakpoints' = breakpoints \cup {a}

remove_breakpoint(a) == breakpoints' = breakpoints \ {a}

set_pc(a) == pc' = a

-----------------------------------------------------------------------------
(* The CPU grant.  Every use of the mutex unwraps the lock, so once a      *)
(* thread has panicked while it held the lock each later call panics too.  *)

\* set_cpu and unset_cpu, when the lock is not poisoned.
set_cpu == cpu # "poisoned" /\ cpu' = "some"

unset_cpu == cpu # "poisoned" /\ cpu' = "none"

\* The two reads of wait_for_cpu: the loop takes the lock to look for a CPU
\* and drops it, and a second lock reads the CPU and unwraps it.
cpu_seen == cpu = "some"

cpu_taken == cpu = "some"

\* The second unwrap finds no CPU: it panics with the lock held.
cpu_take_panics == cpu = "none" /\ cpu' = "poisoned"

-----------------------------------------------------------------------------
(* Signal<T>: a channel that is never closed, since STATE owns both ends.  *)

signal(queue, x) == Append(queue, x)

can_receive(queue) == queue # <<>>

received(queue) == Head(queue)

\* Mutant: a receive drains the channel.
after_receive_all(queue) == SubSeq(queue, 1, 0)

after_receive(queue) == Tail(queue)

=============================================================================
