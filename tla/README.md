# Verification of panda-rs-plugins

TLA+ models, model-checking runs and machine-checked proofs of the two plugins in
this repository:

* **panda-gdb** exposes a PANDA guest as a GDB target. Callbacks on the emulation
  thread stop the guest; debugger threads serve GDB clients. The two sides share
  one global `STATE`.
* **panda-il-trace** records the basic blocks a process executes. A callback stamps
  and queues them, a pool of workers lifts them and finds their branches, and unloading
  collects, sorts, resolves and writes them.

Both are small programs whose difficulty is in the order of things: two threads
that release each other through channels, a look-then-take under two locks, a
decision cached with a translation, registers that come from two sources and go back
to two others, a lock-free pipeline whose end is detected by comparing two counters, a
heuristic over the two instructions before a branch, and a pass over a list that is run
twice.

## 1. Inventory

### panda-gdb

| Part | State | Operations |
|---|---|---|
| `target_state.rs` (`State`, `Signal`) | `single_step`, `exit_kernel`, `breakpoints`, `cpu` (mutex of an option), `pc`, the signals `brk` and `cont` (unbounded channels) | a setter or a test per field; `wait_for_cpu` polls until a CPU is granted; `signal`, `wait_for` |
| `lib.rs`, `connection.rs` | none of their own; the emulator caches what `translate_instr` returned | `init` (may wait for a client), `translate_instr`, `every_instruction` (may wait for a client and for `cont`), `on_shutdown` |
| `panda_target.rs` | none; registers and memory are the guest's, the program counter is partly `STATE.pc` | `resume` (signals `cont`, waits for `brk`), breakpoints, `read_registers`, `write_registers`, `read_addrs`, `write_addrs`, section offsets, monitor commands |
| `monitor_commands/mod.rs`, `parser.rs` | taint labels live in PANDA's taint plugin | parse a line; `taint`, `check_taint`, `get_taint`, reports |
| `proc_info.rs`, `proc_list.rs`, `thread_info.rs`, `memory_map.rs` | none | print what the OSI plugin returns |
| `args.rs` | arguments | `on_start`, `on_entry` are the ones the code uses |

Interaction: emulation thread and debugger threads share `STATE` and nothing else.
A stop is: clear the step flag, grant the CPU, publish the pc, signal `brk`, wait for
`cont`, revoke the CPU. A resume is: (set the step flag,) signal `cont`, wait for `brk`.
In between, a handler that has the CPU reads and writes the guest through it.

What is hard: the interleaving of these two sequences; `brk` announcements that no
resume waits for; a session that goes on using the CPU after the stop; the two locks
of `wait_for_cpu`; decisions cached at translation time; a second session (`on_start`
and `on_entry`) on the same signals and the same port; a panic in a debugger thread that
reaches the emulation thread through the poisoned lock; register files copied by position; a
program counter that is published after the CPU, is read from one place and written to
another, while every register write writes them all; labels of 64 bits for a plugin that has
32.

What makes it correct: no wakeup is lost or made up; the two sides never wait for each
other; every resume comes back; the first stop is where the user asked for it; PANDA
dies only for a cause; what the client has read of the registers at a stop is true as long
as the stop lasts, and changing one of them does not move the guest.

### panda-il-trace

| Part | State | Operations |
|---|---|---|
| `lib.rs` | `BB_NUM` (atomic), `BBQ_IN`, `BBQ_OUT` (lock-free queues), `WORKER_POOL` | `every_basic_block` (filter, stamp, queue), the worker loop, `uninit`, `finalize_bbs` |
| `fil/bb.rs` | a block: `seq_num`, `pc`, `asid`, lifted IL, branch | `new_zero_copy`, `process` (lift with Falcon, `find_branch`) |
| `fil/bbl.rs`, `fil/branch.rs` | a list of blocks | `from` (bin by address space, sort by sequence number, resolve each branch by the next block), `to_branch_json` |

What is hard: workers finish in any order; `uninit` knows that they are done only by
`BBQ_OUT.len()` and the counter; a block that cannot be lifted must still be delivered;
the IL has one branch operation for calls, jumps and returns, and they are told apart by
what the one or two instructions before do to the stack pointer or the link register;
`from` runs twice, the second time over a filtered list; the next *traced* block need
not be the next block.

What makes it correct: each stamped block is delivered exactly once; the wait ends, and
ends only when nothing is under way; the final list is the guest's history; a call is
written as a call and a return as a return.

## 2. Modules

| Module | What it is |
|---|---|
| `Handshake` | abstract: a guest that stops and sessions that resume it, as counts of tokens |
| `TargetState` | each method of `State` and `Signal` as a condition or an assignment |
| `GdbStub` | the emulation thread and the debugger threads, one step per access to `STATE`; EXTENDS `TargetState` |
| `GdbStubProps` | its properties; instantiates `Handshake` with a refinement mapping |
| `PandaTarget` | the guest as the handlers of a debugger thread see and change it, through the phases of its stops and after them: registers per architecture, memory, taint, monitor commands |
| `PandaTargetProps` | its properties |
| `BasicBlockList` | blocks, branches, `from` and `to_branch_json` as operators |
| `FindBranch` | `find_branch` over IL instructions, for the architectures with a stack and those with a link register; EXTENDS `BasicBlockList` |
| `X86Lift` | external: the IL that Falcon gives for x86 calls, jumps, returns, pushes, pops and moves; EXTENDS `FindBranch` |
| `TracePromise` | abstract: numbers are given out, each is collected once, then all are published |
| `IlTrace` | callback, workers and unloading; EXTENDS `X86Lift` |
| `IlTraceProps` | its properties, with the trace the guest's history demands (`Expected`); instantiates `TracePromise` |
| `MCGdbStub`, `MCPandaTarget`, `MCIlTrace` | the constants of the small instances |
| `HandshakeProofs`, `GdbStubProofs`, `FirstStopProofs`, `PandaTargetProofs`, `TraceListProofs`, `FindBranchProofs`, `IlTraceProofs`, `TraceFaithfulProofs` | theorems |

`IlTrace` composes its three lower modules: a recording is made of blocks with code,
`StampBlock` makes jobs of them, a worker applies `process` (and so `find_branch`, with its
assertion) to what it popped, and `Finalize` and `WriteTrace` apply `from` and
`to_branch_json` to what the workers delivered. `GdbStub` and `PandaTarget` are two views of
one debugger thread and are not composed: the first asks when a handler gets the CPU and
takes what it does with it as one step, of which it tells only reads and writes of registers
apart; the second asks what it does. `PandaTarget` takes from `GdbStub` when that can be:
after `set_cpu` and before `set_pc`, after both, and, for a handler that outlives its stop,
while the guest runs again (`ClaimStopRegisters` shows the first and the last).

Operators marked `Mutant:` stand before the definition they would replace. Nothing uses
them: each is a plausible mistake in that code, kept to show that the property listed with
it in `PROJECT.json` notices.

### How GdbStub corresponds to the code

`emu` is the program counter of the emulation thread.

| `emu` | Action | Code (`panda-gdb/src/`) |
|---|---|---|
| `load`, `accept_start` | `PluginInit`, `AcceptOnStart`, `AcceptFails` | `init`, lib.rs:24-44; `wait_for_gdb`, connection.rs:5-10 |
| `fetch` | `FetchBlock`, `FlushCache`, `Shutdown` | the emulator; `on_shutdown`, lib.rs:46 |
| `translate`, `translate_bp` | `TranslateReadsStep`, `TranslateReadsBreakpoints` | `translate_instr`, lib.rs:117: `single_step` first, then the breakpoint lock, then the entry |
| `exec` | `ExecPlain`, `EnterCallback` | an instruction without or with a callback; lib.rs:82-91 |
| `accept_entry` | `AcceptOnEntry`, `AcceptFails` | lib.rs:93-99; connection.rs:5-10 |
| `check`, `check_bp` | `CheckStep`, `CheckBreakpoint` | the condition of lib.rs:101-102, two reads |
| `hit` ... `revoke` | `ClearStep`, `GrantCpu`, `PublishPc`, `SignalBreak`, `WaitForCont`, `RevokeCpu` | lib.rs:103-115, one call each |

`dbg[s]` is where debugger thread `s` is: `idle` (the client may send a packet), `poll`,
`take`, `use` (an operation on the CPU: the loop of `wait_for_cpu`, its second lock, the
handler's work), `resume`, `wait` (in `brk.wait_for`), `gone`, `exited`, `panicked`.
`wait_for_gdb` unwraps three times, for the port, for a connection and for its acceptance:
`AcceptFails` is any of these panics, inside a callback that C called, which ends the process.
`wait_for_cpu` is two steps because the code locks twice. `cpu` is `none`, `some` or
`poisoned`: a panic with the lock held makes every later `lock().unwrap()` panic.

Guest code is abstract: an address is a model value, a block is a sequence of addresses,
a recording is any sequence of at most `ReplayLen` blocks. The emulator may drop all
translations between two blocks.

### How PandaTarget corresponds to the code

`guest` is where `every_instruction` is: `Grant(a)` is the stop at `a` up to `set_cpu`
(lib.rs:106), `Publish` is `set_pc` (lib.rs:107), `Revoke` is `unset_cpu` (lib.rs:113) once
something has released `cont`. What releases it is left open. It need not be this client: the
other session resumes the same guest, and a session whose resume was answered by an older
announcement has released a stop that it has not been told of (`ClaimStopReport`). So a stop
may end between any two packets, and `Resume`, where the client forgets the registers
it knew, may come in any phase. `late` is a handler that had the CPU when it was revoked: it
serves one more packet on the guest that runs, before the session can do anything else.

A packet is one step, with `Serve` as the part they share. A register's value is abstract:
its own name while the guest alone has written it, `Changed` once the client has made a
value up, `Zero` where the client was given none. `env` is the CPU, `pc` is `STATE.pc`,
`NoAddr` (the 0 of its initial value) before the first stop. `view` is what the client was
told, with its own changes: GDB sends all registers to change
one, so `WriteRegisters(n, val)` writes `view` with `n` changed. `known` says when it was told:
at this stop (`current`), at this stop before its pc was published (`early`), or at
another time (`old`). `moved` marks a stop at which the client asked for another program
counter, or sent back one from another time.

`Reads` and `Writes` say
which registers each `cfg(feature)` branch of panda_target.rs:102-258 copies (ppc: none
read; mips and ppc: none written), `behind` which one of the CPU is behind a name, and the
two `CASE`s where the program counter comes from and goes to: read from `STATE` on all but
ppc, written to the CPU on x86_64 and arm, to `STATE` on i386. Memory and taint are kept by
physical page, so that a page that is mapped elsewhere while the guest runs is a page of its
own. A monitor command is a record of name, target and number; `parses` is the grammar, with
numbers beyond `u64` refused, and `label_of` is `label as u32`.

One client's session is modelled. With two sessions, what one of them writes makes the
view of the other one old, and the guarantees below are those of a client that is alone in
writing registers.

### How FindBranch corresponds to the code

An IL instruction has an operation, the scalar it writes, the scalars it reads in order, and
for a branch its target: a constant, a scalar, or neither. `maybe_call`, `maybe_ret` and the
assertion that they are never both true are those of bb.rs:190-249, indices included: the code's
tests `idx > 0` and `idx > 1` before it looks back one and two instructions are `idx > 1` and
`idx > 2` here, since sequences begin at 1.
`resolve_reg_indirect` takes, as the code does, the last instruction of the whole IL block that
computes the scalar, and the first scalar that one reads. An instruction whose target is
neither constant nor scalar ends nothing, but its assertion is still evaluated (`ends_search`).

The heuristics are one-sided, and the model keeps that: a push followed by `jmp reg` looks like
a call, a load through the stack pointer followed by `jmp reg` like a return. The properties
say what they are good for - a call is found as one, a return is found as one - and not the
converse, which is false.

`X86Lift` is the one module about code outside the repository. It has only what
`find_branch` can tell apart, read off bb.rs's own indices and the expectations of the unit
tests in `fil/mod.rs`. The instances have no unconditional `jmp imm`, whose unit test is
commented out there as failing for an unknown reason, and no `ret imm`, whose stack adjustment
nothing in the repository describes.

### How IlTrace corresponds to the code

`main` is where the emulation thread is: `run` (between callbacks), `queue` (a block has
its number and is not queued), `finish` (the wait of `uninit`), `drain`, `write`, `exited`,
`aborted`. Taking the number and pushing are two steps since the workers and,
through them, the queue lengths can change in between. A worker pops in one step and pushes
in another; a block whose `find_branch` fails the assertion aborts the process instead.

`from` is two steps. `Sorted` puts the blocks in the order `Before`: by address space, as the
keys of the `BTreeMap` are, and within one by sequence number, as `sort_unstable_by_key` leaves
each bin; the bins one after the other are the list in that order. (Two blocks never have the
same number; `Before` lets the index decide, so that it is an order on any list.) `Settle` then
resolves each block but the last of its address space by the one after it. A place in the
list is a count of the blocks that are not after it, rather than the result of a sorting
algorithm, which the code leaves to the library; this is also what can be reasoned about.
`to_branch_json` is the same for the indices of the blocks with a branch.

The recorded code of a block is an x86 block (`X86Block`): only its last instruction leaves
it, as PANDA ends a block at the first that does; an operand is what its mode says
(`WellFormed`); and there is a temporary for each instruction. A register of the guest is
none of Falcon's temporaries. Its IL is what the lifter gives for that code, or a failure to
lift.

## 3. Runs

| Run | Instance | Shows | Distinct states |
|---|---|---|---|
| `StubBoth` | i386, `on_start` and `on_entry`, blocks `<<k1>>` and `<<u1,u2>>`, recording of 1 block, fair | `TypeOK`, `NoMutualWait`, `Balanced`, `BacklogBounded`, `CrashHasCause`, `ImplementsHandshake`, `StartStop`, `ResumeReturns` | 372 899 |
| `StubEntry` | x86_64, `on_entry`, the same blocks, recording of 3 | `EntryHooked`, `EntryStop` | 146 413 |
| `Target` | all five architectures, two stop addresses, one data address over one page, 7 monitor lines, labels to 1 of numbers to 3, three packets with one view | `TypeOK`, `ViewTrue`, `NoStrayJump` | 1 287 328 |
| `Trace` | two workers, two address spaces, two addresses, 1076 recordings (below); fair | `TypeOK`, `OnceEach`, `TraceFaithful`, `JsonKeepsTargets`, `DrainComplete`, `CallsAndReturnsTraced`, `UninitEnds`, `ImplementsPromise` | 240 660 |

Eight more runs each check one thing the code's comments or READMEs say and the code does
not do, and find the behaviour that shows it (section 6).

The type invariant of `GdbStub` says more than types: the CPU is there for the debugger
threads from `set_cpu` to `unset_cpu` of a stop and at no other time.

**Bounds, and why they are enough.**

* `ReplayLen` is the only bound on `GdbStub`: with it the guest is finite and so is
  everything else, since a session may add at most one token per resume. In `StubBoth` one
  block of one or of two instructions gives up to two stops for two sessions, enough for
  each to consume the other's announcement, for a stop inside a block and for one at the
  end of the recording. `StubEntry` has three blocks, which let a block run from the cache
  after a kernel block before the entry.
* `MaxPackets` bounds the packets at one stop and, while the client keeps the registers it
  was given, those at several stops together; a resume or a client that knows nothing starts
  anew, so the stops themselves are not bounded. Three are a read, a write and a read again,
  or two writes after a read, each before or after the pc is published, at this stop or a
  later one, or by a handler that outlives its stop. In between, pages are mapped elsewhere and
  taint is overwritten. `MaxU32 = 1` and `MaxU64 = 3` have a label that fits, one that
  wraps around and a number that is none.
* Two workers are enough for any two blocks to be overtaken, and four blocks for two bins of
  two or one bin of four. `Trace` has all recordings of four blocks of 5 kinds; all of two
  blocks of 8 kinds, with kernel, library and unreadable blocks among them; every x86 block of
  at most two instructions out of 5 (stack and register traffic) before each of 11 calls,
  jumps and returns, alone; and 16 IL blocks of mips with what can come before a branch.

**Fairness.** The host's scheduler runs every thread that is not blocked: weak fairness on
the emulation thread's steps (`EmuStep`), on each debugger thread's service of the packet
it has (`Serve`), on the unloading (`Callback`) and on each worker, which polls in a loop.
There is none on what the user does: no client has to send a packet, the user
need not quit, and the translation buffer need not fill. `ResumeReturns` does not need
clients' packets because the recording ends; it has the hypothesis that a wait for a client
comes to an end (`ClientsConnect`), with a client or with a panic, because with both
arguments `every_instruction` waits for the second client while the first one waits for its
stop, by design.

**Deadlock.** `CHECK_DEADLOCK FALSE` in the runs of `GdbStub` and `IlTrace`: a recording ends,
PANDA exits, and a client that detaches, loses its connection or makes its thread panic leaves
the guest parked in `cont.wait_for` for ever. `NoMutualWait` is the deadlock property that should
hold: the two sides never wait for *each other*. `Target` is checked for deadlock.

**Assumptions about code outside the repository.** gdbstub calls the target's methods
one at a time and answers `?` without resuming; `on_shutdown` and `uninit` run on the
emulation thread between blocks, so no callback is active; a panic in an `extern "C"`
callback, or in a task of the worker pool, ends the process; PANDA keeps what `translate_instr` returned for as long as the
translation is cached; QEMU's and gdbstub's register orders (`EnvOrder`, `GdbOrder`); whether
the taint plugin adds a label or replaces the ones there (`Taint` allows both).

## 4. Theorems

All proofs are for every value of the constants that satisfies the named assumptions
(`AddrAssumption`, `StubAssumption`, `TargetAssumption`, `PcAssumption`, `ScalarAssumption`,
`TempAssumption`, `TraceAssumption`), which TLC evaluates in the runs.

* **The handshake** (`HandshakeProofs`). `HInv` = types and `Balanced`: announcements plus
  releases under way are exactly what the waiting sessions, the stopped guest and the exit
  account for. It is inductive for any finite set of sessions. `NoMutualWait` is not, and
  follows from it by arithmetic: if the guest is stopped with no release and a session waits
  with no announcement, the balance has one token too few.
* **The stub** (`GdbStubProofs`). `TypeCorrect`; then `StubImplementsHandshake`: each action
  of `GdbStub` maps to a step of `Handshake` or to a stutter, one lemma per group of actions,
  under the type invariant and `InBlock` (inside a block the thread is at one of its
  instructions). Through the
  instance `P == INSTANCE HandshakeProofs WITH ...`, the invariant of the abstract module
  becomes `StubBalanced`, `StubNeverWaitsMutually` and `StubBacklogBounded`.
* **The first stop** (`FirstStopProofs`). `FirstInv` adds five facts to the types.
  `CacheInv`: translations are complete when their block executes, and there are none before
  the plugin is loaded. `EntryHooked`: while the entry is awaited, each instruction it could
  be is instrumented in each translation. `EntrySeen`: a callback past its first test is not
  at the entry any more. `EntryPending` and `StartPending`: the stop that is owed has
  happened, or the thread is on the way to it with the step flag up, which only its own
  `ClearStep` takes down. `EntryHooked` alone is not inductive: a complete translation is
  needed to know that an instruction without a callback was answered for, and an empty cache
  to know that nothing was answered before `exit_kernel` was set. `EntryAlwaysHooked`,
  `StopsAtEntry` and `StopsAtStart` (action properties) follow. `CrashesHaveCause` is an action property too: apart
  from a failed wait for a client (connection.rs:5-10), which may happen whenever one is
  waited for, a callback panics only after a handler has panicked between the two locks
  of `wait_for_cpu`, and never at the first stop. Its invariant `CrashInv` says that a handler
  about to take the CPU has seen it at a stop that has published its pc or is about to, so
  that the one that finds it gone has outlived a stop; and that a poisoned lock has a
  panicked handler behind it, which stays panicked.
* **The stopped guest** (`PandaTargetProofs`). `TypeCorrect`, which includes that a label is cut
  to the plugin's width. `ViewAlwaysTrue` needs that a view counts as one of this stop only
  while the stop lasts (`KnownWhen`), and that the position-by-position copy of x86_64 is a bijection that the write
  inverts (`BehindBijective`, `WrittenAndRead`): names are wrong but stay consistent.
  `GuestGoesOnWhereItStopped` (`NoStrayJump`) is about a client that asks for no other program
  counter and writes back only what it read at this stop after `set_pc`. Everything else is
  excused by `moved`, and must be: a view that was read between `set_cpu` and `set_pc`, or at an
  earlier stop, has that stop's program counter in it, and on x86_64 and arm the next write of
  any register puts it in the CPU. The proof needs `JumpInv`: once the stop is published,
  `STATE.pc` and the pc of a current view are the address of the stop until the client asks
  for another, since the pc in `view` comes from there and goes back with each write.
* **The branch search** (`FindBranchProofs`), about operators. `FindBranchType`: a
  translation gives a branch, none, or the failed assertion. `StackAssertionHolds`: on i386 and
  x86_64 the assertion cannot fail, since `maybe_ret` is only asked for what is no call; on the
  link-register architectures it can, and `Trace` aborts there. `ReturnFound` and `CallFound`:
  whatever instructions that do not branch come before, a return or a call is found as one,
  a call with its callee or the register its address comes from, because the two instructions
  that decide (`EndsInThree`) and the load of a fresh temporary are its own. `EndingFound` is
  the same for the code of a whole block: `x86_lift` of a well-formed block is instructions that
  do not branch, then those of its last one (`LiftedBlock`). `FlattenSeq` is a recursive
  function of the library, and what it returns is shown by a least counterexample
  (`FlattenExists`, `FlattenMadeOf`, `FlattenLast`): a number that has none below it.
* **The trace list** (`TraceListProofs`), about operators, for any list of blocks.
  `SortedInOrder`: the places of the given blocks are the numbers from 1, each once, since
  `Place` grows along `Before` and none is left out (`PlaceMonotone`, `EachPlaceOnce`); so
  `Sorted` returns each block once and in order, as many as it was given, which is the
  assertion `bbl.rs` ends `from` with. `SettledByNext`: a branch is resolved by the first later
  block of its address space; blocks of one address space are neighbours because the order
  puts that first. `SecondPass`: `from` over some of the blocks of a settled list changes nothing
  but `taken`. A sentinel that is left belongs to the last block of an address space, and that
  one is again the last or is gone.
* **The pipeline** (`IlTraceProofs`). `TypeInv` adds to the types that a block is in the
  callback's hands exactly between its stamp and its push (`InHand`). `PipeInv` adds
  `Counted`, the counter is the number of blocks in the five places one can be, and
  `DrainComplete`. `Counted` is what makes `Len(BBQ_OUT) = BB_NUM` mean that the other places
  are empty (`FinishLiftsComplete`); after it no step of a worker is enabled, so
  `DrainComplete` stays. `WholeInv` adds that the numbers in those places are all those below
  the counter (`AllInPlay`) and that a block is collected only after the wait (`Gathered`).
  `BlocksCounted`, `NothingLeftBehind` and `NothingLostOrDoubled` (`OnceEach`) follow, for any finite set of
  workers and all recordings. Finiteness of `Workers` is needed: the busy workers are counted.
* **The promise** (`IlTraceProofs`). `PipelineKeepsPromise`: `IlTrace` implements
  `TracePromise` with the collected numbers as the image of `bbs`. The step that needs thought is
  `DrainOut`: the number it adds must be one that was not collected (`CollectedOnce`). As many
  blocks as numbers are left, each number is there, so none is there twice: a pigeonhole over
  `OnceEach`.
* **The history** (`TraceFaithfulProofs`). `HistoryInv` is `WholeInv` with two more facts
  (`HistoryKept`). `FromGuest`: the counter is the number of traced blocks so far, and each
  block anywhere in the pipeline is a traced block of the recording under its own stamp,
  unlifted or with what `process` makes of its code. `FromList`: the final list is `from` of the
  collected blocks and the file is `to_branch_json` of that list. `TraceFaithful` alone says
  nothing before the end, so it is not inductive; `FromGuest` alone does not exclude that a
  block is missing, which needs `OnceEach` (all numbers are there) and the end of the wait
  (they are all in `bbs`). `TraceIsHistory` then matches the sorted list with the
  recording: stamps grow with the index in the recording, so the next block in the list is the
  next traced one in the address space. `SecondPassHarmless` (`JsonKeepsTargets`) is `SecondPass`
  applied to that list, and `CallsAndReturnsInFile` (`CallsAndReturnsTraced`) follows a block from
  its code (`EndingFound`) through the list into the file, resolved or not: neither pass
  changes what its branch says it is.

**Only model-checked.** Liveness (`ResumeReturns`, `UninitEnds`) and `ENABLED`, which are out of
the prover's reach. Every other property of the passing runs is a theorem. Induction
over data is out of reach too; where the model computes over a list, the proofs count
(`Place`) or take a least counterexample instead. `final` and `json` are not in `TypeOK`: that
they are lists of blocks follows from `FromList` (`FinalIs`, `JsonIs`).

## 5. Not modelled

* The reports that print what OSI returns (`proc_info.rs`, `proc_list.rs`, `thread_info.rs`,
  `memory_map.rs`): they keep no state and change none; `PandaTarget` has a `Report` that leaves
  the guest alone. `get_section_offsets` reads the CPU and nothing else: in `GdbStub` it is one
  of the operations that need it.
* Texts of replies and error messages, command-line arguments that nothing reads, scripts,
  packaging, debug output, `site_pc`, `icount` and process ids of a block: payload or pure I/O.
* The pid functions of `State`: nothing calls them.
* A block's bytes: they are read after it has run, so self-modifying code is lifted from the
  wrong bytes; what lifting gives is an input of the model.
* A monitor line that is not UTF-8: it asks for no CPU and changes nothing. What a label that
  does not fit should do: it wraps around (`label_of`), and no document says otherwise.
* A connection that is lost in the middle of a packet `PandaTarget` serves: a packet is one step.
* The reply to a client after the process has announced its exit, and a session that polls for
  a CPU after the shutdown: gdbstub's, and the end of the process.

## 6. Where the code and its words differ

| Run | Words | Behaviour |
|---|---|---|
| `ClaimStopReport` | README: `c` and `si` work | The stop that attaches a session is announced in `brk`, where no resume waits yet. The first resume consumes it and reports a stop while the guest runs on; reports stay one early. |
| `ClaimStopRegisters` | lib.rs:105 "Pass the CPU to the debugging thread", lib.rs:112 "Revoke the CPU from the debugging thread" | The CPU is granted before the pc is published: a waiting `read_registers` sees the previous one, which the next register write puts in the CPU on x86_64 and arm (`NoStrayJump` excuses it). And `wait_for_cpu` returned a `'static` reference: a handler that has it goes on after the revocation. |
| `ClaimCpuLock` | README: `x` works | `unset_cpu` between the two locks of `wait_for_cpu` makes the second unwrap panic and poisons the lock; the next stop takes PANDA down. |
| `ClaimStopPoints` | lib.rs:119 "Only instrument the instruction if we might break on it"; README: `b` and `si` work | A breakpoint in a block that is translated already is passed over while the translation is cached, and a step after a breakpoint runs through the rest of the block, which was translated without instrumentation. |
| `ClaimRegisters` | README: the output of `info reg` | On x86_64 QEMU's array of general registers is taken for GDB's, which has another order: only `rax` is shown under its own name. |
| `ClaimFarCall` | README: calls through "a memory location" are supported | A `call [rip+...]` takes its address from no register: with a block after it, it is in the file as a direct jump to that block, taken. |
| `ClaimTaken` | bbl.rs:18 "Conditional jump taken or not taken" | `to_branch_json` runs `from` again on a filtered list; a jump is compared with a later block and `taken` changes. |
| `ClaimDestination` | README: "resolves the targets of all direct/indirect jumps/calls and returns" | Without `trace_lib` a call into a library is resolved to where the library returns. |

These runs, and the properties that hold, say the same about the signals: the *number* of
tokens is always right (`Balanced`), so nothing hangs; *which* stop a token announces is not.
And about the registers: within one stop values are consistent between reads and writes
(`ViewTrue`), so that writing one register leaves the others as they are; *which* register they
are shown for is not right on x86_64. Beyond one stop nothing of this holds: registers that
were read at an earlier stop and are written at this one replace the guest's own, and
on x86_64 and arm its program counter with them.

One asymmetry has no run because no text promises otherwise: on i386, x86_64 and arm a client
that sets the program counter finds it where it should be in only one of the two places
(`STATE.pc` on i386, the CPU on the others). Read back on x86_64 or arm, it is the old one, and
the next register write undoes the jump; on i386 the guest never hears of it.

## 7. Plan

Done: the shared state and the handshake; the pipeline and its promise; the branch search with
the lifter it reads; registers, memory and monitor commands. What could be added:

1. `GdbStub` and `PandaTarget` in one composition, with two clients that write registers, so
   that the ends of a stop and the late handlers that `PandaTarget` allows are the ones that
   `GdbStub` has; it multiplies two state spaces that are near the limit.
2. Theorems for the link-register architectures: which branches a translation without a link
   in a delay slot leads to.
3. A property for the step flag that a client sets between a stop's check and
   `stop_single_stepping`, once it can be told from the missed step of `ClaimStopPoints`.

## 8. Running the checks

In this directory, `tlc -workers 2 -config StubBoth.cfg MCGdbStub.tla` (or another
configuration of section 3 or 6; `Trace`, `ClaimTaken`, `ClaimFarCall` and `ClaimDestination` go with
`MCIlTrace.tla`, `Target` and `ClaimRegisters` with `MCPandaTarget.tla`) and
`tlapm GdbStubProofs.tla` (or another module of section 4).
`PROJECT.json` lists the runs, the mutants, the lines each definition models, the hazards
and the theorems.
