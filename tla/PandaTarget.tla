---------------------------- MODULE PandaTarget ----------------------------
(***************************************************************************)
(* panda-gdb: what the handlers of a debugger thread do to the guest       *)
(* (src/panda_target.rs, src/monitor_commands), for one client's session.  *)
(* GdbStub says how a handler gets the CPU; here each packet is one step,  *)
(* served while the guest is stopped or by a handler that holds the CPU    *)
(* after it has been taken back.  A stop may end without this client's     *)
(* asking: the other session resumes too, and a resume that is told of an  *)
(* earlier stop has released a later one.                                  *)
(*                                                                         *)
(* A register holds its own name when its value is one of the guest's,     *)
(* Changed when the client has made one up, and Zero when the client was   *)
(* given nothing for it; the program counter holds an address.             *)
(***************************************************************************)
EXTENDS Naturals, Sequences, SequencesExt

CONSTANTS
  Archs,       \* the cargo features considered
  Addr,        \* addresses the guest stops at
  NoAddr,      \* the value 0 of STATE.pc before the first stop
  Virt,        \* addresses of data
  Phys,        \* the RAM behind them
  Unmapped,    \* virt_to_phys of an address that is not mapped
  Lines,       \* the monitor commands the client may type
  MaxU32,      \* the largest label
  MaxU64,      \* the largest number the grammar accepts
  MaxPackets,  \* bound: packets served at one stop, or, while the client
               \* keeps the registers it was given, at several
  Changed, Zero, NoView, NoArg

ASSUME TargetAssumption ==
  /\ Archs \subseteq {"x86_64", "i386", "arm", "mips", "ppc"}
  /\ MaxU32 \in Nat /\ MaxU64 \in Nat /\ MaxPackets \in Nat

-----------------------------------------------------------------------------
(* Registers.                                                              *)

\* The first eight of QEMU's CPUX86State.regs, and of GDB's register list.
EnvOrder == <<"ax", "cx", "dx", "bx", "sp", "bp", "si", "di">>
GdbOrder == <<"ax", "bx", "cx", "dx", "si", "di", "bp", "sp">>

X86Archs == {"i386", "x86_64"}

\* General registers; the ones left out behave like one of these.
General(cpu) ==
  CASE cpu \in X86Archs -> ToSet(EnvOrder)
    [] cpu = "arm" -> {"r0", "sp", "lr"}
    [] OTHER -> {"r1", "r31"}

Other(cpu) ==
  CASE cpu \in X86Archs -> {"flags", "segments", "st", "xmm", "mxcsr"}
    [] cpu = "arm" -> {"cpsr"}
    [] cpu = "mips" -> {"lo", "hi", "cp0", "fpu"}
    [] OTHER -> {"msr"}

Registers(cpu) == General(cpu) \cup Other(cpu)

\* What read_registers copies from the CPU, and write_registers to it.
Reads(cpu) ==
  CASE cpu = "ppc" -> {}
    [] cpu = "mips" -> Registers(cpu) \ {"fpu"}
    [] OTHER -> Registers(cpu)

Writes(cpu) ==
  CASE cpu = "x86_64" -> General(cpu) \cup {"mxcsr"}
    [] cpu = "i386" -> General(cpu) \cup {"flags"}
    [] cpu = "arm" -> Registers(cpu)
    [] OTHER -> {}

\* The register of the CPU behind the one that the client knows as n: on
\* x86_64 the array is copied as it is, elsewhere register by register.
behind(cpu, n) ==
  IF cpu = "x86_64" /\ n \in General(cpu)
    THEN EnvOrder[CHOOSE i \in DOMAIN GdbOrder : GdbOrder[i] = n]
    ELSE n

\* Mutant: a write goes by name where the read goes by position.
written_by_name(cpu, r) == r

\* The register of the client that a write leaves in r.
written_to(cpu, r) == CHOOSE n \in Registers(cpu) : behind(cpu, n) = r

\* Register values: Registers(cpu) and "pc".
Values ==
  {Changed, Zero, NoAddr} \cup Addr \cup UNION {Registers(x) : x \in Archs}

-----------------------------------------------------------------------------
VARIABLES
  arch,      \* the cargo feature the plugin was built with
  guest,     \* "running"; "granted", stopped and the CPU there; "stopped",
             \* and the program counter published as well
  late,      \* a handler has the CPU of a guest that runs
  here,      \* where the guest has stopped
  env,       \* the registers of the CPU, and "pc", where it goes on
  pc,        \* STATE.pc
  page,      \* virtual to physical
  mem,       \* RAM
  taint,     \* the labels of RAM and of registers
  view,      \* the registers as the client believes them to be, or NoView
  known,     \* when it was given them
  moved,     \* at this stop the client has asked for another program counter,
             \* or sent one back that it did not get at it
  left,      \* packets left, up to the bound
  reply      \* the last reply

client == <<view, known, moved>>
vars == <<arch, guest, late, here, env, pc, page, mem, taint, client, left,
          reply>>

Labels == 0 .. MaxU32

\* virt_to_phys, where the taint of an address is kept.
location(t) == IF t \in Virt THEN page[t] ELSE t

Locations == Phys \cup {Unmapped} \cup UNION {General(x) : x \in Archs}

\* No registers; those of another time; those of this stop before its program
\* counter was published; those of this stop.
Knowledge == {"nothing", "old", "early", "current"}

Replies == {"none", "registers", "memory", "OK", "E", "text", "labels", "usage"}

TypeOK ==
  /\ arch \in Archs
  /\ guest \in {"running", "granted", "stopped"}
  /\ late \in BOOLEAN
  /\ here \in Addr
  /\ env \in [Registers(arch) \cup {"pc"} -> Values]
  /\ pc \in Addr \cup {NoAddr}
  /\ page \in [Virt -> Phys \cup {Unmapped}]
  /\ mem \in [Phys -> {"guest", Changed}]
  /\ taint \in [Locations -> SUBSET Labels]
  /\ known \in Knowledge
  /\ known # "nothing" => view \in [Registers(arch) \cup {"pc"} -> Values]
  /\ moved \in BOOLEAN
  /\ left \in 0 .. MaxPackets
  /\ reply \in Replies

\* The registers at a stop, when the guest alone has written them.
untouched(a) ==
  [r \in Registers(arch) \cup {"pc"} |-> IF r = "pc" THEN a ELSE r]

Untainted == [l \in Locations |-> {}]

\* A client has connected, the guest has not stopped yet.
Init ==
  /\ arch \in Archs
  /\ guest = "running"
  /\ late = FALSE
  /\ here \in Addr
  /\ env = untouched(here)
  /\ pc = NoAddr
  /\ page \in [Virt -> Phys \cup {Unmapped}]
  /\ mem = [p \in Phys |-> "guest"]
  /\ taint = Untainted
  /\ view = NoView
  /\ known = "nothing"
  /\ moved = FALSE
  /\ left = MaxPackets
  /\ reply = "none"

-----------------------------------------------------------------------------
(* The guest, and its stops as every_instruction makes them.               *)

\* It stops at address a, and handlers can have the CPU.  Meanwhile it has
\* overwritten its registers.
Grant(a) ==
  /\ guest = "running"
  /\ guest' = "granted"
  /\ late' = FALSE
  /\ here' = a
  /\ env' = untouched(a)
  /\ left' = IF known = "nothing" THEN MaxPackets ELSE left
  /\ moved' = FALSE
  /\ UNCHANGED <<arch, pc, page, mem, taint, view, known, reply>>

\* Mutant: the stop goes on without its program counter.
PublishNothing ==
  /\ guest = "granted"
  /\ guest' = "stopped"
  /\ UNCHANGED <<arch, late, here, env, pc, page, mem, taint, client, left,
                 reply>>

Publish ==
  /\ guest = "granted"
  /\ guest' = "stopped"
  /\ pc' = here
  /\ UNCHANGED <<arch, late, here, env, page, mem, taint, client, left, reply>>

\* The stop has been released and the CPU is taken back, which a handler that
\* holds it does not notice.
Revoke ==
  /\ guest = "stopped"
  /\ guest' = "running"
  /\ late' \in BOOLEAN
  /\ known' = IF known = "nothing" THEN "nothing" ELSE "old"
  /\ UNCHANGED <<arch, here, env, pc, page, mem, taint, view, moved, left,
                 reply>>

\* While it runs it may map a page elsewhere and overwrite what is tainted.
RunsOn ==
  /\ guest = "running"
  /\ \E v \in Virt, p \in Phys \cup {Unmapped} : page' = [page EXCEPT ![v] = p]
  /\ taint' \in {taint, Untainted}
  /\ UNCHANGED <<arch, guest, late, here, env, pc, mem, client, left, reply>>

-----------------------------------------------------------------------------
(* The packets.                                                            *)

Serve(answer) ==
  /\ guest # "running" \/ late
  /\ late' = FALSE
  /\ left > 0
  /\ left' = left - 1
  /\ reply' = answer
  /\ UNCHANGED <<arch, guest, here, page>>

\* resume, until then the client forgets what it knew of the registers.
Resume ==
  /\ ~late
  /\ view' = NoView
  /\ known' = "nothing"
  /\ reply' = "none"
  /\ UNCHANGED <<arch, guest, late, here, env, pc, page, mem, taint, moved,
                 left>>

ReadRegisters ==
  /\ Serve("registers")
  /\ view' = [n \in DOMAIN env |->
                CASE n = "pc" /\ arch # "ppc" -> pc
                  [] n \in Reads(arch) -> env[behind(arch, n)]
                  [] OTHER -> Zero]
  /\ known' = CASE guest = "stopped" -> "current"
                [] guest = "granted" -> "early"
                [] OTHER -> "old"
  /\ UNCHANGED <<env, pc, mem, taint, moved>>

\* The client changes register n and sends all of them; on mips and ppc none
\* is written.
WriteRegisters(n, val) ==
  /\ Serve("OK")
  /\ known # "nothing"
  /\ view' = [view EXCEPT ![n] = val]
  /\ moved' = (moved \/ n = "pc" \/ known # "current")
  /\ env' = [r \in DOMAIN env |->
               CASE r = "pc" -> IF arch \in {"x86_64", "arm"} THEN view'["pc"]
                                                            ELSE env["pc"]
                 [] r \in Writes(arch) -> view'[written_to(arch, r)]
                 [] OTHER -> env[r]]
  /\ pc' = IF arch = "i386" THEN view'["pc"] ELSE pc
  /\ UNCHANGED <<known, mem, taint>>

\* A read of memory fails as a whole if a part of it is not mapped.
ReadAddrs(vs) ==
  /\ Serve(IF \E v \in vs : page[v] = Unmapped THEN "E" ELSE "memory")
  /\ UNCHANGED <<env, pc, mem, taint, client>>

\* A write is acknowledged whether or not there is memory to write to.
WriteAddrs(vs) ==
  /\ Serve("OK")
  /\ mem' = [p \in Phys |->
               IF \E v \in vs : page[v] = p THEN Changed ELSE mem[p]]
  /\ UNCHANGED <<env, pc, taint, client>>

-----------------------------------------------------------------------------
(* handle_monitor_cmd: what the grammar makes of a line, and what it does.  *)

Targets == Virt \cup General(arch)

Asks == {"check_taint", "get_taint"}
Reports == {"help", "meminfo", "procinfo", "proclist", "threadinfo"}

\* The line is a command; a number beyond u64 is not one.
parses(line) ==
  \/ line.name = "taint" /\ line.target \in Targets
       /\ line.number \in 0 .. MaxU64
  \/ line.name \in Asks /\ line.target \in Targets /\ line.number = NoArg
  \/ line.name \in Reports /\ line.target = NoArg /\ line.number = NoArg

\* Mutant: the label keeps its 64 bits.
label_of_wide(number) == number

\* label as u32
label_of(number) == number % (MaxU32 + 1)

quiet == <<env, pc, mem, client>>

\* A line that is not a command.
Refuse(line) ==
  /\ ~parses(line)
  /\ Serve("usage")
  /\ UNCHANGED <<quiet, taint>>

Report(line) ==
  /\ parses(line) /\ line.name \in Reports \cup {"check_taint"}
  /\ Serve("text")
  /\ UNCHANGED <<quiet, taint>>

\* label_ram and label_reg; whether the taint plugin adds the label to the
\* ones that are there is its own affair.
Taint(line) ==
  /\ parses(line) /\ line.name = "taint"
  /\ Serve("text")
  /\ LET l == location(line.target)
         label == label_of(line.number)
     IN  \E labels \in {{label}, taint[l] \cup {label}} :
           taint' = [taint EXCEPT ![l] = labels]
  /\ UNCHANGED quiet

\* check_ram first: get_ram and get_reg are not asked where there is none.
GetTaint(line) ==
  /\ parses(line) /\ line.name = "get_taint"
  /\ Serve(IF taint[location(line.target)] = {} THEN "text" ELSE "labels")
  /\ UNCHANGED <<quiet, taint>>

-----------------------------------------------------------------------------
Next ==
  \/ \E a \in Addr : Grant(a)
  \/ Publish \/ Revoke \/ RunsOn
  \/ Resume
  \/ ReadRegisters
  \/ \E n \in Registers(arch) : WriteRegisters(n, Changed)
  \/ \E a \in Addr : WriteRegisters("pc", a)
  \/ \E vs \in SUBSET Virt \ {{}} : ReadAddrs(vs) \/ WriteAddrs(vs)
  \/ \E line \in Lines :
       Refuse(line) \/ Report(line) \/ Taint(line) \/ GetTaint(line)

Spec == Init /\ [][Next]_vars

=============================================================================
