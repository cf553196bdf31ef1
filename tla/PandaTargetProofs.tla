------------------------- MODULE PandaTargetProofs -------------------------
(***************************************************************************)
(* Theorems of the handlers on the guest, for every set of addresses, of   *)
(* monitor commands and of architectures, and however many packets a stop  *)
(* lasts.                                                                  *)
(***************************************************************************)
EXTENDS PandaTargetProps, TLAPS

-----------------------------------------------------------------------------
(* The registers.                                                          *)

LEMMA X86General ==
  ToSet(EnvOrder) = {"ax", "cx", "dx", "bx", "sp", "bp", "si", "di"}
  BY DEF ToSet, EnvOrder

\* Copied by position, each register is known by the name of another one or
\* by its own, and no two by the same.
LEMMA BehindX86_64 ==
  /\ behind("x86_64", "ax") = "ax" /\ behind("x86_64", "bx") = "cx"
  /\ behind("x86_64", "cx") = "dx" /\ behind("x86_64", "dx") = "bx"
  /\ behind("x86_64", "si") = "sp" /\ behind("x86_64", "di") = "bp"
  /\ behind("x86_64", "bp") = "si" /\ behind("x86_64", "sp") = "di"
  <1>1. DOMAIN GdbOrder = 1 .. 8
    BY DEF GdbOrder
  <1>2. \A n \in ToSet(EnvOrder) :
          behind("x86_64", n)
            = EnvOrder[CHOOSE i \in 1 .. 8 : GdbOrder[i] = n]
    BY <1>1 DEF behind, General, X86Archs
  <1>3. ASSUME NEW k \in 1 .. 8
        PROVE  (CHOOSE i \in 1 .. 8 : GdbOrder[i] = GdbOrder[k]) = k
    <2>1. \A i \in 1 .. 8 : GdbOrder[i] = GdbOrder[k] => i = k
      BY DEF GdbOrder
    <2>2. QED
      BY <2>1
  <1>4. \A k \in 1 .. 8 : behind("x86_64", GdbOrder[k]) = EnvOrder[k]
    <2> TAKE k \in 1 .. 8
    <2>1. GdbOrder[k] \in ToSet(EnvOrder)
      BY X86General DEF GdbOrder
    <2>2. QED
      BY <1>2, <1>3, <2>1
  <1>5. QED
    BY <1>4 DEF GdbOrder, EnvOrder

\* The registers of the client and of the CPU correspond one to one.
LEMMA BehindBijective ==
  ASSUME NEW cpu
  PROVE  /\ \A n \in General(cpu) : behind(cpu, n) \in General(cpu)
         /\ \A n \in Registers(cpu) : behind(cpu, n) \in Registers(cpu)
         /\ \A r \in Registers(cpu) : \E n \in Registers(cpu) : behind(cpu, n) = r
         /\ \A n, o \in Registers(cpu) : behind(cpu, n) = behind(cpu, o) => n = o
  <1>1. CASE cpu = "x86_64"
    <2> DEFINE G == {"ax", "cx", "dx", "bx", "sp", "bp", "si", "di"}
               O == {"flags", "segments", "st", "xmm", "mxcsr"}
    <2>1. General(cpu) = G /\ Other(cpu) = O /\ Registers(cpu) = G \cup O
      BY <1>1, X86General DEF General, Other, Registers, X86Archs
    <2>2. \A n \in O : behind(cpu, n) = n
      BY <1>1, <2>1 DEF behind
    <2>3. QED
      BY <1>1, <2>1, <2>2, BehindX86_64
  <1>2. CASE cpu # "x86_64"
    <2>1. \A n : behind(cpu, n) = n
      BY <1>2 DEF behind
    <2>2. QED
      BY <2>1 DEF Registers
  <1>3. QED
    BY <1>1, <1>2

LEMMA WrittenTo ==
  ASSUME NEW cpu
  PROVE  /\ \A r \in Registers(cpu) : written_to(cpu, r) \in Registers(cpu)
         /\ \A n \in Registers(cpu) : written_to(cpu, behind(cpu, n)) = n
  BY BehindBijective DEF written_to

\* Where a general register is written all are, and they are read as well.
LEMMA WrittenAndRead ==
  ASSUME NEW cpu \in Archs
  PROVE  /\ Reads(cpu) \subseteq Registers(cpu)
         /\ Writes(cpu) \subseteq Registers(cpu)
         /\ Writes(cpu) # {} =>
              General(cpu) \subseteq Reads(cpu) \cap Writes(cpu)
         /\ "pc" \notin Registers(cpu)
  <1>1. cpu \in {"x86_64", "i386", "arm", "mips", "ppc"}
    BY TargetAssumption
  <1>2. QED
    BY <1>1, X86General DEF Reads, Writes, Registers, General, Other, X86Archs

-----------------------------------------------------------------------------
(* Types, with the program counters' own.                                  *)

Names == Registers(arch) \cup {"pc"}

\* The program counters are addresses, or STATE.pc's first value; on ppc the
\* client is sent none.
Pcs == Addr \cup {NoAddr}

PcTyped ==
  /\ env["pc"] \in Pcs
  /\ known # "nothing" /\ arch # "ppc" => view["pc"] \in Pcs

TypeInv == TypeOK /\ PcTyped

LEMMA ValuesOfRegisters ==
  ASSUME NEW cpu \in Archs
  PROVE  /\ Registers(cpu) \subseteq Values
         /\ General(cpu) \subseteq Locations
         /\ Pcs \subseteq Values
         /\ Changed \in Values /\ Zero \in Values
  BY DEF Values, Locations, Pcs

LEMMA UntouchedType ==
  ASSUME arch \in Archs, NEW a \in Addr
  PROVE  /\ untouched(a) \in [Names -> Values]
         /\ untouched(a)["pc"] = a
  BY ValuesOfRegisters DEF untouched, Names, Pcs

LEMMA TypeInvInit == Init => TypeInv
  <1> SUFFICES ASSUME Init
               PROVE  TypeInv
    OBVIOUS
  <1>1. env \in [Names -> Values] /\ env["pc"] \in Pcs
    BY UntouchedType DEF Init, Pcs
  <1>2. taint \in [Locations -> SUBSET Labels]
    BY DEF Init, Untainted
  <1>3. MaxPackets \in 0 .. MaxPackets
    BY TargetAssumption
  <1>4. QED
    BY <1>1, <1>2, <1>3 DEF Init, TypeInv, TypeOK, PcTyped, Names, Replies,
                           Knowledge

LEMMA GuestType ==
  ASSUME TypeInv,
         RunsOn \/ Resume \/ Publish \/ Revoke \/ \E a \in Addr : Grant(a)
  PROVE  TypeInv'
  <1> USE DEF TypeInv, TypeOK, PcTyped, client
  <1>1. CASE RunsOn
    BY <1>1 DEF RunsOn, Untainted
  <1>2. CASE Resume
    BY <1>2 DEF Resume, Replies, Knowledge
  <1>3. CASE Publish
    BY <1>3 DEF Publish
  <1>4. CASE Revoke
    BY <1>4 DEF Revoke, Knowledge
  <1>5. ASSUME NEW a \in Addr, Grant(a)
        PROVE  TypeInv'
    <2>1. env' \in [Names -> Values] /\ env'["pc"] \in Pcs
      BY <1>5, UntouchedType DEF Grant, Pcs
    <2>2. MaxPackets \in 0 .. MaxPackets
      BY TargetAssumption
    <2>3. QED
      BY <1>5, <2>1, <2>2 DEF Grant, Names
  <1>6. QED
    BY <1>1, <1>2, <1>3, <1>4, <1>5

LEMMA ServeType ==
  ASSUME TypeInv, NEW answer \in Replies, Serve(answer)
  PROVE  /\ guest' \in {"running", "granted", "stopped"} /\ late' \in BOOLEAN
         /\ left' \in 0 .. MaxPackets /\ reply' \in Replies
         /\ arch' \in Archs /\ here' \in Addr
         /\ page' \in [Virt -> Phys \cup {Unmapped}]
  <1>1. left' \in 0 .. MaxPackets
    BY TargetAssumption DEF TypeInv, TypeOK, Serve
  <1>2. QED
    BY <1>1 DEF TypeInv, TypeOK, Serve

LEMMA ReadRegistersType ==
  ASSUME TypeInv, ReadRegisters
  PROVE  TypeInv'
  <1>1. arch \in Archs /\ pc \in Pcs /\ env \in [Names -> Values]
    BY DEF TypeInv, TypeOK, Names, Pcs
  <1>2. /\ Registers(arch) \subseteq Values /\ Pcs \subseteq Values
        /\ Zero \in Values /\ Reads(arch) \subseteq Registers(arch)
        /\ "pc" \notin Registers(arch)
        /\ \A n \in Registers(arch) : behind(arch, n) \in Registers(arch)
    BY <1>1, ValuesOfRegisters, WrittenAndRead, BehindBijective
  <1>3. view' \in [Names -> Values]
    <2>1. DOMAIN env = Names
      BY <1>1
    <2>2. \A n \in Reads(arch) : env[behind(arch, n)] \in Values
      BY <1>1, <1>2 DEF Names
    <2>3. QED
      BY <1>1, <1>2, <2>1, <2>2 DEF ReadRegisters, Names
  <1>4. arch # "ppc" => view'["pc"] = pc
    BY <1>1, <1>2 DEF ReadRegisters, Names
  <1>5. "registers" \in Replies /\ known' \in Knowledge
    BY DEF Replies, ReadRegisters, Knowledge
  <1>6. QED
    BY <1>1, <1>3, <1>4, <1>5, ServeType
       DEF ReadRegisters, Serve, TypeInv, TypeOK, PcTyped, Names, Pcs

\* A new value for a register, or an address for the program counter.
NewValue(n, val) ==
  \/ n \in Registers(arch) /\ val = Changed
  \/ n = "pc" /\ val \in Addr

LEMMA WriteRegistersType ==
  ASSUME TypeInv, NEW n, NEW val, NewValue(n, val), WriteRegisters(n, val)
  PROVE  TypeInv'
  <1>1. /\ arch \in Archs /\ pc \in Pcs /\ env \in [Names -> Values]
        /\ env["pc"] \in Pcs
    BY DEF TypeInv, TypeOK, PcTyped, Names, Pcs
  <1>2. view \in [Names -> Values] /\ (arch # "ppc" => view["pc"] \in Pcs)
    BY DEF TypeInv, TypeOK, PcTyped, WriteRegisters, Names
  <1>3. /\ Pcs \subseteq Values /\ Changed \in Values /\ Addr \subseteq Pcs
        /\ Writes(arch) \subseteq Registers(arch) /\ "pc" \notin Registers(arch)
        /\ \A r \in Registers(arch) : written_to(arch, r) \in Registers(arch)
    BY <1>1, ValuesOfRegisters, WrittenAndRead, WrittenTo DEF Pcs
  <1>4. view' = [view EXCEPT ![n] = val]
    BY DEF WriteRegisters
  <1>5. view' \in [Names -> Values] /\ (arch # "ppc" => view'["pc"] \in Pcs)
    BY <1>2, <1>3, <1>4 DEF NewValue, Names
  <1>6. env' \in [Names -> Values] /\ env'["pc"] \in Pcs
    <2>1. DOMAIN env = Names
      BY <1>1
    <2>2. \A r \in Writes(arch) : view'[written_to(arch, r)] \in Values
      BY <1>3, <1>5 DEF Names
    <2>3. QED
      BY <1>1, <1>3, <1>5, <2>1, <2>2 DEF WriteRegisters, Names
  <1>7. pc' \in Pcs
    BY <1>1, <1>5 DEF WriteRegisters
  <1>8. "OK" \in Replies /\ moved' \in BOOLEAN
    BY DEF Replies, WriteRegisters
  <1>9. QED
    BY <1>5, <1>6, <1>7, <1>8, ServeType
       DEF WriteRegisters, Serve, TypeInv, TypeOK, PcTyped, Names, Pcs

LEMMA MemoryType ==
  ASSUME TypeInv, NEW vs, ReadAddrs(vs) \/ WriteAddrs(vs)
  PROVE  TypeInv'
  <1> USE DEF TypeInv, TypeOK, PcTyped, client, Replies
  <1>1. CASE ReadAddrs(vs)
    <2> DEFINE answer == IF \E v \in vs : page[v] = Unmapped THEN "E" ELSE "memory"
    <2>1. answer \in Replies /\ Serve(answer)
      BY <1>1 DEF ReadAddrs
    <2> HIDE DEF answer
    <2>2. QED
      BY <1>1, <2>1, ServeType DEF ReadAddrs, Serve
  <1>2. CASE WriteAddrs(vs)
    BY <1>2, ServeType DEF WriteAddrs, Serve
  <1>3. QED
    BY <1>1, <1>2

LEMMA CommandType ==
  ASSUME TypeInv, NEW line,
         Refuse(line) \/ Report(line) \/ Taint(line) \/ GetTaint(line)
  PROVE  TypeInv'
  <1> USE DEF TypeInv, TypeOK, PcTyped, client, quiet, Replies
  <1>1. CASE Refuse(line)
    BY <1>1, ServeType DEF Refuse, Serve
  <1>2. CASE Report(line)
    BY <1>2, ServeType DEF Report, Serve
  <1>3. CASE Taint(line)
    <2> DEFINE label == label_of(line.number)
               l == location(line.target)
    <2>1. line.target \in Virt \cup General(arch) /\ line.number \in 0 .. MaxU64
      BY <1>3 DEF Taint, parses, Targets, Asks, Reports
    <2>2. label \in Labels
      BY <2>1, TargetAssumption DEF label_of, Labels
    <2>3. l \in Locations
      BY <2>1, ValuesOfRegisters DEF location, Locations
    <2> HIDE DEF label, l
    <2>4. PICK labels \in {{label}, taint[l] \cup {label}} :
            taint' = [taint EXCEPT ![l] = labels]
      BY <1>3 DEF Taint, label, l
    <2>5. taint' \in [Locations -> SUBSET Labels]
      BY <2>2, <2>3, <2>4
    <2>6. QED
      BY <1>3, <2>5, ServeType DEF Taint, Serve
  <1>4. CASE GetTaint(line)
    <2> DEFINE answer == IF taint[location(line.target)] = {} THEN "text" ELSE "labels"
    <2>1. answer \in Replies /\ Serve(answer)
      BY <1>4 DEF GetTaint
    <2> HIDE DEF answer
    <2>2. QED
      BY <1>4, <2>1, ServeType DEF GetTaint, Serve
  <1>5. QED
    BY <1>1, <1>2, <1>3, <1>4

LEMMA TypeInvNext == TypeInv /\ [Next]_vars => TypeInv'
  <1> SUFFICES ASSUME TypeInv, [Next]_vars
               PROVE  TypeInv'
    OBVIOUS
  <1>1. CASE UNCHANGED vars
    BY <1>1 DEF TypeInv, TypeOK, PcTyped, vars, client
  <1>2. CASE Next
    BY <1>2, GuestType, ReadRegistersType, WriteRegistersType, MemoryType,
       CommandType DEF Next, NewValue
  <1>3. QED
    BY <1>1, <1>2

\* Every variable of the target keeps its type; a label of any length
\* is cut to one that the taint plugin takes.
THEOREM TypeCorrect == Spec => []TypeOK
  <1>1. TypeInv => TypeOK
    BY DEF TypeInv
  <1>2. QED
    BY <1>1, TypeInvInit, TypeInvNext, PTL DEF Spec

-----------------------------------------------------------------------------
(* The client's view.                                                      *)

\* What the client was given at a stop is of that stop as long as it lasts, and
\* only then of a published one.
KnownWhen ==
  /\ known = "current" => guest = "stopped"
  /\ known = "early" => guest # "running"

ViewInv == TypeInv /\ KnownWhen /\ ViewTrue

\* A packet that leaves the registers alone.
Bystander ==
  \/ \E vs \in SUBSET Virt \ {{}} : ReadAddrs(vs) \/ WriteAddrs(vs)
  \/ \E line \in Lines :
       Refuse(line) \/ Report(line) \/ Taint(line) \/ GetTaint(line)

LEMMA BystanderKeeps ==
  Bystander => UNCHANGED <<arch, guest, here, env, pc, view, known, moved>>
  BY DEF Bystander, ReadAddrs, WriteAddrs, Refuse, Report, Taint, GetTaint,
         Serve, quiet, client

LEMMA KnownNext ==
  ASSUME KnownWhen, [Next]_vars
  PROVE  KnownWhen'
  <1>1. CASE RunsOn \/ Resume \/ Publish \/ Revoke \/ \E a \in Addr : Grant(a)
    BY <1>1 DEF KnownWhen, RunsOn, Resume, Publish, Revoke, Grant, client
  <1>2. CASE ReadRegisters
    BY <1>2 DEF KnownWhen, ReadRegisters, Serve
  <1>3. ASSUME NEW n, NEW val, WriteRegisters(n, val)
        PROVE  KnownWhen'
    BY <1>3 DEF KnownWhen, WriteRegisters, Serve
  <1>4. CASE Bystander \/ UNCHANGED vars
    BY <1>4, BystanderKeeps DEF KnownWhen, vars, client
  <1>5. QED
    BY <1>1, <1>2, <1>3, <1>4 DEF Next, Bystander

LEMMA ViewReadTrue ==
  ASSUME ViewInv, ReadRegisters
  PROVE  ViewTrue'
  <1>1. arch \in Archs /\ env \in [Names -> Values] /\ arch' = arch /\ env' = env
    BY DEF ViewInv, TypeInv, TypeOK, ReadRegisters, Serve, Names
  <1>2. SUFFICES ASSUME Writes(arch) # {}, NEW n \in General(arch)
                 PROVE  view'[n] = env[behind(arch, n)]
    BY <1>1 DEF ViewTrue
  <1>3. n \in Reads(arch) /\ n # "pc" /\ n \in DOMAIN env
    BY <1>1, <1>2, WrittenAndRead DEF Registers, Names
  <1>4. QED
    BY <1>3 DEF ReadRegisters

LEMMA ViewWriteTrue ==
  ASSUME ViewInv, NEW n, NEW val, NewValue(n, val), WriteRegisters(n, val)
  PROVE  ViewTrue'
  <1>1. arch \in Archs /\ env \in [Names -> Values] /\ arch' = arch
    BY DEF ViewInv, TypeInv, TypeOK, WriteRegisters, Serve, Names
  <1>2. SUFFICES ASSUME Writes(arch) # {}, NEW o \in General(arch)
                 PROVE  view'[o] = env'[behind(arch, o)]
    BY <1>1 DEF ViewTrue
  <1> DEFINE r == behind(arch, o)
  <1>3. /\ r \in General(arch) /\ r \in Writes(arch) /\ r # "pc"
        /\ r \in DOMAIN env /\ written_to(arch, r) = o
    BY <1>1, <1>2, BehindBijective, WrittenAndRead, WrittenTo
       DEF Registers, Names
  <1> HIDE DEF r
  <1>4. env'[r] = view'[written_to(arch, r)]
    BY <1>3 DEF WriteRegisters
  <1>5. QED
    BY <1>3, <1>4 DEF r

LEMMA ViewInvNext == ViewInv /\ [Next]_vars => ViewInv'
  <1> SUFFICES ASSUME ViewInv, [Next]_vars
               PROVE  ViewInv'
    OBVIOUS
  <1>1. TypeInv' /\ KnownWhen'
    BY TypeInvNext, KnownNext DEF ViewInv
  <1>2. CASE Resume \/ Revoke \/ \E a \in Addr : Grant(a)
    <2>1. known' \notin {"early", "current"}
      BY <1>2 DEF ViewInv, KnownWhen, Resume, Revoke, Grant
    <2>2. QED
      BY <1>1, <2>1 DEF ViewInv, ViewTrue
  <1>3. CASE RunsOn \/ Publish \/ Bystander \/ UNCHANGED vars
    <2>1. UNCHANGED <<arch, env, view>>
      BY <1>3, BystanderKeeps DEF RunsOn, Publish, vars, client
    <2>2. known' = known
      BY <1>3, BystanderKeeps DEF RunsOn, Publish, vars, client
    <2>3. QED
      BY <1>1, <2>1, <2>2 DEF ViewInv, ViewTrue
  <1>4. QED
    BY <1>1, <1>2, <1>3, ViewReadTrue, ViewWriteTrue
       DEF Next, Bystander, ViewInv, NewValue

\* What a read shows under a name is what a write under that name sets, and
\* a write of one register disturbs no other.
THEOREM ViewAlwaysTrue == Spec => []ViewTrue
  <1>1. Init => ViewInv
    BY TypeInvInit DEF Init, ViewInv, KnownWhen, ViewTrue
  <1>2. ViewInv => ViewTrue
    BY DEF ViewInv
  <1>3. QED
    BY <1>1, <1>2, ViewInvNext, PTL DEF Spec

-----------------------------------------------------------------------------
(* Where the guest goes on.                                                *)

\* Unless the client has moved it, a stopped guest is to go on where it has
\* stopped, and STATE.pc says so once it is published.
GoesOnHere == guest = "stopped" /\ ~moved => pc = here

JumpInv == TypeInv /\ KnownWhen /\ GoesOnHere /\ NoStrayJump

LEMMA JumpInvInit == Init => JumpInv
  BY TypeInvInit DEF Init, JumpInv, KnownWhen, GoesOnHere, NoStrayJump

LEMMA JumpWrite ==
  ASSUME JumpInv, NEW n, NEW val, NewValue(n, val), WriteRegisters(n, val)
  PROVE  (GoesOnHere /\ NoStrayJump)'
  <1>1. /\ arch \in Archs /\ env \in [Names -> Values]
        /\ view \in [Names -> Values]
        /\ UNCHANGED <<arch, here, guest, known>>
    BY DEF JumpInv, TypeInv, TypeOK, WriteRegisters, Serve, Names
  <1>2. SUFFICES ASSUME ~moved'
                 PROVE  /\ pc' = here /\ env'["pc"] = here
                        /\ arch # "ppc" => view'["pc"] = here
    BY <1>1 DEF GoesOnHere, NoStrayJump
  <1>3. ~moved /\ n # "pc" /\ known = "current" /\ guest = "stopped"
    BY <1>2 DEF WriteRegisters, JumpInv, KnownWhen
  <1>4. /\ pc = here /\ env["pc"] = here
        /\ arch # "ppc" => view["pc"] = here
    BY <1>3 DEF JumpInv, GoesOnHere, NoStrayJump
  <1>5. view'["pc"] = view["pc"]
    BY <1>1, <1>3 DEF WriteRegisters, Names
  <1>6. env'["pc"] = IF arch \in {"x86_64", "arm"} THEN view'["pc"] ELSE env["pc"]
    <2>1. "pc" \notin Writes(arch)
      BY <1>1, WrittenAndRead
    <2>2. QED
      BY <1>1, <2>1 DEF WriteRegisters, Names
  <1>7. pc' = IF arch = "i386" THEN view'["pc"] ELSE pc
    BY DEF WriteRegisters
  <1>8. QED
    BY <1>4, <1>5, <1>6, <1>7

LEMMA JumpInvNext == JumpInv /\ [Next]_vars => JumpInv'
  <1> SUFFICES ASSUME JumpInv, [Next]_vars
               PROVE  JumpInv'
    OBVIOUS
  <1> USE DEF JumpInv, GoesOnHere, NoStrayJump
  <1>1. TypeInv' /\ KnownWhen'
    BY TypeInvNext, KnownNext
  <1>2. CASE RunsOn \/ Resume \/ Revoke
    BY <1>1, <1>2 DEF RunsOn, Resume, Revoke, client
  <1>3. ASSUME NEW a \in Addr, Grant(a)
        PROVE  JumpInv'
    <2>1. env'["pc"] = a /\ here' = a /\ guest' = "granted"
      BY <1>3, UntouchedType DEF Grant, TypeInv, TypeOK
    <2>2. known' # "current"
      BY <1>3 DEF Grant, KnownWhen
    <2>3. QED
      BY <1>1, <2>1, <2>2
  <1>4. CASE Publish
    <2>1. /\ pc' = here /\ guest = "granted"
          /\ UNCHANGED <<arch, here, env, view, known, moved>>
      BY <1>4 DEF Publish, client
    <2>2. QED
      BY <1>1, <2>1 DEF KnownWhen
  <1>5. CASE Bystander \/ UNCHANGED vars
    BY <1>1, <1>5, BystanderKeeps DEF vars, client
  <1>6. CASE ReadRegisters
    <2>1. arch # "ppc" => view'["pc"] = pc
      <3>1. arch \in Archs /\ "pc" \in DOMAIN env
        BY DEF TypeInv, TypeOK
      <3>2. "pc" \notin Reads(arch)
        BY <3>1, WrittenAndRead
      <3>3. QED
        BY <1>6, <3>1, <3>2 DEF ReadRegisters
    <2>2. /\ UNCHANGED <<arch, guest, here, env, pc, moved>>
          /\ known' = "current" => guest = "stopped"
      BY <1>6 DEF ReadRegisters, Serve
    <2>3. QED
      BY <1>1, <2>1, <2>2
  <1>7. ASSUME NEW n, NEW val, NewValue(n, val), WriteRegisters(n, val)
        PROVE  JumpInv'
    BY <1>1, <1>7, JumpWrite
  <1>8. QED
    BY <1>2, <1>3, <1>4, <1>5, <1>6, <1>7 DEF Next, Bystander, NewValue

\* Whatever packets come at a stop, and at whatever moment of it: unless the
\* client asks for another program counter, or writes registers back that it
\* read before this stop's program counter was published, the guest goes on
\* where it has stopped.
THEOREM GuestGoesOnWhereItStopped == Spec => []NoStrayJump
  <1>1. JumpInv => NoStrayJump
    BY DEF JumpInv
  <1>2. QED
    BY <1>1, JumpInvInit, JumpInvNext, PTL DEF Spec

=============================================================================
