-------------------------- MODULE PandaTargetProps --------------------------
(***************************************************************************)
(* The properties of the handlers on the stopped guest.                    *)
(***************************************************************************)
EXTENDS PandaTarget

\* Where write_registers writes the general registers, the client's idea of
\* them is the truth through any sequence of reads and writes since the guest
\* stopped: what is read under a name is what a write under that name sets, and
\* a write of one register, which sends them all, disturbs no other.
ViewTrue ==
  known \in {"early", "current"} /\ Writes(arch) # {} =>
    \A n \in General(arch) : view[n] = env[behind(arch, n)]

\* Every register write also carries the program counter the client was
\* given, and x86_64 and arm put it in the CPU.  As long as the client sends
\* back only what it read at this stop once its program counter was
\* published (set_pc comes after set_cpu in every_instruction), and asks for
\* no other one, the guest goes on where it has stopped all the same.
NoStrayJump ==
  guest # "running" /\ ~moved =>
    /\ env["pc"] = here
    /\ known = "current" /\ arch # "ppc" => view["pc"] = here

-----------------------------------------------------------------------------
(* What the README says and the code does not do.                          *)

\* README: `info reg` lists the registers.  The value listed under a name is
\* the one of that register, unless the client has changed it.
RegistersNamed ==
  known # "nothing" => \A n \in General(arch) : view[n] \in {n, Changed}

=============================================================================
