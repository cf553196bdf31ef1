--------------------------- MODULE MCPandaTarget ---------------------------
(* Small instances of PandaTarget for TLC.                                 *)
EXTENDS PandaTargetProps

CONSTANTS a1, a2, v1, p1

MCAddr == {a1, a2}
MCVirt == {v1}
MCPhys == {p1}
MCArchs == {"x86_64", "i386", "arm", "mips", "ppc"}
MCX86 == {"x86_64"}

Line(name, target, number) ==
  [name |-> name, target |-> target, number |-> number]

\* Labels that fit, that are cut off and that are no u64; targets by address
\* and by register; a report, a line without arguments and one that is none.
MCLines ==
  {Line("taint", v1, MaxU32 + 1), Line("taint", v1, MaxU64 + 1),
   Line("taint", "sp", 1), Line("get_taint", v1, NoArg),
   Line("get_taint", "sp", NoArg), Line("meminfo", NoArg, NoArg),
   Line("taint", NoArg, NoArg)}
=============================================================================
