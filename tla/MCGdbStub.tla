----------------------------- MODULE MCGdbStub -----------------------------
(* Small instances of GdbStub for TLC.                                     *)
EXTENDS GdbStubProps

CONSTANTS k1, u1, u2   \* a kernel address and two user addresses

MCAddr == {k1, u1, u2}
MCUserText == {u1, u2}

\* A kernel block and a user block of two instructions.
MCBlocks == {<<k1>>, <<u1, u2>>}
\* A single block, for the runs that need many interleavings.
MCOneBlock == {<<u1, u2>>}
=============================================================================
