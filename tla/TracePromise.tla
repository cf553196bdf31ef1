---------------------------- MODULE TracePromise ----------------------------
(***************************************************************************)
(* What panda-il-trace promises of the blocks it stamps, whoever lifts     *)
(* them and however long it takes: blocks are numbered while the guest     *)
(* runs; once the numbering is over each number is collected once; and     *)
(* nothing is published before all of them are.                            *)
(***************************************************************************)
EXTENDS Naturals

VARIABLES
  stamped,    \* how many blocks have taken a number
  collected,  \* the numbers uninit has collected
  published   \* the trace is written

pvars == <<stamped, collected, published>>

Numbers == 0 .. stamped - 1

PInit ==
  /\ stamped = 0
  /\ collected = {}
  /\ published = FALSE

Number ==
  /\ collected = {}
  /\ ~published
  /\ stamped' = stamped + 1
  /\ UNCHANGED <<collected, published>>

Collect(n) ==
  /\ ~published
  /\ collected' = collected \cup {n}
  /\ UNCHANGED <<stamped, published>>

Publish ==
  /\ collected = Numbers
  /\ published' = TRUE
  /\ UNCHANGED <<stamped, collected>>

PNext ==
  \/ Number
  \/ \E n \in Numbers \ collected : Collect(n)
  \/ Publish

PSpec == PInit /\ [][PNext]_pvars

=============================================================================
