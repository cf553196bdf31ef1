----------------------------- MODULE Handshake -----------------------------
(***************************************************************************)
(* What the pair of signals of target_state.rs promises, with everything   *)
(* else of the stub left out.  A guest runs until it stops; a stop is      *)
(* announced once (a token of `news`) and the guest then waits for one     *)
(* release (a token of `credit`).  A session that resumes the guest pays   *)
(* one release and waits for one announcement.  The end of the guest is    *)
(* announced the same way.  The detailed specification, GdbStub, is shown  *)
(* to implement this one.                                                  *)
(***************************************************************************)
EXTENDS Naturals, FiniteSets

CONSTANT Sessions   \* the debugging sessions that may resume the guest

VARIABLES
  news,      \* announcements nobody has received yet (brk)
  credit,    \* releases the guest has not used yet (cont)
  waiting,   \* the sessions waiting for an announcement
  stopped,   \* the guest is waiting for a release
  ended      \* the guest has announced its end

hvars == <<news, credit, waiting, stopped, ended>>

HTypeOK ==
  /\ news \in Nat
  /\ credit \in Nat
  /\ waiting \subseteq Sessions
  /\ stopped \in BOOLEAN
  /\ ended \in BOOLEAN

HInit ==
  /\ news = 0
  /\ credit = 0
  /\ waiting = {}
  /\ stopped = FALSE
  /\ ended = FALSE

\* The guest stops, and announces it.
Stop ==
  /\ ~stopped
  /\ ~ended
  /\ stopped' = TRUE
  /\ news' = news + 1
  /\ UNCHANGED <<credit, waiting, ended>>

\* The guest uses a release and runs again.
Release ==
  /\ stopped
  /\ credit > 0
  /\ stopped' = FALSE
  /\ credit' = credit - 1
  /\ UNCHANGED <<news, waiting, ended>>

\* The guest ends, and announces it.
End ==
  /\ ~stopped
  /\ ~ended
  /\ ended' = TRUE
  /\ news' = news + 1
  /\ UNCHANGED <<credit, waiting, stopped>>

\* A session pays a release and begins to wait.
Resume(s) ==
  /\ s \notin waiting
  /\ waiting' = waiting \cup {s}
  /\ credit' = credit + 1
  /\ UNCHANGED <<news, stopped, ended>>

\* A waiting session receives an announcement.
Receive(s) ==
  /\ s \in waiting
  /\ news > 0
  /\ waiting' = waiting \ {s}
  /\ news' = news - 1
  /\ UNCHANGED <<credit, stopped, ended>>

HNext ==
  \/ Stop
  \/ Release
  \/ End
  \/ \E s \in Sessions : Resume(s) \/ Receive(s)

HSpec == HInit /\ [][HNext]_hvars

-----------------------------------------------------------------------------
AsNat(b) == IF b THEN 1 ELSE 0

\* No token is lost or made up: the tokens under way are exactly the ones
\* owed to the sessions that wait, to the guest that waits and to the end.
Balanced ==
  news + credit = Cardinality(waiting) + AsNat(stopped) + AsNat(ended)

\* The guest and the sessions never wait for each other: a guest that waits
\* with no release under way has announced enough for every waiting session,
\* and a session that waits with no announcement under way has a release
\* under way that the guest will use at its stop.
NoMutualWait ==
  /\ stopped /\ credit = 0 => news > Cardinality(waiting)
  /\ waiting # {} /\ news = 0 => credit > 0

=============================================================================
