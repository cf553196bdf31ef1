-------------------------- MODULE HandshakeProofs --------------------------
(***************************************************************************)
(* The accounting of the handshake, proved for any finite set of sessions. *)
(* Balanced is inductive together with the types; the absence of a mutual  *)
(* wait is arithmetic from it.  Finiteness is a hypothesis of each fact,   *)
(* so that an instance of this module can discharge it.                    *)
(***************************************************************************)
EXTENDS Handshake, FiniteSetTheorems, TLAPS

\* The invariant that a step preserves: the types, and the balance of tokens.
HInv == HTypeOK /\ Balanced

LEMMA WaitingFinite ==
  ASSUME IsFiniteSet(Sessions), HTypeOK
  PROVE  IsFiniteSet(waiting) /\ Cardinality(waiting) \in Nat
  <1>1. IsFiniteSet(waiting)
    BY FS_Subset DEF HTypeOK
  <1>2. QED
    BY <1>1, FS_CardinalityType

LEMMA AsNatValue ==
  /\ AsNat(TRUE) = 1
  /\ AsNat(FALSE) = 0
  /\ \A b \in BOOLEAN : AsNat(b) \in {0, 1}
  BY DEF AsNat

LEMMA HInitInv ==
  ASSUME HInit
  PROVE  HInv
  <1>1. HTypeOK
    BY DEF HInit, HTypeOK
  <1>2. AsNat(stopped) = 0 /\ AsNat(ended) = 0
    BY AsNatValue DEF HInit
  <1>3. Cardinality(waiting) = 0
    BY FS_EmptySet DEF HInit
  <1>4. QED
    BY <1>1, <1>2, <1>3 DEF HInit, HInv, Balanced

\* A resume adds one waiting session and pays one release.
LEMMA ResumeInv ==
  ASSUME IsFiniteSet(Sessions), HInv, NEW s \in Sessions, Resume(s)
  PROVE  HInv'
  <1>1. IsFiniteSet(waiting) /\ Cardinality(waiting) \in Nat
    BY WaitingFinite DEF HInv
  <1>2. Cardinality(waiting \cup {s}) = Cardinality(waiting) + 1
    BY <1>1, FS_AddElement DEF Resume
  <1>3. HTypeOK'
    BY DEF HInv, HTypeOK, Resume
  <1>4. AsNat(stopped) \in {0, 1} /\ AsNat(ended) \in {0, 1}
    BY AsNatValue DEF HInv, HTypeOK
  <1>5. Balanced'
    BY <1>1, <1>2, <1>4 DEF HInv, HTypeOK, Balanced, Resume
  <1>6. QED
    BY <1>3, <1>5 DEF HInv

\* An announcement received takes one waiting session out.
LEMMA ReceiveInv ==
  ASSUME IsFiniteSet(Sessions), HInv, NEW s \in Sessions, Receive(s)
  PROVE  HInv'
  <1>1. IsFiniteSet(waiting) /\ Cardinality(waiting) \in Nat
    BY WaitingFinite DEF HInv
  <1>2. Cardinality(waiting \ {s}) = Cardinality(waiting) - 1
    BY <1>1, FS_RemoveElement DEF Receive
  <1>3. HTypeOK'
    BY DEF HInv, HTypeOK, Receive
  <1>4. AsNat(stopped) \in {0, 1} /\ AsNat(ended) \in {0, 1}
    BY AsNatValue DEF HInv, HTypeOK
  <1>5. Balanced'
    BY <1>1, <1>2, <1>4 DEF HInv, HTypeOK, Balanced, Receive
  <1>6. QED
    BY <1>3, <1>5 DEF HInv

LEMMA HNextInv ==
  ASSUME IsFiniteSet(Sessions), HInv, [HNext]_hvars
  PROVE  HInv'
  <1>0. /\ Cardinality(waiting) \in Nat
        /\ AsNat(stopped) \in {0, 1}
        /\ AsNat(ended) \in {0, 1}
    BY WaitingFinite, AsNatValue DEF HInv, HTypeOK
  <1>1. CASE Stop
    <2>1. HTypeOK'
      BY <1>1 DEF HInv, HTypeOK, Stop
    <2>2. AsNat(stopped) = 0 /\ AsNat(stopped') = 1
      BY <1>1, AsNatValue, Zenon DEF HInv, HTypeOK, Stop
    <2>3. Balanced'
      BY <1>0, <1>1, <2>1, <2>2 DEF HInv, HTypeOK, Balanced, Stop
    <2>4. QED
      BY <2>1, <2>3 DEF HInv
  <1>2. CASE Release
    <2>0. /\ credit > 0 /\ credit' = credit - 1
          /\ UNCHANGED <<news, waiting, ended>>
      BY <1>2, Zenon DEF Release
    <2>1. credit' \in Nat
      BY <2>0 DEF HInv, HTypeOK
    <2>2. HTypeOK'
      BY <1>2, <2>1, Zenon DEF HInv, HTypeOK, Release
    <2>3. AsNat(stopped) = 1 /\ AsNat(stopped') = 0
      BY <1>2, AsNatValue, Zenon DEF HInv, HTypeOK, Release
    <2>4. Balanced'
      BY <1>0, <2>0, <2>3 DEF HInv, HTypeOK, Balanced
    <2>5. QED
      BY <2>2, <2>4 DEF HInv
  <1>3. CASE End
    <2>1. HTypeOK'
      BY <1>3 DEF HInv, HTypeOK, End
    <2>2. AsNat(ended) = 0 /\ AsNat(ended') = 1
      BY <1>3, AsNatValue, Zenon DEF HInv, HTypeOK, End
    <2>3. Balanced'
      BY <1>0, <1>3, <2>1, <2>2 DEF HInv, HTypeOK, Balanced, End
    <2>4. QED
      BY <2>1, <2>3 DEF HInv
  <1>4. ASSUME NEW s \in Sessions, Resume(s)
        PROVE  HInv'
    BY <1>4, ResumeInv
  <1>5. ASSUME NEW s \in Sessions, Receive(s)
        PROVE  HInv'
    BY <1>5, ReceiveInv
  <1>6. CASE UNCHANGED hvars
    BY <1>6 DEF HInv, HTypeOK, Balanced, hvars
  <1>7. QED
    BY <1>1, <1>2, <1>3, <1>4, <1>5, <1>6 DEF HNext

LEMMA NoMutualWaitFromInv ==
  ASSUME IsFiniteSet(Sessions), HInv
  PROVE  NoMutualWait
  <1>1. IsFiniteSet(waiting) /\ Cardinality(waiting) \in Nat
    BY WaitingFinite DEF HInv
  <1>2. waiting # {} => Cardinality(waiting) # 0
    BY <1>1, FS_EmptySet
  <1>3. /\ stopped => AsNat(stopped) = 1
        /\ AsNat(stopped) \in {0, 1}
        /\ AsNat(ended) \in {0, 1}
    BY AsNatValue, Zenon DEF HInv, HTypeOK
  <1>4. QED
    BY <1>1, <1>2, <1>3 DEF HInv, HTypeOK, Balanced, NoMutualWait

\* The tokens under way are always the ones owed.
THEOREM HandshakeBalanced ==
  ASSUME IsFiniteSet(Sessions)
  PROVE  HSpec => [](HTypeOK /\ Balanced)
  <1>1. HInit => HInv
    BY HInitInv
  <1>2. HInv /\ [HNext]_hvars => HInv'
    BY HNextInv
  <1>3. HInv => HTypeOK /\ Balanced
    BY DEF HInv
  <1>4. QED
    BY <1>1, <1>2, <1>3, PTL DEF HSpec

\* The guest and the sessions never wait for each other.
THEOREM HandshakeNeverStuck ==
  ASSUME IsFiniteSet(Sessions)
  PROVE  HSpec => []NoMutualWait
  <1>1. HInit => HInv
    BY HInitInv
  <1>2. HInv /\ [HNext]_hvars => HInv'
    BY HNextInv
  <1>3. HInv => NoMutualWait
    BY NoMutualWaitFromInv
  <1>4. QED
    BY <1>1, <1>2, <1>3, PTL DEF HSpec

=============================================================================
