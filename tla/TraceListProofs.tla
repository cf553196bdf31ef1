-------------------------- MODULE TraceListProofs --------------------------
(***************************************************************************)
(* What BasicBlockList::from and to_branch_json make of every list.  A     *)
(* sorted list has the blocks of the given one, each once and in order: an *)
(* element's place among n is the number of those that are not after it,   *)
(* and a strictly monotone map of n elements to 1 .. n is one to one and   *)
(* onto.                                                                   *)
(***************************************************************************)
EXTENDS BasicBlockList, Integers, FiniteSetTheorems, SequenceTheorems,
        WellFoundedInduction, TLAPS

\* A set of numbers has a least one.
LEMMA Least ==
  ASSUME NEW S \in SUBSET Nat, S # {}
  PROVE  \E n \in S : \A m \in S : n <= m
  <1>1. IsWellFoundedOn(OpToRel(<, Nat), Nat)
    BY NatLessThanWellFounded
  <1>2. PICK n \in S : \A m \in S : ~ (<<m, n>> \in OpToRel(<, Nat))
    BY <1>1, WFMin
  <1>3. \A m \in S : ~ (m < n)
    BY <1>2 DEF OpToRel
  <1>4. QED
    BY <1>3

LEMMA MinIsLeast ==
  ASSUME NEW S \in SUBSET Nat, S # {}
  PROVE  Min(S) \in S /\ \A n \in S : Min(S) <= n
  BY Least DEF Min

-----------------------------------------------------------------------------
(* Places.                                                                 *)

\* The place of x among the elements of S in the order R.
PlaceIn(S, R, x) == Cardinality({y \in S : <<x, y>> \notin R})

StrictOrder(S, R) ==
  /\ \A x \in S : <<x, x>> \notin R
  /\ \A x, y \in S : x # y => <<x, y>> \in R \/ <<y, x>> \in R
  /\ \A x, y, z \in S : <<x, y>> \in R /\ <<y, z>> \in R => <<x, z>> \in R

\* What comes before has the lower place.
LEMMA PlaceMonotone ==
  ASSUME NEW S, IsFiniteSet(S), NEW R, StrictOrder(S, R),
         NEW x \in S, NEW y \in S, <<x, y>> \in R
  PROVE  PlaceIn(S, R, x) < PlaceIn(S, R, y)
  <1> DEFINE X == {z \in S : <<x, z>> \notin R}
             Y == {z \in S : <<y, z>> \notin R}
  <1>1. X \subseteq Y
    BY DEF StrictOrder
  <1>2. y \in Y /\ y \notin X
    BY DEF StrictOrder
  <1>3. IsFiniteSet(Y) /\ IsFiniteSet(X)
    BY FS_Subset
  <1>4. Cardinality(X) <= Cardinality(Y) /\ Cardinality(X) # Cardinality(Y)
    <2> HIDE DEF X, Y
    <2>1. QED
      BY <1>1, <1>2, <1>3, FS_Subset
  <1>5. Cardinality(X) \in Nat /\ Cardinality(Y) \in Nat
    BY <1>3, FS_CardinalityType
  <1>6. QED
    BY <1>4, <1>5 DEF PlaceIn

\* Each of the places 1 .. n is that of one element.
LEMMA EachPlaceOnce ==
  ASSUME NEW S, IsFiniteSet(S), NEW R, StrictOrder(S, R)
  PROVE  LET n == Cardinality(S)
         IN  /\ n \in Nat
             /\ \A x \in S : PlaceIn(S, R, x) \in 1 .. n
             /\ \A x, y \in S :
                  PlaceIn(S, R, x) = PlaceIn(S, R, y) => x = y
             /\ \A k \in 1 .. n : \E x \in S : PlaceIn(S, R, x) = k
  <1> DEFINE n == Cardinality(S)
             f == [x \in S |-> PlaceIn(S, R, x)]
  <1>1. n \in Nat
    BY FS_CardinalityType
  <1>2. ASSUME NEW x \in S
        PROVE  PlaceIn(S, R, x) \in 1 .. n
    <2> DEFINE X == {y \in S : <<x, y>> \notin R}
    <2>1. IsFiniteSet(X) /\ Cardinality(X) <= n
      BY FS_Subset
    <2>2. x \in X
      BY DEF StrictOrder
    <2>3. Cardinality(X) \in Nat /\ Cardinality(X) # 0
      <3> HIDE DEF X
      <3>1. QED
        BY <2>1, <2>2, FS_CardinalityType, FS_EmptySet
    <2>4. QED
      BY <1>1, <2>1, <2>3 DEF PlaceIn
  <1>3. ASSUME NEW x \in S, NEW y \in S, PlaceIn(S, R, x) = PlaceIn(S, R, y)
        PROVE  x = y
    <2>1. CASE <<x, y>> \in R
      BY <1>2, <1>3, <2>1, PlaceMonotone
    <2>2. CASE <<y, x>> \in R
      BY <1>2, <1>3, <2>2, PlaceMonotone
    <2>3. QED
      BY <2>1, <2>2 DEF StrictOrder
  <1>4. f \in Injection(S, 1 .. n)
    BY <1>2, <1>3 DEF Injection, IsInjective
  <1>5. IsFiniteSet(1 .. n) /\ Cardinality(1 .. n) = n
    BY <1>1, FS_Interval
  <1>6. f \in Surjection(S, 1 .. n)
    <2> HIDE DEF f
    <2>1. QED
      BY <1>4, <1>5, FS_Injection
  <1>7. \A k \in 1 .. n : \E x \in S : PlaceIn(S, R, x) = k
    BY <1>6 DEF Surjection
  <1>8. QED
    BY <1>1, <1>2, <1>3, <1>7

-----------------------------------------------------------------------------
(* Sorted.                                                                 *)

\* The order that Sorted puts the indices of a list in.
Order(list, some) == {p \in some \X some : Before(list, p[1], p[2])}

LEMMA IndicesFinite ==
  ASSUME NEW S, NEW list \in Seq(S), NEW some \in SUBSET DOMAIN list
  PROVE  some \subseteq Nat /\ IsFiniteSet(some)
  <1>1. DOMAIN list = 1 .. Len(list) /\ Len(list) \in Nat
    BY LenProperties
  <1>2. IsFiniteSet(DOMAIN list)
    BY <1>1, FS_Interval
  <1>3. QED
    BY <1>1, <1>2, FS_Subset

LEMMA ListTypes ==
  ASSUME NEW list \in Seq(BasicBlock), NEW i \in DOMAIN list
  PROVE  /\ list[i] \in BasicBlock
         /\ i \in Nat /\ list[i].asid \in Nat /\ list[i].seq_num \in Nat
  <1>1. list[i] \in BasicBlock /\ i \in Nat
    OBVIOUS
  <1>2. QED
    BY <1>1, PcAssumption DEF BasicBlock

\* Before is a strict order of the indices, whatever is in the list.
LEMMA BeforeOrders ==
  ASSUME NEW list \in Seq(BasicBlock), NEW some \in SUBSET DOMAIN list
  PROVE  /\ StrictOrder(some, Order(list, some))
         /\ \A i \in some :
              Place(list, some, i) = PlaceIn(some, Order(list, some), i)
         /\ \A i, j \in some : i # j => Before(list, i, j) \/ Before(list, j, i)
         /\ \A i, j \in some : ~ (Before(list, i, j) /\ Before(list, j, i))
  <1>1. \A i \in some : /\ i \in Nat /\ list[i].asid \in Nat
                        /\ list[i].seq_num \in Nat
    BY ListTypes
  <1>2. \A i, j \in some : <<i, j>> \in Order(list, some) <=> Before(list, i, j)
    BY DEF Order
  <1>3. \A i \in some : ~Before(list, i, i)
    BY <1>1 DEF Before
  <1>4. \A i, j \in some : i # j => Before(list, i, j) \/ Before(list, j, i)
    BY <1>1 DEF Before
  <1>5. \A i, j, k \in some :
          Before(list, i, j) /\ Before(list, j, k) => Before(list, i, k)
    BY <1>1 DEF Before
  <1>6. StrictOrder(some, Order(list, some))
    BY <1>2, <1>3, <1>4, <1>5 DEF StrictOrder
  <1>7. ASSUME NEW i \in some
        PROVE  Place(list, some, i) = PlaceIn(some, Order(list, some), i)
    <2>1. {j \in some : ~Before(list, i, j)}
            = {j \in some : <<i, j>> \notin Order(list, some)}
      BY <1>2
    <2>2. QED
      BY <2>1 DEF Place, PlaceIn
  <1>8. QED
    BY <1>3, <1>4, <1>5, <1>6, <1>7

\* The index in the list of each block of the sorted one.
At(list, some) ==
  [k \in 1 .. Cardinality(some) |->
     CHOOSE i \in some : Place(list, some, i) = k]

\* Sorted returns the blocks it is given, each once, one before the other.
THEOREM SortedInOrder ==
  ASSUME NEW list \in Seq(BasicBlock), NEW some \in SUBSET DOMAIN list
  PROVE  LET n == Cardinality(some)
             at == At(list, some)
         IN  /\ n \in Nat
             /\ Sorted(list, some) = [k \in 1 .. n |-> list[at[k]]]
             /\ at \in Bijection(1 .. n, some)
             /\ \A k, l \in 1 .. n : k < l => Before(list, at[k], at[l])
  <1> DEFINE n == Cardinality(some)
             at == At(list, some)
             R == Order(list, some)
  <1>1. IsFiniteSet(some)
    BY IndicesFinite
  <1>2. /\ n \in Nat
        /\ \A i \in some : Place(list, some, i) \in 1 .. n
        /\ \A i, j \in some : Place(list, some, i) = Place(list, some, j) => i = j
        /\ \A k \in 1 .. n : \E i \in some : Place(list, some, i) = k
    <2>1. /\ n \in Nat
          /\ \A i \in some : PlaceIn(some, R, i) \in 1 .. n
          /\ \A i, j \in some : PlaceIn(some, R, i) = PlaceIn(some, R, j) => i = j
          /\ \A k \in 1 .. n : \E i \in some : PlaceIn(some, R, i) = k
      BY <1>1, BeforeOrders, EachPlaceOnce
    <2>2. \A i \in some : Place(list, some, i) = PlaceIn(some, R, i)
      BY BeforeOrders
    <2> HIDE DEF n, R
    <2>3. QED
      BY <2>1, <2>2
  <1>3. \A k \in 1 .. n : at[k] \in some /\ Place(list, some, at[k]) = k
    BY <1>2 DEF At
  <1>4. at \in [1 .. n -> some]
    BY <1>3 DEF At
  <1>5. \A i \in some : \E k \in 1 .. n : at[k] = i
    BY <1>2, <1>3
  <1>6. at \in Bijection(1 .. n, some)
    <2>1. \A k, l \in 1 .. n : at[k] = at[l] => k = l
      BY <1>3
    <2> HIDE DEF at
    <2>2. QED
      BY <1>4, <1>5, <2>1 DEF Bijection, Injection, Surjection, IsInjective
  <1>7. ASSUME NEW k \in 1 .. n, NEW l \in 1 .. n, k < l
        PROVE  Before(list, at[k], at[l])
    <2>1. at[k] \in some /\ at[l] \in some /\ at[k] # at[l]
      BY <1>3, <1>7
    <2>2. ~Before(list, at[l], at[k])
      <3> SUFFICES ASSUME Before(list, at[l], at[k])
                   PROVE  FALSE
        OBVIOUS
      <3>1. <<at[l], at[k]>> \in R
        BY <2>1 DEF Order
      <3>2. PlaceIn(some, R, at[l]) < PlaceIn(some, R, at[k])
        BY <1>1, <2>1, <3>1, BeforeOrders, PlaceMonotone
      <3>3. Place(list, some, at[l]) < Place(list, some, at[k])
        BY <2>1, <3>2, BeforeOrders
      <3>4. QED
        BY <1>3, <1>7, <3>3
    <2>3. QED
      BY <2>1, <2>2, BeforeOrders
  <1>8. Sorted(list, some) = [k \in 1 .. n |-> list[at[k]]]
    BY DEF Sorted, At
  <1>9. QED
    BY <1>2, <1>6, <1>7, <1>8

-----------------------------------------------------------------------------
(* Lists in order.                                                         *)

Earlier(x, y) ==
  \/ x.asid < y.asid
  \/ x.asid = y.asid /\ x.seq_num < y.seq_num

InOrder(list) == \A i, j \in DOMAIN list : i < j => Earlier(list[i], list[j])

\* Blocks with numbers of their own.
Distinct(list, some) ==
  \A i, j \in some : i # j => list[i].seq_num # list[j].seq_num

LEMMA FunctionIsSeq ==
  ASSUME NEW S, NEW n \in Nat, NEW f, f = [k \in 1 .. n |-> f[k]],
         \A k \in 1 .. n : f[k] \in S
  PROVE  f \in Seq(S) /\ Len(f) = n /\ DOMAIN f = 1 .. n
  <1>1. f \in [1 .. n -> S]
    OBVIOUS
  <1>2. QED
    BY <1>1

\* What Sorted returns is a list in order, with the blocks it was given.
LEMMA SortedList ==
  ASSUME NEW list \in Seq(BasicBlock), NEW some \in SUBSET DOMAIN list,
         Distinct(list, some)
  PROVE  LET s == Sorted(list, some)
         IN  /\ s \in Seq(BasicBlock)
             /\ InOrder(s)
             /\ {s[k] : k \in DOMAIN s} = {list[i] : i \in some}
  <1> DEFINE n == Cardinality(some)
             at == At(list, some)
             s == Sorted(list, some)
  <1>1. /\ n \in Nat
        /\ s = [k \in 1 .. n |-> list[at[k]]]
        /\ at \in Bijection(1 .. n, some)
        /\ \A k, l \in 1 .. n : k < l => Before(list, at[k], at[l])
    BY SortedInOrder
  <1> HIDE DEF n, at, s
  <1>2. /\ \A k \in 1 .. n : at[k] \in some
        /\ \A k, l \in 1 .. n : at[k] = at[l] => k = l
        /\ \A i \in some : \E k \in 1 .. n : at[k] = i
    BY <1>1 DEF Bijection, Injection, Surjection, IsInjective
  <1>3. \A k \in 1 .. n : s[k] = list[at[k]] /\ s[k] \in BasicBlock
    BY <1>1, <1>2, ListTypes
  <1>4. s \in Seq(BasicBlock) /\ DOMAIN s = 1 .. n
    <2>1. s = [k \in 1 .. n |-> s[k]]
      BY <1>1
    <2>2. QED
      BY <1>1, <1>3, <2>1, FunctionIsSeq
  <1>5. ASSUME NEW k \in 1 .. n, NEW l \in 1 .. n, k < l
        PROVE  Earlier(s[k], s[l])
    <2>1. at[k] \in some /\ at[l] \in some /\ at[k] # at[l]
      BY <1>2, <1>5
    <2>2. list[at[k]].seq_num # list[at[l]].seq_num
      BY <2>1 DEF Distinct
    <2>3. Before(list, at[k], at[l])
      BY <1>1, <1>5
    <2>4. QED
      BY <1>3, <2>2, <2>3 DEF Before, Earlier
  <1>6. InOrder(s)
    BY <1>4, <1>5 DEF InOrder
  <1>7. {s[k] : k \in DOMAIN s} = {list[i] : i \in some}
    BY <1>2, <1>3, <1>4
  <1>8. QED
    BY <1>4, <1>6, <1>7 DEF s

\* A list in order has numbers of their own for the blocks of one address
\* space, and what is between two of them is of it too.
LEMMA InOrderBetween ==
  ASSUME NEW list \in Seq(BasicBlock), InOrder(list),
         NEW i \in DOMAIN list, NEW j \in DOMAIN list,
         list[i].asid = list[j].asid
  PROVE  /\ list[i].seq_num < list[j].seq_num <=> i < j
         /\ i < j => /\ i + 1 \in DOMAIN list
                     /\ list[i + 1].asid = list[i].asid
  <1>1. DOMAIN list = 1 .. Len(list) /\ Len(list) \in Nat
    BY LenProperties
  <1>2. \A k \in DOMAIN list : /\ k \in Nat /\ list[k].asid \in Nat
                               /\ list[k].seq_num \in Nat
    BY ListTypes
  <1>3. i < j => list[i].seq_num < list[j].seq_num
    BY <1>2 DEF InOrder, Earlier
  <1>4. j < i => list[j].seq_num < list[i].seq_num
    BY <1>2 DEF InOrder, Earlier
  <1>5. list[i].seq_num < list[j].seq_num <=> i < j
    BY <1>2, <1>3, <1>4
  <1>6. ASSUME i < j
        PROVE  i + 1 \in DOMAIN list /\ list[i + 1].asid = list[i].asid
    <2>1. i + 1 \in DOMAIN list /\ (i + 1 = j \/ i + 1 < j) /\ i < i + 1
      BY <1>1, <1>6
    <2>2. Earlier(list[i], list[i + 1])
      BY <2>1 DEF InOrder
    <2>3. i + 1 = j \/ Earlier(list[i + 1], list[j])
      BY <2>1 DEF InOrder
    <2>4. list[i + 1].asid \in Nat
      BY <1>2, <2>1
    <2>5. QED
      BY <1>2, <2>1, <2>2, <2>3, <2>4 DEF Earlier
  <1>7. QED
    BY <1>5, <1>6

-----------------------------------------------------------------------------
(* Settle.                                                                 *)

\* A resolved branch is a branch, and no sentinel.
LEMMA ResolveType ==
  ASSUME NEW branch \in Branch, NEW addr \in Pc
  PROVE  /\ resolve(branch, addr) \in Branch
         /\ ~IsSentinel(resolve(branch, addr))
  <1>1. CASE IsSentinel(branch)
    <2> DEFINE taken == branch.kind = "DirectJumpSentinel"
               kind == Sentinels[branch.kind]
    <2>1. taken \in BOOLEAN
      OBVIOUS
    <2>2. kind \in {"IndirectCall", "Return", "IndirectJump", "DirectJump"}
      BY <1>1 DEF IsSentinel, Sentinels
    <2>3. resolve(branch, addr) = [branch EXCEPT !.kind = kind, !.dst = addr,
                                                 !.taken = taken]
      <3>1. branch.kind # "DirectJump"
        BY <1>1 DEF IsSentinel, Sentinels
      <3>2. QED
        BY <1>1, <3>1 DEF resolve
    <2> HIDE DEF taken, kind
    <2>4. QED
      BY <2>1, <2>2, <2>3 DEF Branch, IsSentinel, Sentinels
  <1>2. CASE ~IsSentinel(branch) /\ branch.kind = "DirectJump"
    <2> DEFINE taken == addr = branch.dst
    <2>1. taken \in BOOLEAN
      OBVIOUS
    <2>2. resolve(branch, addr) = [branch EXCEPT !.taken = taken]
      BY <1>2 DEF resolve
    <2> HIDE DEF taken
    <2>3. QED
      BY <1>2, <2>1, <2>2 DEF Branch, IsSentinel, Sentinels
  <1>3. CASE ~IsSentinel(branch) /\ branch.kind # "DirectJump"
    BY <1>3 DEF resolve
  <1>4. QED
    BY <1>1, <1>2, <1>3

\* What is resolved already changes no kind and no destination.
LEMMA ResolveAgain ==
  ASSUME NEW branch \in Branch, NEW addr \in Pc, ~IsSentinel(branch)
  PROVE  [resolve(branch, addr) EXCEPT !.taken = FALSE]
           = [branch EXCEPT !.taken = FALSE]
  BY DEF resolve, Branch

Follows(list, i) == i + 1 \in DOMAIN list /\ list[i + 1].asid = list[i].asid

LEMMA SettleType ==
  ASSUME NEW list \in Seq(BasicBlock)
  PROVE  LET t == Settle(list)
         IN  /\ t \in Seq(BasicBlock) /\ DOMAIN t = DOMAIN list
             /\ \A i \in DOMAIN list :
                  /\ t[i].seq_num = list[i].seq_num
                  /\ t[i].asid = list[i].asid
                  /\ ~Follows(list, i) => t[i] = list[i]
                  /\ Follows(list, i) =>
                       t[i] = [list[i] EXCEPT !.branch =
                                 resolve(@, list[i + 1].pc)]
  <1> DEFINE t == Settle(list)
  <1>1. DOMAIN list = 1 .. Len(list) /\ Len(list) \in Nat
    BY LenProperties
  <1>2. \A i \in DOMAIN list :
          t[i] = IF Follows(list, i)
                   THEN [list[i] EXCEPT !.branch = resolve(@, list[i + 1].pc)]
                   ELSE list[i]
    BY DEF Settle, Follows
  <1>3. t = [i \in 1 .. Len(list) |-> t[i]]
    BY <1>1 DEF Settle
  <1> HIDE DEF t
  <1>4. ASSUME NEW i \in DOMAIN list
        PROVE  /\ t[i] \in BasicBlock
               /\ t[i].seq_num = list[i].seq_num /\ t[i].asid = list[i].asid
    <2>1. list[i] \in BasicBlock
      BY ListTypes
    <2>2. CASE Follows(list, i)
      <3>1. list[i + 1] \in BasicBlock
        BY <2>2, ListTypes DEF Follows
      <3>2. resolve(list[i].branch, list[i + 1].pc) \in Branch
        BY <2>1, <3>1, ResolveType DEF BasicBlock
      <3>3. QED
        BY <1>2, <2>1, <2>2, <3>2 DEF BasicBlock
    <2>3. CASE ~Follows(list, i)
      BY <1>2, <2>1, <2>3
    <2>4. QED
      BY <2>2, <2>3
  <1>5. t \in Seq(BasicBlock) /\ DOMAIN t = DOMAIN list
    BY <1>1, <1>3, <1>4, FunctionIsSeq
  <1>6. QED
    BY <1>2, <1>4, <1>5 DEF t

LEMMA SettleInOrder ==
  ASSUME NEW list \in Seq(BasicBlock), InOrder(list)
  PROVE  InOrder(Settle(list))
  <1> DEFINE t == Settle(list)
  <1>1. /\ DOMAIN t = DOMAIN list
        /\ \A i \in DOMAIN list : /\ t[i].seq_num = list[i].seq_num
                                  /\ t[i].asid = list[i].asid
    BY SettleType
  <1> HIDE DEF t
  <1>2. InOrder(t)
    BY <1>1 DEF InOrder, Earlier
  <1>3. QED
    BY <1>2 DEF t

\* The blocks that come after block x in its address space.
Later(list, x) ==
  {y \in DOMAIN list : /\ list[y].asid = list[x].asid
                       /\ list[x].seq_num < list[y].seq_num}

\* Of a list in order Settle resolves each branch by the first of the blocks
\* that come after it in its address space, and leaves the last as it is.
THEOREM SettledByNext ==
  ASSUME NEW list \in Seq(BasicBlock), InOrder(list), NEW x \in DOMAIN list
  PROVE  LET t == Settle(list)
         IN  /\ Later(list, x) = {} => t[x] = list[x]
             /\ \A y \in Later(list, x) :
                  (\A z \in Later(list, x) : list[y].seq_num <= list[z].seq_num)
                  => t[x] = [list[x] EXCEPT !.branch = resolve(@, list[y].pc)]
  <1> DEFINE t == Settle(list)
  <1>1. /\ ~Follows(list, x) => t[x] = list[x]
        /\ Follows(list, x) =>
             t[x] = [list[x] EXCEPT !.branch = resolve(@, list[x + 1].pc)]
    BY SettleType
  <1> HIDE DEF t
  <1>2. x \in Nat
    BY ListTypes
  <1>3. Follows(list, x) => x + 1 \in Later(list, x)
    <2> SUFFICES ASSUME Follows(list, x)
                 PROVE  x + 1 \in Later(list, x)
      OBVIOUS
    <2>1. x + 1 \in DOMAIN list /\ list[x].asid = list[x + 1].asid /\ x < x + 1
      BY <1>2 DEF Follows
    <2>2. list[x].seq_num < list[x + 1].seq_num
      BY <2>1, InOrderBetween
    <2>3. QED
      BY <2>1, <2>2 DEF Later
  <1>4. ASSUME NEW y \in Later(list, x),
               \A z \in Later(list, x) : list[y].seq_num <= list[z].seq_num
        PROVE  Follows(list, x) /\ y = x + 1
    <2>1. /\ y \in DOMAIN list /\ list[x].asid = list[y].asid
          /\ list[x].seq_num < list[y].seq_num
      BY DEF Later
    <2>2. x < y /\ Follows(list, x)
      BY <2>1, InOrderBetween DEF Follows
    <2>3. x + 1 \in DOMAIN list /\ list[y].asid = list[x + 1].asid
          /\ list[y].seq_num <= list[x + 1].seq_num
      BY <1>3, <1>4, <2>1, <2>2 DEF Follows
    <2>4. y \in Nat /\ list[y].seq_num \in Nat /\ list[x + 1].seq_num \in Nat
      BY <2>1, <2>3, ListTypes
    <2>5. ~(x + 1 < y)
      BY <2>1, <2>3, <2>4, InOrderBetween
    <2>6. QED
      BY <1>2, <2>2, <2>4, <2>5
  <1>5. QED
    BY <1>1, <1>3, <1>4 DEF t

-----------------------------------------------------------------------------
(* The second pass.                                                        *)

\* The same block, whether or not its branch was taken.
SameTarget(x, y) ==
  [x EXCEPT !.branch.taken = FALSE] = [y EXCEPT !.branch.taken = FALSE]

\* A block that is followed in a settled list has no sentinel.
LEMMA FollowedIsResolved ==
  ASSUME NEW list \in Seq(BasicBlock), InOrder(list),
         NEW i \in DOMAIN list, NEW j \in DOMAIN list, i < j,
         list[i].asid = list[j].asid
  PROVE  ~IsSentinel(Settle(list)[i].branch)
  <1>1. Follows(list, i)
    BY InOrderBetween DEF Follows
  <1>2. Settle(list)[i]
          = [list[i] EXCEPT !.branch = resolve(@, list[i + 1].pc)]
    BY <1>1, SettleType
  <1>3. list[i] \in BasicBlock /\ list[i + 1] \in BasicBlock
    BY <1>1, ListTypes DEF Follows
  <1>4. ~IsSentinel(resolve(list[i].branch, list[i + 1].pc))
    BY <1>3, ResolveType DEF BasicBlock
  <1>5. Settle(list)[i].branch = resolve(list[i].branch, list[i + 1].pc)
    BY <1>2, <1>3 DEF BasicBlock
  <1>6. QED
    BY <1>4, <1>5

\* From over some blocks of a list it has made changes of them only whether
\* a branch was taken, and puts them in the order they had.
THEOREM SecondPass ==
  ASSUME NEW first \in Seq(BasicBlock), InOrder(first),
         NEW some \in SUBSET DOMAIN first
  PROVE  LET list == Settle(first)
             again == from_some(list, some)
         IN  /\ again \in Seq(BasicBlock)
             /\ InOrder(again)
             /\ \A k \in DOMAIN again :
                  \E i \in some : SameTarget(again[k], list[i])
             /\ \A i \in some :
                  \E k \in DOMAIN again : SameTarget(again[k], list[i])
  <1> DEFINE list == Settle(first)
             s == Sorted(list, some)
             again == from_some(list, some)
             n == Cardinality(some)
             at == At(list, some)
  <1>1. /\ list \in Seq(BasicBlock) /\ DOMAIN list = DOMAIN first
        /\ InOrder(list)
        /\ \A i \in DOMAIN first : list[i].asid = first[i].asid
    BY SettleType, SettleInOrder
  <1>2. \A i \in DOMAIN list : \A j \in DOMAIN list :
          i < j /\ list[i].asid = list[j].asid => ~IsSentinel(list[i].branch)
    BY <1>1, FollowedIsResolved
  <1> HIDE DEF list
  <1>3. /\ n \in Nat
        /\ s = [k \in 1 .. n |-> list[at[k]]]
        /\ at \in Bijection(1 .. n, some)
        /\ \A k, l \in 1 .. n : k < l => Before(list, at[k], at[l])
    BY <1>1, SortedInOrder
  <1> HIDE DEF n, at, s
  <1>4. /\ \A k \in 1 .. n : at[k] \in DOMAIN list /\ at[k] \in some
        /\ \A i \in some : \E k \in 1 .. n : at[k] = i
        /\ \A k, l \in 1 .. n : at[k] = at[l] => k = l
    BY <1>1, <1>3 DEF Bijection, Injection, Surjection, IsInjective
  <1>5. \A k \in 1 .. n : s[k] = list[at[k]] /\ s[k] \in BasicBlock
    BY <1>1, <1>3, <1>4, ListTypes
  <1>6. s \in Seq(BasicBlock) /\ DOMAIN s = 1 .. n
    BY <1>3, <1>5, FunctionIsSeq
  <1>7. \A k, l \in 1 .. n : k < l => at[k] < at[l] /\ Earlier(s[k], s[l])
    <2> TAKE k, l \in 1 .. n
    <2> HAVE k < l
    <2>1. /\ at[k] \in DOMAIN list /\ at[l] \in DOMAIN list
          /\ at[k] \in Nat /\ at[l] \in Nat /\ at[k] # at[l]
      BY <1>1, <1>4, ListTypes
    <2>2. Before(list, at[k], at[l])
      BY <1>3
    <2>3. /\ list[at[k]].asid \in Nat /\ list[at[l]].asid \in Nat
          /\ list[at[k]].seq_num \in Nat /\ list[at[l]].seq_num \in Nat
      BY <1>1, <2>1, ListTypes
    <2>4. ~(at[l] < at[k])
      <3> SUFFICES ASSUME at[l] < at[k]
                   PROVE  FALSE
        OBVIOUS
      <3>1. Earlier(list[at[l]], list[at[k]])
        BY <1>1, <2>1 DEF InOrder
      <3>2. QED
        BY <2>2, <2>3, <2>1, <3>1 DEF Before, Earlier
    <2>5. at[k] < at[l]
      BY <2>1, <2>4
    <2>6. Earlier(list[at[k]], list[at[l]])
      BY <1>1, <2>1, <2>5 DEF InOrder
    <2>7. QED
      BY <1>5, <2>5, <2>6
  <1>8. InOrder(s)
    BY <1>6, <1>7 DEF InOrder
  <1>9. again = Settle(s)
    BY DEF again, from_some, s
  <1> HIDE DEF again
  <1>10. /\ again \in Seq(BasicBlock) /\ InOrder(again)
         /\ DOMAIN again = 1 .. n
    BY <1>6, <1>8, <1>9, SettleInOrder, SettleType
  <1>11. ASSUME NEW k \in 1 .. n
         PROVE  SameTarget(again[k], list[at[k]])
    <2>1. CASE ~Follows(s, k)
      <3>1. again[k] = list[at[k]]
        BY <1>5, <1>6, <1>9, <2>1, SettleType
      <3>2. QED
        BY <3>1 DEF SameTarget
    <2>2. CASE Follows(s, k)
      <3>1. k + 1 \in 1 .. n /\ k < k + 1 /\ s[k + 1].asid = s[k].asid
        BY <1>6, <2>2 DEF Follows
      <3>2. at[k] < at[k + 1] /\ list[at[k]].asid = list[at[k + 1]].asid
        BY <1>5, <1>7, <3>1
      <3>3. ~IsSentinel(s[k].branch)
        BY <1>2, <1>4, <1>5, <3>1, <3>2
      <3>4. again[k] = [s[k] EXCEPT !.branch = resolve(@, s[k + 1].pc)]
        BY <1>6, <1>9, <2>2, SettleType
      <3>5. s[k] \in BasicBlock /\ s[k + 1].pc \in Pc /\ s[k].branch \in Branch
        BY <1>5, <3>1 DEF BasicBlock
      <3> DEFINE branch == s[k].branch
                 settled == resolve(branch, s[k + 1].pc)
      <3>6. [settled EXCEPT !.taken = FALSE] = [branch EXCEPT !.taken = FALSE]
        BY <3>3, <3>5, ResolveAgain
      <3> HIDE DEF settled
      <3>7. again[k] = [s[k] EXCEPT !.branch = settled]
        BY <3>4 DEF settled
      <3>8. SameTarget(again[k], s[k])
        BY <3>5, <3>6, <3>7 DEF SameTarget, BasicBlock
      <3>9. QED
        BY <1>5, <3>8
    <2>3. QED
      BY <2>1, <2>2
  <1>12. QED
    BY <1>4, <1>10, <1>11 DEF list, again

=============================================================================
