------------------------- MODULE PacketContainerProofs -------------------------
(***************************************************************************)
(* Proofs about PacketContainer, for every number of buffers, arrays and   *)
(* PacketInfo objects and every length of the arrays, for the class of the *)
(* defense and the lean one of the attacker alike.                         *)
(***************************************************************************)
EXTENDS PacketContainer, FiniteSetTheorems, TLAPS

USE NullAssumption DEF ArrIndex, PosIndex, Infos, NotSending, Idle

------------------------------------------------------------------------------
(* Elements by rank.  Compacted and NewInfo choose the element of a finite *)
(* set of numbers that has n elements below it.                            *)

Below(S, j) == {l \in S : l < j}

\* An element of a finite set of numbers has fewer elements below it than the set has.
LEMMA BelowFinite ==
  ASSUME NEW S \in SUBSET Nat, IsFiniteSet(S), NEW j \in S
  PROVE  Cardinality(Below(S, j)) \in 0 .. Cardinality(S) - 1
<1>1. /\ Below(S, j) \in SUBSET S
      /\ Below(S, j) # S
  BY DEF Below
<1>2. /\ IsFiniteSet(Below(S, j))
      /\ Cardinality(Below(S, j)) <= Cardinality(S)
      /\ Cardinality(S) # Cardinality(Below(S, j))
  BY <1>1, FS_Subset
<1>3. Cardinality(S) \in Nat /\ Cardinality(Below(S, j)) \in Nat
  BY <1>2, FS_CardinalityType
<1>4. QED
  BY <1>2, <1>3

\* A larger element has more elements below it.
LEMMA BelowGrows ==
  ASSUME NEW S \in SUBSET Nat, IsFiniteSet(S), NEW i \in S, NEW j \in S, i < j
  PROVE  Cardinality(Below(S, i)) < Cardinality(Below(S, j))
<1>1. /\ Below(S, i) \in SUBSET Below(S, j)
      /\ i \in Below(S, j) /\ i \notin Below(S, i)
  <2>1. i \in Nat /\ j \in Nat /\ \A l \in S : l \in Nat
    OBVIOUS
  <2>2. \A l \in S : l < i => l < j
    BY <2>1
  <2>3. Below(S, i) \in SUBSET Below(S, j)
    BY <2>2 DEF Below
  <2>4. i \in Below(S, j)
    BY DEF Below
  <2>5. ~(i < i)
    BY <2>1
  <2>6. i \notin Below(S, i)
    BY <2>5 DEF Below
  <2>7. QED
    BY <2>3, <2>4, <2>6
<1>2. IsFiniteSet(Below(S, j))
  <2>1. Below(S, j) \in SUBSET S
    BY DEF Below
  <2>2. QED
    BY <2>1, FS_Subset
<1>3. /\ IsFiniteSet(Below(S, i))
      /\ Cardinality(Below(S, i)) <= Cardinality(Below(S, j))
      /\ Cardinality(Below(S, j)) # Cardinality(Below(S, i))
  BY <1>1, <1>2, FS_Subset
<1>4. Cardinality(Below(S, j)) \in Nat /\ Cardinality(Below(S, i)) \in Nat
  BY <1>2, <1>3, FS_CardinalityType
<1>5. QED
  BY <1>3, <1>4

\* The element of S with n elements below it.
Ranked(S, n) == CHOOSE j \in S : Cardinality(Below(S, j)) = n

\* Each number below the size of a finite set is the rank of an element.
LEMMA RankExists ==
  ASSUME NEW S \in SUBSET Nat, IsFiniteSet(S), NEW n \in 0 .. Cardinality(S) - 1
  PROVE  \E j \in S : Cardinality(Below(S, j)) = n
<1> DEFINE T == 0 .. Cardinality(S) - 1
           f == [j \in S |-> Cardinality(Below(S, j))]
<1>1. Cardinality(S) \in Nat
  BY FS_CardinalityType
<1>2. IsFiniteSet(T) /\ Cardinality(T) = Cardinality(S)
  BY <1>1, FS_Interval
<1>3. f \in [S -> T]
  BY BelowFinite
<1>4. ASSUME NEW i \in S, NEW j \in S, f[i] = f[j] PROVE i = j
  <2>1. CASE i < j
    BY <2>1, <1>4, BelowGrows, BelowFinite
  <2>2. CASE j < i
    BY <2>2, <1>4, BelowGrows, BelowFinite
  <2>3. QED
    BY <2>1, <2>2
<1>5. f \in Injection(S, T)
  BY <1>3, <1>4 DEF Injection, IsInjective
<1>6. f \in Surjection(S, T)
  BY <1>2, <1>5, FS_Injection
<1>7. QED
  BY <1>6 DEF Surjection

\* The element chosen by rank has that rank.
LEMMA RankedIsRanked ==
  ASSUME NEW S \in SUBSET Nat, IsFiniteSet(S), NEW n \in 0 .. Cardinality(S) - 1
  PROVE  Ranked(S, n) \in S /\ Cardinality(Below(S, Ranked(S, n))) = n
BY RankExists DEF Ranked

\* Each element is the one chosen by its rank.
LEMMA RankedOfRank ==
  ASSUME NEW S \in SUBSET Nat, IsFiniteSet(S), NEW j \in S
  PROVE  Ranked(S, Cardinality(Below(S, j))) = j
<1>1. PICK i \in S : /\ i = Ranked(S, Cardinality(Below(S, j)))
                     /\ Cardinality(Below(S, i)) = Cardinality(Below(S, j))
  BY BelowFinite, RankedIsRanked
<1>2. ASSUME NEW k \in S, NEW l \in S, k < l
      PROVE  Cardinality(Below(S, k)) # Cardinality(Below(S, l))
  BY <1>2, BelowFinite, BelowGrows
<1>3. ~(i < j) /\ ~(j < i)
  BY <1>1, <1>2
<1>4. QED
  BY <1>1, <1>3

------------------------------------------------------------------------------
(* Indices and places.                                                     *)

\* Multiplication by a number of packets is monotone.
LEMMA TimesMonotone ==
  ASSUME NEW a \in Int, NEW b \in Int, NEW n \in Nat, a <= b
  PROVE  a * n <= b * n
<1>1. 0 <= (b - a) * n
  BY SMT
<1>2. QED
  BY <1>1, SMT

\* The place of an index below the capacity.
LEMMA PlaceOfIndex ==
  ASSUME NEW t \in SlotIndex
  PROVE  /\ Arr(t) \in ArrIndex
         /\ Pos(t) \in PosIndex
         /\ t = Arr(t) * BurstSize + Pos(t)
<1>1. /\ t \in Nat /\ t < NumArrs * BurstSize
      /\ BurstSize \in Nat /\ BurstSize > 0 /\ NumArrs \in Nat
  BY ArraysAssumption, CapacityAssumption DEF SlotIndex
<1>2. /\ Arr(t) \in Int
      /\ Pos(t) \in 0 .. BurstSize - 1
      /\ t = (Arr(t) * BurstSize) + Pos(t)
  BY <1>1 DEF Arr, Pos
<1>3. Arr(t) >= 0
  <2>1. SUFFICES ASSUME Arr(t) + 1 <= 0 PROVE FALSE
    BY <1>2
  <2>2. (Arr(t) + 1) * BurstSize <= 0 * BurstSize
    BY <1>1, <1>2, <2>1, TimesMonotone
  <2>3. QED
    BY <1>1, <1>2, <2>2
<1>4. Arr(t) <= NumArrs - 1
  <2>1. SUFFICES ASSUME NumArrs <= Arr(t) PROVE FALSE
    BY <1>1, <1>2
  <2>2. NumArrs * BurstSize <= Arr(t) * BurstSize
    BY <1>1, <1>2, <2>1, TimesMonotone
  <2>3. QED
    BY <1>1, <1>2, <2>2
<1>5. QED
  BY <1>2, <1>3, <1>4

\* An array is filled with no more than BurstSize packets.
LEMMA FilledType ==
  ASSUME NEW t \in Nat, NEW i \in ArrIndex
  PROVE  Filled(t, i) \in 0 .. BurstSize
BY ArraysAssumption DEF Filled

\* A buffer behind the last one goes to the end of what is filled.
LEMMA FilledNext ==
  ASSUME NEW t \in SlotIndex
  PROVE  /\ Filled(t, Arr(t)) = Pos(t)
         /\ \A i \in ArrIndex : Filled(t + 1, i) = IF i = Arr(t) THEN Pos(t) + 1 ELSE Filled(t, i)
<1> DEFINE a == Arr(t)
<1>1. /\ t \in Nat /\ BurstSize \in Nat /\ BurstSize > 0 /\ NumArrs \in Nat
      /\ a \in ArrIndex /\ a \in Int
      /\ Pos(t) \in 0 .. BurstSize - 1
      /\ t = a * BurstSize + Pos(t)
      /\ (a + 1) * BurstSize = a * BurstSize + BurstSize
  BY PlaceOfIndex, ArraysAssumption DEF SlotIndex
<1> HIDE DEF a
<1>2. a * BurstSize \in Int
  BY <1>1
<1>3. Filled(t, a) = Pos(t)
  BY <1>1, <1>2 DEF Filled
<1>4. Filled(t + 1, a) = Pos(t) + 1
  BY <1>1, <1>2 DEF Filled
<1>5. ASSUME NEW i \in ArrIndex, i < a PROVE Filled(t + 1, i) = Filled(t, i)
  <2>1. (i + 1) * BurstSize <= a * BurstSize /\ i * BurstSize <= a * BurstSize
    BY <1>1, <1>5, TimesMonotone
  <2>2. i * BurstSize < (i + 1) * BurstSize /\ i * BurstSize \in Int /\ (i + 1) * BurstSize \in Int
    BY <1>1
  <2>3. QED
    BY <1>1, <1>2, <2>1, <2>2 DEF Filled
<1>6. ASSUME NEW i \in ArrIndex, a < i PROVE Filled(t + 1, i) = Filled(t, i)
  <2>1. (a + 1) * BurstSize <= i * BurstSize /\ i * BurstSize \in Int
    BY <1>1, <1>6, TimesMonotone
  <2>2. QED
    BY <1>1, <1>2, <2>1 DEF Filled
<1>7. QED
  BY <1>1, <1>3, <1>4, <1>5, <1>6 DEF a

\* A burst fills the first array only.
LEMMA FilledBurst ==
  ASSUME NEW n \in 0 .. BurstSize, NEW i \in ArrIndex
  PROVE  Filled(n, i) = IF i = 0 THEN n ELSE 0
<1>1. BurstSize \in Nat /\ BurstSize > 0
  BY ArraysAssumption
<1>2. CASE i = 0
  BY <1>1, <1>2 DEF Filled
<1>3. CASE i # 0
  <2>1. 1 * BurstSize <= i * BurstSize /\ i * BurstSize \in Int
    BY <1>1, <1>3, TimesMonotone
  <2>2. QED
    BY <1>1, <1>3, <2>1 DEF Filled
<1>4. QED
  BY <1>2, <1>3

------------------------------------------------------------------------------
(* The operators on the members.                                           *)

\* A place is an array and a position.
LEMMA PlaceParts ==
  ASSUME NEW p \in Places
  PROVE  p[1] \in ArrIndex /\ p[2] \in PosIndex /\ p = <<p[1], p[2]>>
BY DEF Places

\* The two pointer arrays have their types.
LEMMA ArraysType ==
  ASSUME NEW A, NEW arrs \in [ArrIndex -> [PosIndex -> A]], NEW p \in Places
  PROVE  arrs[p[1]][p[2]] \in A
<1>1. arrs[p[1]] \in [PosIndex -> A]
  BY PlaceParts
<1>2. QED
  BY <1>1, PlaceParts

\* The fields of the class have their types.
LEMMA MembersTypes ==
  ASSUME NEW k \in Members, NEW p \in Places
  PROVE  /\ k.mbuf_arrs[p[1]][p[2]] \in Mbufs \cup {Null}
         /\ k.pkt_info_arrs[p[1]][p[2]] \in Infos \cup {Null}
         /\ k.nb_mbufs[p[1]] \in 0 .. BurstSize
<1>1. /\ k.mbuf_arrs \in [ArrIndex -> [PosIndex -> Mbufs \cup {Null}]]
      /\ k.pkt_info_arrs \in [ArrIndex -> [PosIndex -> Infos \cup {Null}]]
      /\ k.nb_mbufs \in [ArrIndex -> 0 .. BurstSize]
  BY DEF Members
<1>2. k.mbuf_arrs[p[1]][p[2]] \in Mbufs \cup {Null}
  BY <1>1, ArraysType
<1>3. k.pkt_info_arrs[p[1]][p[2]] \in Infos \cup {Null}
  BY <1>1, ArraysType
<1>4. k.nb_mbufs[p[1]] \in 0 .. BurstSize
  BY <1>1, PlaceParts
<1>5. QED
  BY <1>2, <1>3, <1>4

\* Clearing writes Null at the given places and nothing else.
LEMMA ClearedFacts ==
  ASSUME NEW A, Null \in A, NEW arrs \in [ArrIndex -> [PosIndex -> A]], NEW ps
  PROVE  /\ Cleared(arrs, ps) \in [ArrIndex -> [PosIndex -> A]]
         /\ \A p \in Places : Cleared(arrs, ps)[p[1]][p[2]] =
              IF p \in ps THEN Null ELSE arrs[p[1]][p[2]]
<1>1. ASSUME NEW i \in ArrIndex
      PROVE  /\ Cleared(arrs, ps)[i] = [j \in PosIndex |-> IF <<i, j>> \in ps THEN Null ELSE arrs[i][j]]
             /\ Cleared(arrs, ps)[i] \in [PosIndex -> A]
  <2>1. arrs[i] \in [PosIndex -> A]
    OBVIOUS
  <2>2. Cleared(arrs, ps)[i] = [j \in PosIndex |-> IF <<i, j>> \in ps THEN Null ELSE arrs[i][j]]
    BY DEF Cleared
  <2>3. QED
    BY <2>1, <2>2
<1>2. Cleared(arrs, ps) \in [ArrIndex -> [PosIndex -> A]]
  <2>1. Cleared(arrs, ps) = [i \in ArrIndex |-> Cleared(arrs, ps)[i]]
    BY DEF Cleared
  <2>2. QED
    BY <1>1, <2>1
<1>3. ASSUME NEW p \in Places
      PROVE  Cleared(arrs, ps)[p[1]][p[2]] = IF p \in ps THEN Null ELSE arrs[p[1]][p[2]]
  <2>1. PICK i \in ArrIndex, j \in PosIndex : p = <<i, j>>
    BY DEF Places
  <2>2. Cleared(arrs, ps)[i][j] = IF <<i, j>> \in ps THEN Null ELSE arrs[i][j]
    BY <1>1
  <2>3. p[1] = i /\ p[2] = j
    BY <2>1
  <2>4. QED
    BY <2>1, <2>2, <2>3, Zenon
<1>4. QED
  BY <1>2, <1>3

\* An array beyond those in use is empty.
LEMMA InUse ==
  ASSUME TypeOK, CountersInv, NEW i \in ArrIndex, c.nb_mbufs[i] # 0
  PROVE  i < c.arrays
<1>1. /\ c.arrays \in 0 .. NumArrs /\ c.total \in 0 .. Capacity /\ BurstSize \in Nat
      /\ Capacity \in Nat /\ NumArrs \in Nat
  BY ArraysAssumption, CapacityAssumption DEF TypeOK, Members
<1>2. CASE Idle
  <2>1. c.total <= c.arrays * BurstSize /\ ~(c.total <= i * BurstSize)
    BY <1>2 DEF CountersInv, Filled
  <2>2. SUFFICES ASSUME c.arrays <= i PROVE FALSE
    BY <1>1
  <2>3. c.arrays * BurstSize <= i * BurstSize
    BY <1>1, <2>2, TimesMonotone
  <2>4. c.arrays * BurstSize \in Int /\ i * BurstSize \in Int
    BY <1>1
  <2>5. QED
    BY <1>1, <2>1, <2>3, <2>4
<1>3. CASE ~Idle
  BY <1>1, <1>3 DEF CountersInv
<1>4. QED
  BY <1>2, <1>3

\* A record of cleared arrays and counters is a container.
LEMMA EmptiedMember ==
  ASSUME NEW k \in Members,
         NEW a \in [ArrIndex -> [PosIndex -> Mbufs \cup {Null}]],
         NEW b \in [ArrIndex -> [PosIndex -> Infos \cup {Null}]],
         NEW n \in [ArrIndex -> 0 .. BurstSize],
         NEW q \in 0 .. BurstSize, NEW t \in 0 .. Capacity, NEW r \in 0 .. NumArrs, NEW d \in Nat
  PROVE  [k EXCEPT !.mbuf_arrs = a, !.pkt_info_arrs = b, !.nb_mbufs = n,
                   !.polled = q, !.total = t, !.dropped = d, !.arrays = r] \in Members
BY DEF Members

\* empty_container leaves no buffer and no count, whatever was in it.
LEMMA EmptiedFacts ==
  ASSUME TypeOK, CountersInv, PlacesInv
  PROVE  /\ Emptied(c) \in Members
         /\ \A p \in Places : Emptied(c).mbuf_arrs[p[1]][p[2]] = Null
         /\ \A p \in Places : Emptied(c).pkt_info_arrs[p[1]][p[2]] =
              IF p \in Listed(c) THEN Null ELSE Inf(p)
         /\ \A i \in ArrIndex : Emptied(c).nb_mbufs[i] = 0
         /\ Emptied(c).polled = 0 /\ Emptied(c).total = 0
         /\ Emptied(c).arrays = 0 /\ Emptied(c).dropped = 0
<1>1. c \in Members
  BY DEF TypeOK
<1>2. /\ c.mbuf_arrs \in [ArrIndex -> [PosIndex -> Mbufs \cup {Null}]]
      /\ c.pkt_info_arrs \in [ArrIndex -> [PosIndex -> Infos \cup {Null}]]
  BY <1>1 DEF Members
<1>3. /\ Emptied(c).mbuf_arrs = Cleared(c.mbuf_arrs, Listed(c))
      /\ Emptied(c).pkt_info_arrs = Cleared(c.pkt_info_arrs, Listed(c))
      /\ Emptied(c).nb_mbufs = [i \in ArrIndex |-> IF i < c.arrays THEN 0 ELSE c.nb_mbufs[i]]
      /\ Emptied(c).polled = 0 /\ Emptied(c).total = 0
      /\ Emptied(c).arrays = 0 /\ Emptied(c).dropped = 0
  BY <1>1 DEF Emptied, Members
<1>4. /\ Cleared(c.mbuf_arrs, Listed(c)) \in [ArrIndex -> [PosIndex -> Mbufs \cup {Null}]]
      /\ \A p \in Places : Cleared(c.mbuf_arrs, Listed(c))[p[1]][p[2]] =
           IF p \in Listed(c) THEN Null ELSE c.mbuf_arrs[p[1]][p[2]]
  <2> DEFINE A == Mbufs \cup {Null}
  <2>1. Null \in A
    OBVIOUS
  <2>2. c.mbuf_arrs \in [ArrIndex -> [PosIndex -> A]]
    BY <1>2
  <2> HIDE DEF A
  <2>3. /\ Cleared(c.mbuf_arrs, Listed(c)) \in [ArrIndex -> [PosIndex -> A]]
        /\ \A p \in Places : Cleared(c.mbuf_arrs, Listed(c))[p[1]][p[2]] =
             IF p \in Listed(c) THEN Null ELSE c.mbuf_arrs[p[1]][p[2]]
    BY <2>1, <2>2, ClearedFacts
  <2>4. QED
    BY <2>3 DEF A
<1>5. /\ Cleared(c.pkt_info_arrs, Listed(c)) \in [ArrIndex -> [PosIndex -> Infos \cup {Null}]]
       /\ \A p \in Places : Cleared(c.pkt_info_arrs, Listed(c))[p[1]][p[2]] =
            IF p \in Listed(c) THEN Null ELSE c.pkt_info_arrs[p[1]][p[2]]
  <2> DEFINE A == Infos \cup {Null}
  <2>1. Null \in A
    OBVIOUS
  <2>2. c.pkt_info_arrs \in [ArrIndex -> [PosIndex -> A]]
    BY <1>2
  <2> HIDE DEF A
  <2>3. /\ Cleared(c.pkt_info_arrs, Listed(c)) \in [ArrIndex -> [PosIndex -> A]]
        /\ \A p \in Places : Cleared(c.pkt_info_arrs, Listed(c))[p[1]][p[2]] =
             IF p \in Listed(c) THEN Null ELSE c.pkt_info_arrs[p[1]][p[2]]
    BY <2>1, <2>2, ClearedFacts
  <2>4. QED
    BY <2>3 DEF A
<1>6. \A i \in ArrIndex : Emptied(c).nb_mbufs[i] = 0
  BY <1>3, InUse
<1>7. ASSUME NEW p \in Places PROVE Emptied(c).mbuf_arrs[p[1]][p[2]] = Null
  <2>1. CASE p \in Listed(c)
    BY <1>3, <1>4, <2>1
  <2>2. CASE p \notin Listed(c)
    <3>1. p[1] \in ArrIndex /\ p[2] \in PosIndex /\ c.nb_mbufs[p[1]] \in 0 .. BurstSize
      BY <1>1, MembersTypes, PlaceParts
    <3>2. ~(p[2] < c.nb_mbufs[p[1]])
      <4>1. SUFFICES ASSUME p[2] < c.nb_mbufs[p[1]] PROVE FALSE
        OBVIOUS
      <4>2. p[1] < c.arrays
        BY <3>1, <4>1, InUse, ArraysAssumption
      <4>3. QED
        BY <2>2, <4>1, <4>2 DEF Listed, Places
    <3>3. Buf(p) = Null
      BY <3>2 DEF PlacesInv
    <3>4. QED
      BY <1>3, <1>4, <2>2, <3>3 DEF Buf
  <2>3. QED
    BY <2>1, <2>2
<1>8. \A p \in Places : Emptied(c).pkt_info_arrs[p[1]][p[2]] = IF p \in Listed(c) THEN Null ELSE Inf(p)
  BY <1>3, <1>5 DEF Inf
<1>9. Emptied(c) \in Members
  <2>1. [i \in ArrIndex |-> IF i < c.arrays THEN 0 ELSE c.nb_mbufs[i]] \in [ArrIndex -> 0 .. BurstSize]
    BY <1>3, <1>6, ArraysAssumption
  <2>2. 0 \in 0 .. BurstSize /\ 0 \in 0 .. Capacity /\ 0 \in 0 .. NumArrs /\ 0 \in Nat
    BY ArraysAssumption, CapacityAssumption
  <2>3. QED
    BY <1>1, <1>4, <1>5, <2>1, <2>2, EmptiedMember DEF Emptied
<1>10. QED
  BY <1>3, <1>6, <1>7, <1>8, <1>9

Arrays(A) == [ArrIndex -> [PosIndex -> A]]

\* One pointer of an array is written.
Written(arrs, q, v) == [arrs EXCEPT ![q[1]][q[2]] = v]

\* Writing one pointer changes that place only.
LEMMA WrittenFacts ==
  ASSUME NEW A, NEW arrs \in Arrays(A), NEW q \in Places, NEW v \in A
  PROVE  /\ Written(arrs, q, v) \in Arrays(A)
         /\ \A p \in Places : Written(arrs, q, v)[p[1]][p[2]] = IF p = q THEN v ELSE arrs[p[1]][p[2]]
<1>1. PICK i \in ArrIndex, j \in PosIndex : q = <<i, j>> /\ q[1] = i /\ q[2] = j
  BY DEF Places
<1>2. arrs \in [ArrIndex -> [PosIndex -> A]] /\ \A l \in ArrIndex : arrs[l] \in [PosIndex -> A]
  BY DEF Arrays
<1>3. Written(arrs, q, v) \in Arrays(A)
  BY <1>1, <1>2 DEF Written, Arrays
<1>4. ASSUME NEW p \in Places
      PROVE  Written(arrs, q, v)[p[1]][p[2]] = IF p = q THEN v ELSE arrs[p[1]][p[2]]
  <2>1. PICK a \in ArrIndex, b \in PosIndex : p = <<a, b>>
    BY DEF Places
  <2>2. Written(arrs, q, v)[a][b] = IF a = i /\ b = j THEN v ELSE arrs[a][b]
    BY <1>1, <1>2 DEF Written
  <2>3. QED
    BY <1>1, <2>1, <2>2
<1>5. QED
  BY <1>3, <1>4

\* A record with one more buffer is a container.
LEMMA AppendedMember ==
  ASSUME NEW k \in Members, NEW i \in ArrIndex, NEW j \in PosIndex, NEW m \in Mbufs,
         NEW t \in 0 .. Capacity, NEW n \in 0 .. BurstSize, NEW r \in 0 .. NumArrs
  PROVE  [k EXCEPT !.mbuf_arrs[i][j] = m, !.total = t, !.nb_mbufs[i] = n, !.arrays = r] \in Members
BY DEF Members

\* The fields of that record.
LEMMA AppendedFields ==
  ASSUME NEW k \in Members, NEW i \in ArrIndex, NEW j \in PosIndex, NEW m, NEW t, NEW n, NEW r
  PROVE  LET a == [k EXCEPT !.mbuf_arrs[i][j] = m, !.total = t, !.nb_mbufs[i] = n, !.arrays = r]
         IN  /\ a.mbuf_arrs = [k.mbuf_arrs EXCEPT ![i][j] = m]
             /\ a.pkt_info_arrs = k.pkt_info_arrs
             /\ a.nb_mbufs = [k.nb_mbufs EXCEPT ![i] = n]
             /\ a.total = t /\ a.arrays = r
             /\ a.polled = k.polled /\ a.dropped = k.dropped
BY DEF Members

\* Where the next buffer goes.
NextPlace == <<Arr(c.total), Pos(c.total)>>

\* One more packet needs one more array exactly if those in use are full.
LEMMA ArraysGrow ==
  ASSUME TypeOK, CountersInv, Idle, c.total < Capacity,
         NEW r, r = IF BurstSize * c.arrays < c.total + 1 THEN c.arrays + 1 ELSE c.arrays
  PROVE  /\ r \in 1 .. NumArrs
         /\ c.total + 1 <= r * BurstSize
         /\ (r - 1) * BurstSize < c.total + 1
<1>1. /\ c.arrays \in 0 .. NumArrs /\ c.total \in 0 .. Capacity
      /\ BurstSize \in Nat /\ BurstSize > 0 /\ NumArrs \in Nat /\ NumArrs > 0
      /\ Capacity = NumArrs * BurstSize /\ Capacity \in Nat
  BY ArraysAssumption, CapacityAssumption DEF TypeOK, Members
<1>2. /\ c.arrays * BurstSize \in Int /\ BurstSize * c.arrays = c.arrays * BurstSize
      /\ (c.arrays + 1) * BurstSize = c.arrays * BurstSize + BurstSize
      /\ (c.arrays - 1) * BurstSize = c.arrays * BurstSize - BurstSize
  BY <1>1
<1>3. /\ c.total <= c.arrays * BurstSize
      /\ c.total = 0 => c.arrays <= 1
      /\ c.total > 0 => (c.arrays - 1) * BurstSize < c.total
  BY DEF CountersInv
<1>4. CASE BurstSize * c.arrays < c.total + 1
  <2>1. c.arrays < NumArrs
    <3>1. SUFFICES ASSUME NumArrs <= c.arrays PROVE FALSE
      BY <1>1
    <3>2. NumArrs * BurstSize <= c.arrays * BurstSize
      BY <1>1, <3>1, TimesMonotone
    <3>3. QED
      BY <1>1, <1>2, <1>4, <3>2
  <2>2. r = c.arrays + 1 /\ r - 1 = c.arrays
    BY <1>1, <1>4
  <2>3. r * BurstSize = c.arrays * BurstSize + BurstSize /\ (r - 1) * BurstSize = c.arrays * BurstSize
    BY <1>2, <2>2
  <2>4. PICK x \in Int : x = c.arrays * BurstSize
    BY <1>2
  <2>5. c.total <= x /\ x < c.total + 1
    BY <1>2, <1>3, <1>4, <2>4
  <2>6. c.total + 1 <= x + BurstSize
    BY <1>1, <2>5
  <2>7. QED
    BY <1>1, <2>1, <2>2, <2>3, <2>4, <2>5, <2>6
<1>5. CASE ~(BurstSize * c.arrays < c.total + 1)
  <2>1. r = c.arrays
    BY <1>5
  <2>2. PICK x \in Int : x = c.arrays * BurstSize
    BY <1>2
  <2>3. c.total + 1 <= x
    BY <1>1, <1>2, <1>5, <2>2
  <2>4. c.arrays >= 1
    <3>1. c.arrays = 0 => x = 0
      BY <1>1, <2>2
    <3>2. QED
      BY <1>1, <2>3, <3>1
  <2>5. (c.arrays - 1) * BurstSize < c.total + 1
    <3>1. CASE c.total = 0
      <4>1. c.arrays - 1 = 0
        BY <1>1, <1>3, <2>4, <3>1
      <4>2. (c.arrays - 1) * BurstSize = 0
        BY <1>1, <4>1
      <4>3. QED
        BY <1>1, <4>2
    <3>2. CASE c.total # 0
      <4>1. (c.arrays - 1) * BurstSize \in Int
        BY <1>1
      <4>2. QED
        BY <1>1, <1>3, <3>2, <4>1
    <3>3. QED
      BY <3>1, <3>2
  <2>6. QED
    BY <1>1, <2>1, <2>2, <2>3, <2>4, <2>5
<1>6. QED
  BY <1>4, <1>5

\* A buffer added goes to the next place and is counted there.
LEMMA AppendedFacts ==
  ASSUME TypeOK, CountersInv, PlacesInv, Idle, c.total < Capacity, NEW m \in Mbufs
  PROVE  /\ AppendedBuffer(c, m) \in Members
         /\ NextPlace \in Places /\ Buf(NextPlace) = Null
         /\ \A p \in Places : AppendedBuffer(c, m).mbuf_arrs[p[1]][p[2]] =
              IF p = NextPlace THEN m ELSE Buf(p)
         /\ AppendedBuffer(c, m).pkt_info_arrs = c.pkt_info_arrs
         /\ \A i \in ArrIndex : AppendedBuffer(c, m).nb_mbufs[i] = Filled(c.total + 1, i)
         /\ \A p \in Places : p[2] < AppendedBuffer(c, m).nb_mbufs[p[1]] <=>
              p = NextPlace \/ p[2] < c.nb_mbufs[p[1]]
         /\ AppendedBuffer(c, m).total = c.total + 1
         /\ AppendedBuffer(c, m).arrays \in 1 .. NumArrs
         /\ c.total + 1 <= AppendedBuffer(c, m).arrays * BurstSize
         /\ (AppendedBuffer(c, m).arrays - 1) * BurstSize < c.total + 1
         /\ AppendedBuffer(c, m).polled = c.polled
         /\ AppendedBuffer(c, m).dropped = c.dropped
<1> DEFINE i == Arr(c.total)
           j == Pos(c.total)
           r == IF BurstSize * c.arrays < c.total + 1 THEN c.arrays + 1 ELSE c.arrays
           k == AppendedBuffer(c, m)
<1>1. /\ c \in Members /\ c.total \in SlotIndex /\ c.total + 1 \in 0 .. Capacity
      /\ c.mbuf_arrs \in [ArrIndex -> [PosIndex -> Mbufs \cup {Null}]]
      /\ c.nb_mbufs \in [ArrIndex -> 0 .. BurstSize]
  BY CapacityAssumption DEF TypeOK, Members, SlotIndex
<1>2. i \in ArrIndex /\ j \in PosIndex /\ NextPlace \in Places /\ NextPlace = <<i, j>>
  BY <1>1, PlaceOfIndex DEF NextPlace, Places
<1>3. c.nb_mbufs[i] = j /\ c.nb_mbufs[i] + 1 \in 0 .. BurstSize
  BY <1>1, <1>2, FilledNext, ArraysAssumption DEF CountersInv
<1>4. /\ r \in 1 .. NumArrs
      /\ c.total + 1 <= r * BurstSize
      /\ (r - 1) * BurstSize < c.total + 1
  BY ArraysGrow
<1>5. k = [c EXCEPT !.mbuf_arrs[i][j] = m, !.total = c.total + 1,
                    !.nb_mbufs[i] = c.nb_mbufs[i] + 1, !.arrays = r]
  BY DEF AppendedBuffer
<1> HIDE DEF i, j, r, k
<1>6. k \in Members
  <2>1. r \in 0 .. NumArrs
    BY <1>4, ArraysAssumption
  <2>2. QED
    BY <1>1, <1>2, <1>3, <1>5, <2>1, AppendedMember
<1>7. /\ k.mbuf_arrs = [c.mbuf_arrs EXCEPT ![i][j] = m]
      /\ k.pkt_info_arrs = c.pkt_info_arrs
      /\ k.nb_mbufs = [c.nb_mbufs EXCEPT ![i] = c.nb_mbufs[i] + 1]
      /\ k.total = c.total + 1 /\ k.arrays = r
      /\ k.polled = c.polled /\ k.dropped = c.dropped
  BY <1>1, <1>2, <1>5, AppendedFields
<1>8. \A p \in Places : k.mbuf_arrs[p[1]][p[2]] = IF p = NextPlace THEN m ELSE Buf(p)
  <2>1. k.mbuf_arrs = Written(c.mbuf_arrs, NextPlace, m)
    BY <1>2, <1>7 DEF Written
  <2>2. c.mbuf_arrs \in Arrays(Mbufs \cup {Null}) /\ m \in Mbufs \cup {Null}
    BY <1>1 DEF Arrays
  <2>3. \A p \in Places : Written(c.mbuf_arrs, NextPlace, m)[p[1]][p[2]] =
          IF p = NextPlace THEN m ELSE c.mbuf_arrs[p[1]][p[2]]
    BY <1>2, <2>2, WrittenFacts
  <2>4. QED
    BY <2>1, <2>3 DEF Buf
<1>9. Buf(NextPlace) = Null
  <2>1. NextPlace[1] = i /\ NextPlace[2] = j
    BY <1>2
  <2>2. ~(NextPlace[2] < c.nb_mbufs[NextPlace[1]])
    BY <1>2, <1>3, <2>1
  <2>3. QED
    BY <1>2, <2>2 DEF PlacesInv
<1>10. \A a \in ArrIndex : k.nb_mbufs[a] = IF a = i THEN j + 1 ELSE c.nb_mbufs[a]
  BY <1>1, <1>3, <1>7
<1>11. \A a \in ArrIndex : k.nb_mbufs[a] = Filled(c.total + 1, a)
  BY <1>1, <1>10, FilledNext DEF CountersInv, i, j
<1>12. ASSUME NEW p \in Places
       PROVE  p[2] < k.nb_mbufs[p[1]] <=> p = NextPlace \/ p[2] < c.nb_mbufs[p[1]]
  <2>1. PICK a \in ArrIndex, b \in PosIndex : p = <<a, b>>
    BY DEF Places
  <2>2. p[1] = a /\ p[2] = b
    BY <2>1
  <2>3. p = NextPlace <=> a = i /\ b = j
    BY <1>2, <2>1
  <2>4. b < k.nb_mbufs[a] <=> (a = i /\ b = j) \/ b < c.nb_mbufs[a]
    BY <1>2, <1>3, <1>10
  <2>5. QED
    BY <2>2, <2>3, <2>4
<1>13. QED
  BY <1>2, <1>4, <1>6, <1>7, <1>8, <1>9, <1>11, <1>12 DEF k

------------------------------------------------------------------------------
(* Adding a packet.                                                        *)

\* Nothing is being sent: every place counts.
LEMMA IdleActive == Idle => Active = Places
BY ArraysAssumption DEF Active, Places

\* The types of pointers and counters, by place.
LEMMA MembersOK ==
  ASSUME TypeOK
  PROVE  /\ c \in Members
         /\ \A p \in Places : Buf(p) \in Mbufs \cup {Null} /\ Inf(p) \in Infos \cup {Null}
         /\ \A p \in Places : p[1] \in ArrIndex /\ p[2] \in PosIndex
         /\ \A i \in ArrIndex : c.nb_mbufs[i] \in 0 .. BurstSize
<1>1. c \in Members
  BY DEF TypeOK
<1>2. \A i \in ArrIndex : c.nb_mbufs[i] \in 0 .. BurstSize
  BY <1>1 DEF Members
<1>3. QED
  BY <1>1, <1>2, MembersTypes, PlaceParts DEF Buf, Inf

\* The buffer is counted, and it lies where there was none.
LEMMA AppendPreserves ==
  ASSUME IInv, Idle, c.total < Capacity, NEW m \in Mbufs, sending' = sending,
         c'.mbuf_arrs = AppendedBuffer(c, m).mbuf_arrs,
         c'.nb_mbufs = AppendedBuffer(c, m).nb_mbufs,
         c'.total = AppendedBuffer(c, m).total, c'.arrays = AppendedBuffer(c, m).arrays,
         c'.polled = AppendedBuffer(c, m).polled, c'.dropped = AppendedBuffer(c, m).dropped
  PROVE  CountersInv' /\ PlacesInv' /\ \A p \in Places : Buf(p)' = IF p = NextPlace THEN m ELSE Buf(p)
<1>1. TypeOK /\ CountersInv /\ PlacesInv
  BY DEF IInv
<1>2. \A p \in Places : Buf(p)' = IF p = NextPlace THEN m ELSE Buf(p)
  BY <1>1, AppendedFacts DEF Buf
<1>3. CountersInv'
  <2>1. c.total \in Nat /\ c.polled \in Nat /\ c.polled <= c.total
    BY <1>1, CapacityAssumption, ArraysAssumption DEF CountersInv, TypeOK, Members
  <2>2. /\ \A i \in ArrIndex : c'.nb_mbufs[i] = Filled(c.total + 1, i)
        /\ c'.total = c.total + 1 /\ c'.polled = c.polled
        /\ c.total + 1 <= c'.arrays * BurstSize
        /\ (c'.arrays - 1) * BurstSize < c.total + 1
    BY <1>1, AppendedFacts
  <2>3. \A i \in ArrIndex : c'.nb_mbufs[i] = Filled(c'.total, i)
    BY <2>2
  <2>4. c'.total > 0 /\ c'.total # 0 /\ c'.polled <= c'.total
    BY <2>1, <2>2
  <2>5. QED
    BY <2>2, <2>3, <2>4 DEF CountersInv
<1>4. PlacesInv'
  <2>1. /\ \A p \in Places : p[2] < c'.nb_mbufs[p[1]] <=> p = NextPlace \/ p[2] < c.nb_mbufs[p[1]]
        /\ c'.dropped = c.dropped
    BY <1>1, AppendedFacts
  <2>2. \A p \in Places : Buf(p)' # Null => p[2] < c'.nb_mbufs[p[1]]
    BY <1>1, <1>2, <2>1 DEF PlacesInv
  <2>3. c.dropped = 0 => \A p \in Places : p[2] < c'.nb_mbufs[p[1]] => Buf(p)' # Null
    BY <1>1, <1>2, <2>1 DEF PlacesInv
  <2>4. QED
    BY <2>1, <2>2, <2>3 DEF PlacesInv
<1>5. QED
  BY <1>2, <1>3, <1>4

\* A free buffer goes to a place of its own.
LEMMA FreeToPlace ==
  ASSUME TypeOK, BuffersInv, Idle, sending' = sending,
         NEW q \in Places, Buf(q) = Null, NEW m \in pool,
         \A p \in Places : Buf(p)' = IF p = q THEN m ELSE Buf(p),
         pool' = pool \ {m}, wire' = wire, taken' = taken,
         \A x \in taken : heap'[x] = heap[x]
  PROVE  BuffersInv'
<1>1. /\ Active = Places /\ Active' = Places
      /\ m \in Mbufs /\ m # Null /\ m \notin wire
      /\ \A p \in Places : Buf(p) # m
      /\ \A x \in taken : heap[x] # m
  BY IdleActive DEF BuffersInv, TypeOK, Active
<1>2. (pool \cap wire = {})'
  BY DEF BuffersInv
<1>3. \A p \in Places : Buf(p)' \notin pool' \cup wire'
  BY <1>1 DEF BuffersInv
<1>4. \A p, r \in Places : Buf(p)' = Buf(r)' /\ Buf(p)' # Null => p = r
  BY <1>1 DEF BuffersInv
<1>5. \A x \in taken : heap'[x] \in Mbufs \ (pool' \cup wire') /\ \A p \in Places : Buf(p)' # heap'[x]
  BY <1>1 DEF BuffersInv
<1>6. \A x, y \in taken : heap'[x] = heap'[y] => x = y
  BY DEF BuffersInv
<1>7. ASSUME NEW b \in Mbufs
      PROVE  b \in pool' \cup wire' \/ (\E p \in Places : Buf(p)' = b) \/ (\E x \in taken : heap'[x] = b)
  <2>1. CASE b = m
    BY <2>1
  <2>2. CASE b # m
    <3>1. CASE \E p \in Places : Buf(p) = b
      BY <3>1
    <3>2. CASE b \in pool \cup wire \/ \E x \in taken : heap[x] = b
      BY <2>2, <3>2
    <3>3. QED
      BY <1>1, <3>1, <3>2 DEF BuffersInv
  <2>3. QED
    BY <2>1, <2>2
<1>8. QED
  BY <1>1, <1>2, <1>3, <1>4, <1>5, <1>6, <1>7 DEF BuffersInv

\* The lowest free addresses, each once.
LEMMA NewInfoFacts ==
  /\ IsFiniteSet(Infos \ Allocated) /\ Cardinality(Infos \ Allocated) \in Nat
  /\ \A n \in 0 .. Cardinality(Infos \ Allocated) - 1 : NewInfo(n) \in Infos \ Allocated
  /\ \A n, l \in 0 .. Cardinality(Infos \ Allocated) - 1 : NewInfo(n) = NewInfo(l) => n = l
<1> DEFINE S == Infos \ Allocated
<1>1. S \in SUBSET Nat /\ S \in SUBSET Infos
  BY InfosAssumption
<1>2. IsFiniteSet(Infos)
  BY InfosAssumption, FS_Interval
<1>3. IsFiniteSet(S) /\ Cardinality(S) \in Nat
  BY <1>1, <1>2, FS_Subset, FS_CardinalityType
<1>4. ASSUME NEW x \in S PROVE 1 .. x - 1 \ Allocated = Below(S, x)
  <2>1. 1 .. x - 1 \ Allocated = {l \in Infos \ Allocated : l < x}
    BY <1>1, InfosAssumption
  <2>2. QED
    BY <2>1 DEF Below
<1>5. \A n : NewInfo(n) = CHOOSE x \in S : Cardinality(1 .. x - 1 \ Allocated) = n
  BY DEF NewInfo
<1> HIDE DEF S
<1>6. ASSUME NEW n \in 0 .. Cardinality(S) - 1
      PROVE  NewInfo(n) \in S /\ Cardinality(Below(S, NewInfo(n))) = n
  <2>1. PICK x \in S : Cardinality(Below(S, x)) = n
    BY <1>1, <1>3, RankExists
  <2>2. \E y \in S : Cardinality(1 .. y - 1 \ Allocated) = n
    BY <1>4, <2>1
  <2>3. NewInfo(n) \in S /\ Cardinality(1 .. NewInfo(n) - 1 \ Allocated) = n
    BY <1>5, <2>2
  <2>4. QED
    BY <1>4, <2>3
<1>7. QED
  BY <1>3, <1>6 DEF S

\* A PacketInfo added with a buffer goes to the same place.
LEMMA AppendedInfoFacts ==
  ASSUME TypeOK, CountersInv, PlacesInv, Idle, c.total < Capacity,
         NEW m \in Mbufs, NEW x \in Infos
  PROVE  /\ Appended(c, m, x) \in Members
         /\ Appended(c, m, x).mbuf_arrs = AppendedBuffer(c, m).mbuf_arrs
         /\ Appended(c, m, x).nb_mbufs = AppendedBuffer(c, m).nb_mbufs
         /\ Appended(c, m, x).total = AppendedBuffer(c, m).total
         /\ Appended(c, m, x).arrays = AppendedBuffer(c, m).arrays
         /\ Appended(c, m, x).polled = AppendedBuffer(c, m).polled
         /\ Appended(c, m, x).dropped = AppendedBuffer(c, m).dropped
         /\ \A p \in Places : Appended(c, m, x).pkt_info_arrs[p[1]][p[2]] =
              IF p = NextPlace THEN x ELSE Inf(p)
<1> DEFINE k == AppendedBuffer(c, m)
           w == Written(c.pkt_info_arrs, NextPlace, x)
<1>1. k \in Members /\ NextPlace \in Places /\ k.pkt_info_arrs = c.pkt_info_arrs
  BY AppendedFacts
<1>2. Appended(c, m, x) = [k EXCEPT !.pkt_info_arrs = Written(k.pkt_info_arrs, NextPlace, x)]
  BY DEF Appended, Written, NextPlace
<1>3. c.pkt_info_arrs \in Arrays(Infos \cup {Null}) /\ x \in Infos \cup {Null}
  BY DEF TypeOK, Members, Arrays
<1>4. /\ w \in Arrays(Infos \cup {Null})
      /\ \A p \in Places : w[p[1]][p[2]] = IF p = NextPlace THEN x ELSE c.pkt_info_arrs[p[1]][p[2]]
  BY <1>1, <1>3, WrittenFacts
<1> HIDE DEF k, w
<1>5. Appended(c, m, x) = [k EXCEPT !.pkt_info_arrs = w]
  BY <1>1, <1>2 DEF w
<1>6. [k EXCEPT !.pkt_info_arrs = w] \in Members
  BY <1>1, <1>4 DEF Members, Arrays
<1>7. /\ [k EXCEPT !.pkt_info_arrs = w].pkt_info_arrs = w
      /\ [k EXCEPT !.pkt_info_arrs = w].mbuf_arrs = k.mbuf_arrs
      /\ [k EXCEPT !.pkt_info_arrs = w].nb_mbufs = k.nb_mbufs
      /\ [k EXCEPT !.pkt_info_arrs = w].total = k.total
      /\ [k EXCEPT !.pkt_info_arrs = w].arrays = k.arrays
      /\ [k EXCEPT !.pkt_info_arrs = w].polled = k.polled
      /\ [k EXCEPT !.pkt_info_arrs = w].dropped = k.dropped
  BY <1>1 DEF Members
<1>8. QED
  BY <1>4, <1>5, <1>6, <1>7 DEF k, Inf

\* Listed, by place.
LEMMA ListedIs ==
  ASSUME TypeOK, CountersInv
  PROVE  Listed(c) = {p \in Places : p[2] < c.nb_mbufs[p[1]]}
<1>1. ASSUME NEW p \in Places, p[2] < c.nb_mbufs[p[1]] PROVE p[1] < c.arrays
  BY <1>1, MembersOK, InUse, ArraysAssumption
<1>2. QED
  BY <1>1 DEF Listed, Places

\* A PacketInfo that is in no array goes to the place of its buffer.
LEMMA InfoToPlace ==
  ASSUME TypeOK, InfosInv, InfosAligned, Idle, ~lean, lean' = lean, sending' = sending,
         NEW q \in Places, NEW m \in Mbufs, NEW x \in Infos,
         \A p \in Places : Inf(p) # x,
         \A p \in Places : Buf(p)' = IF p = q THEN m ELSE Buf(p),
         \A p \in Places : Inf(p)' = IF p = q THEN x ELSE Inf(p),
         \A p \in Places : p \in Listed(c)' => p = q \/ p \in Listed(c),
         \A y \in Infos : heap'[y] = IF y = x THEN m ELSE heap[y],
         taken' = taken \ {x}
  PROVE  InfosInv' /\ InfosAligned'
<1>1. /\ x \in Allocated' /\ \A y \in Infos : y \in Allocated => y \in Allocated'
      /\ Allocated \subseteq Infos
  BY DEF Allocated
<1>2. taken' \subseteq Allocated'
  BY <1>1 DEF InfosInv
<1>3. \A p \in Places : Inf(p)' # Null => Inf(p)' \in Allocated' \ taken'
  BY <1>1 DEF InfosInv
<1>4. \A p, r \in Places : Inf(p)' = Inf(r)' /\ Inf(p)' # Null => p = r
  BY DEF InfosInv
<1>5. InfosInv'
  BY <1>2, <1>3, <1>4 DEF InfosInv
<1>6. ASSUME NEW p \in Places, p \in Listed(c)'
      PROVE  IF Inf(p)' = Null THEN Buf(p)' = Null ELSE heap'[Inf(p)'] = Buf(p)'
  <2>1. CASE p = q
    <3>1. Inf(p)' = x /\ Buf(p)' = m /\ heap'[x] = m
      BY <2>1
    <3>2. x # Null
      BY InfosAssumption
    <3>3. QED
      BY <3>1, <3>2
  <2>2. CASE p # q
    BY <1>6, <2>2, MembersOK DEF InfosAligned, AlignedAt, Buf, Inf
  <2>3. QED
    BY <2>1, <2>2
<1>7. QED
  BY <1>5, <1>6 DEF InfosAligned, AlignedAt, Buf, Inf, Listed, Places

\* Adding a buffer lists its place and no other.
LEMMA AppendLists ==
  ASSUME TypeOK, CountersInv, PlacesInv, Idle, c.total < Capacity, NEW m \in Mbufs,
         c'.nb_mbufs = AppendedBuffer(c, m).nb_mbufs
  PROVE  \A p \in Places : p \in Listed(c)' => p = NextPlace \/ p \in Listed(c)
<1>1. \A p \in Places : p \in Listed(c)' => p[2] < c'.nb_mbufs[p[1]]
  BY DEF Listed
<1>2. QED
  BY <1>1, AppendedFacts, ListedIs

\* get_empty_packet keeps the invariant.
LEMMA GetEmptyPreserves ==
  ASSUME IInv, get_empty_packet, UNCHANGED lean
  PROVE  IInv'
<1> DEFINE x == NewInfo(0)
<1>1. /\ TypeOK /\ CountersInv /\ PlacesInv /\ BuffersInv /\ InfosInv /\ InfosAligned
      /\ Idle /\ ~lean /\ c.total < Capacity /\ Infos \ Allocated # {}
      /\ sending' = sending /\ wire' = wire /\ taken' = taken /\ lean' = lean
  BY DEF IInv, get_empty_packet
<1>2. PICK m \in pool : /\ c' = Appended(c, m, x)
                        /\ heap' = [heap EXCEPT ![x] = m]
                        /\ pool' = pool \ {m}
  BY DEF get_empty_packet
<1>3. x \in Infos \ Allocated
  <2>1. Cardinality(Infos \ Allocated) # 0
    BY <1>1, NewInfoFacts, FS_EmptySet
  <2>2. 0 \in 0 .. Cardinality(Infos \ Allocated) - 1
    BY <2>1, NewInfoFacts
  <2>3. QED
    BY <2>2, NewInfoFacts
<1> HIDE DEF x
<1>4. /\ m \in Mbufs /\ x \in Infos /\ heap[x] = Null /\ x \notin Allocated
      /\ \A y \in Infos : heap'[y] = IF y = x THEN m ELSE heap[y]
      /\ heap' \in [Infos -> Mbufs \cup {Null}]
  BY <1>1, <1>2, <1>3 DEF TypeOK, Allocated
<1>5. NextPlace \in Places /\ Buf(NextPlace) = Null
  BY <1>1, <1>4, AppendedFacts
<1>6. /\ c'.mbuf_arrs = AppendedBuffer(c, m).mbuf_arrs
      /\ c'.nb_mbufs = AppendedBuffer(c, m).nb_mbufs
      /\ c'.total = AppendedBuffer(c, m).total /\ c'.arrays = AppendedBuffer(c, m).arrays
      /\ c'.polled = AppendedBuffer(c, m).polled /\ c'.dropped = AppendedBuffer(c, m).dropped
      /\ c' \in Members
      /\ \A p \in Places : Inf(p)' = IF p = NextPlace THEN x ELSE Inf(p)
  BY <1>1, <1>2, <1>4, AppendedInfoFacts DEF Inf
<1>7. CountersInv' /\ PlacesInv' /\ \A p \in Places : Buf(p)' = IF p = NextPlace THEN m ELSE Buf(p)
  BY <1>1, <1>4, <1>6, AppendPreserves
<1>8. TypeOK'
  BY <1>1, <1>2, <1>4, <1>6 DEF TypeOK
<1>9. BuffersInv'
  <2>1. \A y \in taken : heap'[y] = heap[y]
    BY <1>1, <1>4 DEF InfosInv, TypeOK
  <2>2. QED
    BY <1>1, <1>2, <1>5, <1>7, <2>1, FreeToPlace
<1>10. InfosInv' /\ InfosAligned'
  <2>1. \A p \in Places : Inf(p) # x
    BY <1>1, <1>4, InfosAssumption DEF InfosInv
  <2>2. taken' = taken \ {x}
    BY <1>1, <1>4 DEF InfosInv
  <2>3. \A p \in Places : p \in Listed(c)' => p = NextPlace \/ p \in Listed(c)
    BY <1>1, <1>4, <1>6, AppendLists
  <2>4. QED
    BY <1>1, <1>4, <1>5, <1>6, <1>7, <2>1, <2>2, <2>3, InfoToPlace
<1>11. QED
  BY <1>7, <1>8, <1>9, <1>10 DEF IInv

\* add_packet keeps the invariant.
LEMMA AddPacketPreserves ==
  ASSUME IInv, add_packet, UNCHANGED lean
  PROVE  IInv'
<1>1. /\ TypeOK /\ CountersInv /\ PlacesInv /\ BuffersInv /\ InfosInv /\ InfosAligned
      /\ Idle /\ ~lean /\ c.total < Capacity
      /\ sending' = sending /\ wire' = wire /\ pool' = pool /\ heap' = heap /\ lean' = lean
  BY DEF IInv, add_packet
<1>2. PICK x \in taken : c' = Appended(c, heap[x], x) /\ taken' = taken \ {x}
  BY DEF add_packet
<1>3. PICK m : m = heap[x]
  OBVIOUS
<1>4. /\ x \in Infos /\ m \in Mbufs /\ m \notin pool \cup wire
      /\ \A p \in Places : Buf(p) # m
      /\ \A y \in Infos : heap'[y] = IF y = x THEN m ELSE heap[y]
  BY <1>1, <1>2, <1>3, IdleActive DEF TypeOK, BuffersInv
<1>5. NextPlace \in Places /\ Buf(NextPlace) = Null
  BY <1>1, <1>4, AppendedFacts
<1>6. /\ c'.mbuf_arrs = AppendedBuffer(c, m).mbuf_arrs
      /\ c'.nb_mbufs = AppendedBuffer(c, m).nb_mbufs
      /\ c'.total = AppendedBuffer(c, m).total /\ c'.arrays = AppendedBuffer(c, m).arrays
      /\ c'.polled = AppendedBuffer(c, m).polled /\ c'.dropped = AppendedBuffer(c, m).dropped
      /\ c' \in Members
      /\ \A p \in Places : Inf(p)' = IF p = NextPlace THEN x ELSE Inf(p)
  BY <1>1, <1>2, <1>3, <1>4, AppendedInfoFacts DEF Inf
<1>7. CountersInv' /\ PlacesInv' /\ \A p \in Places : Buf(p)' = IF p = NextPlace THEN m ELSE Buf(p)
  BY <1>1, <1>4, <1>6, AppendPreserves
<1>8. TypeOK'
  BY <1>1, <1>2, <1>6 DEF TypeOK
<1>9. BuffersInv'
  <2>1. Active = Places /\ Active' = Places
    BY <1>1, IdleActive DEF Active
  <2>2. \A p \in Places : Buf(p)' \notin pool' \cup wire'
    BY <1>1, <1>4, <1>7, <2>1 DEF BuffersInv
  <2>3. \A p, r \in Places : Buf(p)' = Buf(r)' /\ Buf(p)' # Null => p = r
    BY <1>4, <1>1, <1>7, <2>1 DEF BuffersInv
  <2>4. \A y \in taken' : heap'[y] \in Mbufs \ (pool' \cup wire') /\ \A p \in Places : Buf(p)' # heap'[y]
    BY <1>1, <1>2, <1>3, <1>7, <2>1 DEF BuffersInv
  <2>5. \A y, z \in taken' : heap'[y] = heap'[z] => y = z
    BY <1>1, <1>2 DEF BuffersInv
  <2>6. ASSUME NEW b \in Mbufs
        PROVE  b \in pool' \cup wire' \/ (\E p \in Places : Buf(p)' = b) \/ (\E y \in taken' : heap'[y] = b)
    <3>1. CASE b = m
      BY <1>5, <1>7, <3>1
    <3>2. CASE \E p \in Places : Buf(p) = b
      BY <1>5, <1>7, <3>2
    <3>3. CASE b # m /\ (b \in pool \cup wire \/ \E y \in taken : heap[y] = b)
      BY <1>1, <1>2, <1>3, <3>3
    <3>4. QED
      BY <1>1, <2>1, <3>1, <3>2, <3>3 DEF BuffersInv
  <2>7. QED
    BY <1>1, <2>1, <2>2, <2>3, <2>4, <2>5, <2>6 DEF BuffersInv
<1>10. InfosInv' /\ InfosAligned'
  <2>1. \A p \in Places : Inf(p) # x
    BY <1>1, <1>2, <1>4, InfosAssumption DEF InfosInv
  <2>2. \A p \in Places : p \in Listed(c)' => p = NextPlace \/ p \in Listed(c)
    BY <1>1, <1>4, <1>6, AppendLists
  <2>3. QED
    BY <1>1, <1>2, <1>4, <1>5, <1>6, <1>7, <2>1, <2>2, InfoToPlace
<1>11. QED
  BY <1>7, <1>8, <1>9, <1>10 DEF IInv

\* add_mbuf keeps the invariant.
LEMMA AddMbufPreserves ==
  ASSUME IInv, add_mbuf, UNCHANGED lean
  PROVE  IInv'
<1>1. /\ TypeOK /\ CountersInv /\ PlacesInv /\ BuffersInv /\ InfosInv
      /\ Idle /\ lean /\ c.total < Capacity
      /\ sending' = sending /\ wire' = wire /\ taken' = taken /\ heap' = heap /\ lean' = lean
  BY DEF IInv, add_mbuf
<1>2. PICK m \in pool : c' = AppendedBuffer(c, m) /\ pool' = pool \ {m}
  BY DEF add_mbuf
<1>3. m \in Mbufs
  BY <1>1 DEF TypeOK
<1>4. /\ NextPlace \in Places /\ Buf(NextPlace) = Null
      /\ c' \in Members /\ c'.pkt_info_arrs = c.pkt_info_arrs
  BY <1>1, <1>2, <1>3, AppendedFacts
<1>5. CountersInv' /\ PlacesInv' /\ \A p \in Places : Buf(p)' = IF p = NextPlace THEN m ELSE Buf(p)
  BY <1>1, <1>2, <1>3, AppendPreserves
<1>6. TypeOK'
  BY <1>1, <1>2, <1>4 DEF TypeOK
<1>7. BuffersInv'
  BY <1>1, <1>2, <1>4, <1>5, FreeToPlace
<1>8. InfosInv' /\ InfosAligned'
  BY <1>1, <1>4 DEF InfosInv, InfosAligned, Inf, Allocated
<1>9. QED
  BY <1>5, <1>6, <1>7, <1>8 DEF IInv

------------------------------------------------------------------------------
(* Removing a packet.                                                      *)

PlaceOf(index) == <<Arr(index), Pos(index)>>

\* A removal clears both pointers at the index and counts.
LEMMA RemovedFacts ==
  ASSUME TypeOK, NEW index \in SlotIndex, NEW n \in Nat \ {0}, c' = Removed(c, index, n),
         NEW q, q = PlaceOf(index)
  PROVE  /\ q \in Places /\ c' \in Members
         /\ \A p \in Places : Buf(p)' = IF p = q THEN Null ELSE Buf(p)
         /\ \A p \in Places : Inf(p)' = IF p = q THEN Null ELSE Inf(p)
         /\ c'.nb_mbufs = c.nb_mbufs /\ c'.polled = c.polled
         /\ c'.total = c.total /\ c'.arrays = c.arrays
         /\ c'.dropped # 0
<1> DEFINE a == Written(c.mbuf_arrs, q, Null)
           b == Written(c.pkt_info_arrs, q, Null)
<1>1. /\ q \in Places /\ c \in Members
      /\ c.mbuf_arrs \in Arrays(Mbufs \cup {Null}) /\ c.pkt_info_arrs \in Arrays(Infos \cup {Null})
      /\ Null \in Mbufs \cup {Null} /\ Null \in Infos \cup {Null}
      /\ c.dropped \in Nat /\ c.dropped + n \in Nat /\ c.dropped + n # 0
  BY PlaceOfIndex DEF PlaceOf, Places, TypeOK, Members, Arrays
<1>2. /\ a \in Arrays(Mbufs \cup {Null})
      /\ \A p \in Places : a[p[1]][p[2]] = IF p = q THEN Null ELSE c.mbuf_arrs[p[1]][p[2]]
  BY <1>1, WrittenFacts
<1>3. /\ b \in Arrays(Infos \cup {Null})
      /\ \A p \in Places : b[p[1]][p[2]] = IF p = q THEN Null ELSE c.pkt_info_arrs[p[1]][p[2]]
  BY <1>1, WrittenFacts
<1>4. c' = [c EXCEPT !.mbuf_arrs = a, !.pkt_info_arrs = b, !.dropped = c.dropped + n]
  BY DEF Removed, Written, PlaceOf
<1> HIDE DEF a, b
<1>5. /\ c' \in Members
      /\ c'.mbuf_arrs = a /\ c'.pkt_info_arrs = b /\ c'.dropped = c.dropped + n
      /\ c'.nb_mbufs = c.nb_mbufs /\ c'.polled = c.polled
      /\ c'.total = c.total /\ c'.arrays = c.arrays
  <2>1. PICK d \in Nat : d = c.dropped + n
    BY <1>1
  <2>2. PICK r : r = [c EXCEPT !.mbuf_arrs = a, !.pkt_info_arrs = b, !.dropped = d]
    OBVIOUS
  <2>3. c \in Members /\ a \in Arrays(Mbufs \cup {Null}) /\ b \in Arrays(Infos \cup {Null})
    BY <1>1, <1>2, <1>3
  <2>4. /\ r \in Members
        /\ r.mbuf_arrs = a /\ r.pkt_info_arrs = b /\ r.dropped = d
        /\ r.nb_mbufs = c.nb_mbufs /\ r.polled = c.polled
        /\ r.total = c.total /\ r.arrays = c.arrays
    BY <2>1, <2>2, <2>3 DEF Members, Arrays
  <2>5. c' = r
    BY <1>4, <2>1, <2>2
  <2>6. QED
    BY <2>1, <2>4, <2>5
<1>6. QED
  BY <1>1, <1>2, <1>3, <1>5 DEF Buf, Inf

\* The counters stay, and the gap is known.
LEMMA RemovePreserves ==
  ASSUME TypeOK, CountersInv, PlacesInv, Idle, sending' = sending,
         NEW q \in Places, \A p \in Places : Buf(p)' = IF p = q THEN Null ELSE Buf(p),
         c'.nb_mbufs = c.nb_mbufs, c'.polled = c.polled,
         c'.total = c.total, c'.arrays = c.arrays, c'.dropped # 0
  PROVE  CountersInv' /\ PlacesInv' /\ Listed(c)' = Listed(c)
<1>1. CountersInv'
  BY DEF CountersInv
<1>2. PlacesInv'
  BY DEF PlacesInv
<1>3. Listed(c)' = Listed(c)
  BY DEF Listed
<1>4. QED
  BY <1>1, <1>2, <1>3

\* The buffer of a place is freed.
LEMMA PlaceToFree ==
  ASSUME TypeOK, BuffersInv, Idle, sending' = sending,
         NEW q \in Places, Buf(q) # Null,
         \A p \in Places : Buf(p)' = IF p = q THEN Null ELSE Buf(p),
         pool' = pool \cup {Buf(q)}, wire' = wire, taken' = taken,
         \A x \in taken : heap'[x] = heap[x]
  PROVE  BuffersInv'
<1>1. PICK m \in Mbufs : m = Buf(q)
  BY MembersOK
<1>2. /\ Active = Places /\ Active' = Places
      /\ m \notin pool \cup wire /\ Null \notin pool' \cup wire'
      /\ \A p \in Places : p # q => Buf(p) # m
      /\ \A x \in taken : heap[x] # m
  BY <1>1, IdleActive DEF BuffersInv, TypeOK, Active
<1>3. (pool \cap wire = {})'
  BY <1>1, <1>2 DEF BuffersInv
<1>4. \A p \in Places : Buf(p)' \notin pool' \cup wire'
  BY <1>1, <1>2 DEF BuffersInv
<1>5. \A p, r \in Places : Buf(p)' = Buf(r)' /\ Buf(p)' # Null => p = r
  BY <1>2 DEF BuffersInv
<1>6. \A x \in taken : heap'[x] \in Mbufs \ (pool' \cup wire') /\ \A p \in Places : Buf(p)' # heap'[x]
  BY <1>1, <1>2 DEF BuffersInv
<1>7. \A x, y \in taken : heap'[x] = heap'[y] => x = y
  BY DEF BuffersInv
<1>8. ASSUME NEW b \in Mbufs
      PROVE  b \in pool' \cup wire' \/ (\E p \in Places : Buf(p)' = b) \/ (\E x \in taken : heap'[x] = b)
  <2>1. CASE \E p \in Places : Buf(p) = b
    BY <2>1
  <2>2. CASE b \in pool \cup wire \/ \E x \in taken : heap[x] = b
    BY <2>2
  <2>3. QED
    BY <1>2, <2>1, <2>2 DEF BuffersInv
<1>9. QED
  BY <1>2, <1>3, <1>4, <1>5, <1>6, <1>7, <1>8 DEF BuffersInv

\* What the treatment may remove has a PacketInfo that describes it.
LEMMA RemovableFacts ==
  ASSUME IInv, NEW index \in SlotIndex, Removable(index), NEW q, q = PlaceOf(index)
  PROVE  /\ q \in Places /\ Idle
         /\ Buf(q) = c.mbuf_arrs[Arr(index)][Pos(index)]
         /\ Inf(q) = c.pkt_info_arrs[Arr(index)][Pos(index)]
         /\ Buf(q) # Null
         /\ ~lean => Inf(q) \in Infos /\ heap[Inf(q)] = Buf(q)
<1>1. /\ q \in Places /\ q[1] = Arr(index) /\ q[2] = Pos(index)
  BY PlaceOfIndex DEF PlaceOf, Places
<1>2. Idle /\ Buf(q) # Null
  BY <1>1 DEF Removable, Buf
<1>3. q \in Listed(c)
  BY <1>1, <1>2, ListedIs DEF IInv, PlacesInv
<1>4. ~lean => Inf(q) \in Infos /\ heap[Inf(q)] = Buf(q)
  BY <1>1, <1>2, <1>3, MembersOK DEF IInv, InfosAligned, AlignedAt, Buf, Inf
<1>5. QED
  BY <1>1, <1>2, <1>4 DEF Buf, Inf

\* The PacketInfo of a place goes with its buffer.
LEMMA InfoFromPlace ==
  ASSUME TypeOK, InfosInv, InfosAligned, Idle, ~lean, lean' = lean, sending' = sending,
         NEW q \in Places, NEW x \in Infos, Inf(q) = x,
         \A p \in Places : Buf(p)' = IF p = q THEN Null ELSE Buf(p),
         \A p \in Places : Inf(p)' = IF p = q THEN Null ELSE Inf(p),
         Listed(c)' = Listed(c),
         \A y \in Infos : y # x => heap'[y] = heap[y],
         taken' \subseteq Allocated', \A y \in taken' : y = x \/ y \in taken
  PROVE  InfosInv' /\ InfosAligned'
<1>1. /\ x # Null
      /\ \A y \in Infos : y # x /\ y \in Allocated => y \in Allocated'
  BY InfosAssumption DEF Allocated
<1>2. \A p \in Places : Inf(p)' # Null => Inf(p)' \in Allocated' \ taken'
  BY <1>1, MembersOK DEF InfosInv
<1>3. \A p, r \in Places : Inf(p)' = Inf(r)' /\ Inf(p)' # Null => p = r
  BY DEF InfosInv
<1>4. InfosInv'
  BY <1>2, <1>3 DEF InfosInv
<1>5. ASSUME NEW p \in Places, p \in Listed(c)
      PROVE  IF Inf(p)' = Null THEN Buf(p)' = Null ELSE heap'[Inf(p)'] = Buf(p)'
  <2>1. CASE p = q
    BY <2>1
  <2>2. CASE p # q
    <3>1. Inf(p) # x /\ Inf(p) \in Infos \cup {Null}
      BY <1>1, <2>2, MembersOK DEF InfosInv
    <3>2. QED
      BY <1>5, <2>2, <3>1 DEF InfosAligned, AlignedAt, Buf, Inf
  <2>3. QED
    BY <2>1, <2>2
<1>6. QED
  BY <1>4, <1>5 DEF InfosAligned, AlignedAt, Buf, Inf, Listed, Places

\* Destroying PacketInfo objects leaves the others as they are.
LEMMA FreedFacts ==
  ASSUME TypeOK, NEW dead
  PROVE  /\ Freed(dead) \in [Infos -> Mbufs \cup {Null}]
         /\ \A x \in Infos : Freed(dead)[x] = IF x \in dead THEN Null ELSE heap[x]
BY DEF Freed, TypeOK

\* drop_packet keeps the invariant.
LEMMA DropPacketPreserves ==
  ASSUME IInv, drop_packet, UNCHANGED lean
  PROVE  IInv'
<1>1. /\ TypeOK /\ CountersInv /\ PlacesInv /\ BuffersInv /\ InfosInv /\ InfosAligned
      /\ ~lean /\ sending' = sending /\ wire' = wire /\ taken' = taken /\ lean' = lean
  BY DEF IInv, drop_packet
<1>2. PICK index \in SlotIndex :
        /\ Removable(index)
        /\ c' = Removed(c, index, 1)
        /\ heap' = Freed({c.pkt_info_arrs[Arr(index)][Pos(index)]})
        /\ pool' = pool \cup {c.mbuf_arrs[Arr(index)][Pos(index)]}
  BY DEF drop_packet
<1>3. PICK q : q = PlaceOf(index)
  OBVIOUS
<1>4. PICK x \in Infos : x = Inf(q)
  BY <1>1, <1>2, <1>3, RemovableFacts
<1>5. /\ Idle /\ Buf(q) # Null /\ Buf(q) \in Mbufs /\ q \in Places
      /\ heap' = Freed({x}) /\ pool' = pool \cup {Buf(q)}
  BY <1>1, <1>2, <1>3, <1>4, RemovableFacts, MembersOK
<1>6. /\ c' \in Members
      /\ \A p \in Places : Buf(p)' = IF p = q THEN Null ELSE Buf(p)
      /\ \A p \in Places : Inf(p)' = IF p = q THEN Null ELSE Inf(p)
      /\ c'.nb_mbufs = c.nb_mbufs /\ c'.polled = c.polled
      /\ c'.total = c.total /\ c'.arrays = c.arrays /\ c'.dropped # 0
  BY <1>1, <1>2, <1>3, RemovedFacts
<1>7. CountersInv' /\ PlacesInv' /\ Listed(c)' = Listed(c)
  BY <1>1, <1>5, <1>6, RemovePreserves
<1>8. heap' \in [Infos -> Mbufs \cup {Null}] /\ \A y \in Infos : y # x => heap'[y] = heap[y]
  BY <1>1, <1>5, FreedFacts
<1>9. TypeOK'
  BY <1>1, <1>5, <1>6, <1>8 DEF TypeOK
<1>10. x \notin taken /\ taken \subseteq Infos /\ x # Null
  BY <1>1, <1>4, <1>5, InfosAssumption DEF InfosInv, TypeOK
<1>11. BuffersInv'
  BY <1>1, <1>5, <1>6, <1>8, <1>10, PlaceToFree
<1>12. InfosInv' /\ InfosAligned'
  <2>1. taken' \subseteq Allocated'
    BY <1>1, <1>8, <1>10 DEF InfosInv, Allocated
  <2>2. QED
    BY <1>1, <1>4, <1>5, <1>6, <1>7, <1>8, <2>1, InfoFromPlace
<1>13. QED
  BY <1>7, <1>9, <1>11, <1>12 DEF IInv

\* take_packet keeps the invariant.
LEMMA TakePacketPreserves ==
  ASSUME IInv, take_packet, UNCHANGED lean
  PROVE  IInv'
<1>1. /\ TypeOK /\ CountersInv /\ PlacesInv /\ BuffersInv /\ InfosInv /\ InfosAligned
      /\ ~lean /\ sending' = sending /\ wire' = wire /\ pool' = pool /\ heap' = heap /\ lean' = lean
  BY DEF IInv, take_packet
<1>2. PICK index \in SlotIndex :
        /\ Removable(index)
        /\ c' = Removed(c, index, 2)
        /\ taken' = taken \cup {c.pkt_info_arrs[Arr(index)][Pos(index)]}
  BY DEF take_packet
<1>3. PICK q : q = PlaceOf(index)
  OBVIOUS
<1>4. PICK x \in Infos : x = Inf(q)
  BY <1>1, <1>2, <1>3, RemovableFacts
<1>5. /\ Idle /\ Buf(q) # Null /\ Buf(q) \in Mbufs /\ q \in Places
      /\ taken' = taken \cup {x} /\ heap[x] = Buf(q)
  BY <1>1, <1>2, <1>3, <1>4, RemovableFacts, MembersOK
<1>6. /\ c' \in Members
      /\ \A p \in Places : Buf(p)' = IF p = q THEN Null ELSE Buf(p)
      /\ \A p \in Places : Inf(p)' = IF p = q THEN Null ELSE Inf(p)
      /\ c'.nb_mbufs = c.nb_mbufs /\ c'.polled = c.polled
      /\ c'.total = c.total /\ c'.arrays = c.arrays /\ c'.dropped # 0
  BY <1>1, <1>2, <1>3, RemovedFacts
<1>7. CountersInv' /\ PlacesInv' /\ Listed(c)' = Listed(c)
  BY <1>1, <1>5, <1>6, RemovePreserves
<1>8. TypeOK'
  BY <1>1, <1>5, <1>6 DEF TypeOK
<1>9. BuffersInv'
  <2>1. PICK m \in Mbufs : m = Buf(q) /\ m = heap[x]
    BY <1>5
  <2>2. /\ Active = Places /\ Active' = Places
        /\ m \notin pool \cup wire /\ Null \notin pool \cup wire
        /\ \A p \in Places : p # q => Buf(p) # m
        /\ \A y \in taken : heap[y] # m
    BY <1>1, <1>5, <2>1, IdleActive DEF BuffersInv, TypeOK, Active
  <2>3. \A p \in Places : Buf(p)' \notin pool' \cup wire'
    BY <1>1, <1>6, <2>2 DEF BuffersInv
  <2>4. \A p, r \in Places : Buf(p)' = Buf(r)' /\ Buf(p)' # Null => p = r
    BY <1>1, <1>6, <2>2 DEF BuffersInv
  <2>5. \A y \in taken' : heap'[y] \in Mbufs \ (pool' \cup wire') /\ \A p \in Places : Buf(p)' # heap'[y]
    BY <1>1, <1>5, <1>6, <2>1, <2>2 DEF BuffersInv
  <2>6. \A y, z \in taken' : heap'[y] = heap'[z] => y = z
    BY <1>1, <1>5, <2>1, <2>2 DEF BuffersInv
  <2>7. ASSUME NEW b \in Mbufs
        PROVE  b \in pool' \cup wire' \/ (\E p \in Places : Buf(p)' = b) \/ (\E y \in taken' : heap'[y] = b)
    <3>1. CASE b = m
      BY <1>1, <1>5, <2>1, <3>1
    <3>2. CASE b # m /\ \E p \in Places : Buf(p) = b
      BY <1>6, <2>1, <3>2
    <3>3. CASE b \in pool \cup wire \/ \E y \in taken : heap[y] = b
      BY <1>1, <1>5, <3>3
    <3>4. QED
      BY <1>1, <2>2, <3>1, <3>2, <3>3 DEF BuffersInv
  <2>8. QED
    BY <1>1, <2>2, <2>3, <2>4, <2>5, <2>6, <2>7 DEF BuffersInv
<1>10. InfosInv' /\ InfosAligned'
  <2>1. taken' \subseteq Allocated'
    BY <1>1, <1>5 DEF InfosInv, Allocated
  <2>2. (\A y \in Infos : y # x => heap'[y] = heap[y]) /\ \A y \in taken' : y = x \/ y \in taken
    BY <1>1, <1>5
  <2>3. QED
    BY <1>1, <1>4, <1>5, <1>6, <1>7, <2>1, <2>2, InfoFromPlace
<1>11. QED
  BY <1>7, <1>8, <1>9, <1>10 DEF IInv

\* drop_polled_mbuf keeps the invariant.
LEMMA DropPolledMbufPreserves ==
  ASSUME IInv, drop_polled_mbuf, UNCHANGED lean
  PROVE  IInv'
<1>1. /\ TypeOK /\ CountersInv /\ PlacesInv /\ BuffersInv /\ InfosInv
      /\ lean /\ sending' = sending /\ wire' = wire /\ taken' = taken /\ heap' = heap /\ lean' = lean
  BY DEF IInv, drop_polled_mbuf
<1>2. PICK index \in SlotIndex :
        /\ Removable(index)
        /\ c' = Removed(c, index, 1)
        /\ pool' = pool \cup {c.mbuf_arrs[Arr(index)][Pos(index)]}
  BY DEF drop_polled_mbuf
<1>3. PICK q : q = PlaceOf(index)
  OBVIOUS
<1>4. /\ Idle /\ Buf(q) # Null /\ Buf(q) \in Mbufs /\ q \in Places
      /\ pool' = pool \cup {Buf(q)}
  BY <1>1, <1>2, <1>3, RemovableFacts, MembersOK
<1>5. /\ c' \in Members
      /\ \A p \in Places : Buf(p)' = IF p = q THEN Null ELSE Buf(p)
      /\ \A p \in Places : Inf(p)' = IF p = q THEN Null ELSE Inf(p)
      /\ c'.nb_mbufs = c.nb_mbufs /\ c'.polled = c.polled
      /\ c'.total = c.total /\ c'.arrays = c.arrays /\ c'.dropped # 0
  BY <1>1, <1>2, <1>3, RemovedFacts
<1>6. CountersInv' /\ PlacesInv'
  BY <1>1, <1>4, <1>5, RemovePreserves
<1>7. TypeOK'
  BY <1>1, <1>4, <1>5 DEF TypeOK
<1>8. BuffersInv'
  BY <1>1, <1>4, <1>5, PlaceToFree
<1>9. InfosInv' /\ InfosAligned'
  BY <1>1, <1>5 DEF InfosInv, InfosAligned, Allocated
<1>10. QED
  BY <1>6, <1>7, <1>8, <1>9 DEF IInv

------------------------------------------------------------------------------
(* Emptying the container.                                                 *)

\* Without packets no array is filled.
LEMMA NothingFilled == \A i \in ArrIndex : Filled(0, i) = 0
BY FilledBurst, ArraysAssumption

\* Once no buffer is left that has to be sent, the container may forget all.
LEMMA EmptyPreserves ==
  ASSUME IInv, c' = Emptied(c), heap' = Freed(ListedInfos(c)), sending' = NotSending,
         UNCHANGED <<lean, pool, wire, taken>>,
         \A p \in Active : Buf(p) = Null
  PROVE  IInv'
<1>1. /\ TypeOK /\ CountersInv /\ PlacesInv /\ BuffersInv /\ InfosInv
      /\ pool' = pool /\ wire' = wire /\ taken' = taken /\ lean' = lean
      /\ pool \subseteq Mbufs /\ wire \subseteq Mbufs
  BY DEF IInv, TypeOK
<1>2. /\ c' \in Members
      /\ \A p \in Places : Buf(p)' = Null
      /\ \A p \in Places : Inf(p)' = IF p \in Listed(c) THEN Null ELSE Inf(p)
      /\ \A i \in ArrIndex : c'.nb_mbufs[i] = 0
      /\ c'.polled = 0 /\ c'.total = 0 /\ c'.arrays = 0 /\ c'.dropped = 0
  BY <1>1, EmptiedFacts DEF Buf, Inf
<1>3. /\ heap' \in [Infos -> Mbufs \cup {Null}]
      /\ \A x \in Infos : heap'[x] = IF x \in ListedInfos(c) THEN Null ELSE heap[x]
  BY <1>1, FreedFacts
<1>4. \A x \in ListedInfos(c) : \E p \in Places : p \in Listed(c) /\ Inf(p) = x /\ x # Null
  BY DEF ListedInfos, Listed, Places, Inf
<1>5. \A x \in taken : x \in Infos /\ heap'[x] = heap[x]
  BY <1>1, <1>3, <1>4 DEF InfosInv, TypeOK
<1>6. TypeOK'
  BY <1>1, <1>2, <1>3, ArraysAssumption DEF TypeOK
<1>7. CountersInv'
  <2>1. \A i \in ArrIndex : c'.nb_mbufs[i] = Filled(c'.total, i)
    BY <1>2, NothingFilled
  <2>2. c'.arrays * BurstSize = 0
    BY <1>2, ArraysAssumption
  <2>3. QED
    BY <1>2, <2>1, <2>2 DEF CountersInv
<1>8. PlacesInv'
  BY <1>2, PlaceParts DEF PlacesInv
<1>9. BuffersInv'
  <2>1. Active' = Places
    BY ArraysAssumption DEF Active, Places
  <2>2. \A p \in Places : Buf(p)' \notin pool' \cup wire'
    BY <1>1, <1>2
  <2>3. \A x \in taken : heap'[x] \in Mbufs \ (pool' \cup wire') /\ \A p \in Places : Buf(p)' # heap'[x]
    BY <1>1, <1>2, <1>5 DEF BuffersInv
  <2>4. \A x, y \in taken : heap'[x] = heap'[y] => x = y
    BY <1>1, <1>5 DEF BuffersInv
  <2>5. \A m \in Mbufs : m \in pool' \cup wire' \/ \E x \in taken : heap'[x] = m
    BY <1>1, <1>5 DEF BuffersInv
  <2>6. QED
    BY <1>1, <1>2, <2>1, <2>2, <2>3, <2>4, <2>5 DEF BuffersInv
<1>10. InfosInv'
  <2>1. \A x \in taken : x \in Allocated'
    BY <1>1, <1>3, <1>5 DEF InfosInv, Allocated
  <2>2. ASSUME NEW p \in Places, Inf(p)' # Null PROVE Inf(p)' \in Allocated' \ taken'
    <3>1. p \notin Listed(c) /\ Inf(p)' = Inf(p) /\ Inf(p) \in Allocated \ taken
      BY <1>1, <1>2, <2>2 DEF InfosInv
    <3>2. Inf(p) \notin ListedInfos(c)
      BY <1>1, <1>4, <2>2, <3>1 DEF InfosInv
    <3>3. QED
      BY <1>1, <1>3, <3>1, <3>2 DEF Allocated
  <2>3. \A p, q \in Places : Inf(p)' = Inf(q)' /\ Inf(p)' # Null => p = q
    BY <1>1, <1>2 DEF InfosInv
  <2>4. lean => taken = {} /\ \A p \in Places : Inf(p)' = Null
    BY <1>1, <1>2 DEF InfosInv
  <2>5. QED
    BY <1>1, <2>1, <2>2, <2>3, <2>4 DEF InfosInv
<1>11. InfosAligned'
  <2>1. Listed(c)' = {}
    BY <1>2 DEF Listed
  <2>2. QED
    BY <2>1 DEF InfosAligned
<1>12. QED
  BY <1>6, <1>7, <1>8, <1>9, <1>10, <1>11 DEF IInv

\* A container without packets holds no buffer and lists nothing.
LEMMA TotalZero ==
  ASSUME TypeOK, CountersInv, PlacesInv, Idle, c.total = 0
  PROVE  (\A p \in Places : Buf(p) = Null) /\ Listed(c) = {}
<1>1. \A i \in ArrIndex : c.nb_mbufs[i] = 0
  BY NothingFilled DEF CountersInv
<1>2. \A p \in Places : ~(p[2] < c.nb_mbufs[p[1]])
  BY <1>1, PlaceParts
<1>3. QED
  BY <1>2, ListedIs DEF PlacesInv

\* send_packets without packets keeps the invariant.
LEMMA SendNothingPreserves ==
  ASSUME IInv, send_nothing, UNCHANGED lean
  PROVE  IInv'
<1>1. \A p \in Active : Buf(p) = Null
  BY TotalZero, IdleActive DEF IInv, send_nothing
<1>2. QED
  BY <1>1, EmptyPreserves DEF send_nothing

\* The end of send_packets keeps the invariant.
LEMMA AllSentPreserves ==
  ASSUME IInv, all_sent, UNCHANGED lean
  PROVE  IInv'
<1>1. ASSUME NEW p \in Active PROVE Buf(p) = Null
  <2>1. p \in Places /\ p[1] >= c.arrays /\ ~Idle
    BY DEF Active, all_sent
  <2>2. c.nb_mbufs[p[1]] = 0
    BY <2>1, PlaceParts DEF IInv, CountersInv
  <2>3. QED
    BY <2>1, <2>2, PlaceParts DEF IInv, PlacesInv
<1>2. QED
  BY <1>1, EmptyPreserves DEF all_sent

\* The driver, freeing a transmitted buffer, keeps the invariant.
LEMMA DriverFreesPreserves ==
  ASSUME IInv, driver_frees, UNCHANGED lean
  PROVE  IInv'
<1>1. /\ TypeOK /\ CountersInv /\ PlacesInv /\ BuffersInv /\ InfosInv /\ InfosAligned
      /\ c' = c /\ heap' = heap /\ taken' = taken /\ sending' = sending /\ lean' = lean
  BY DEF IInv, driver_frees
<1>2. PICK m \in wire : wire' = wire \ {m} /\ pool' = pool \cup {m}
  BY DEF driver_frees
<1>3. pool' \cup wire' = pool \cup wire /\ pool' \cap wire' = {}
  BY <1>1, <1>2 DEF BuffersInv
<1>4. TypeOK'
  BY <1>1, <1>2 DEF TypeOK
<1>5. CountersInv' /\ PlacesInv' /\ InfosInv' /\ InfosAligned'
  <2>1. CountersInv' /\ PlacesInv'
    BY <1>1 DEF CountersInv, PlacesInv, Buf, Active
  <2>2. InfosInv'
    BY <1>1 DEF InfosInv, Inf, Allocated
  <2>3. InfosAligned'
    BY <1>1 DEF InfosAligned, AlignedAt, Listed
  <2>4. QED
    BY <2>1, <2>2, <2>3
<1>6. BuffersInv'
  BY <1>1, <1>3 DEF BuffersInv, Active, Buf
<1>7. QED
  BY <1>4, <1>5, <1>6 DEF IInv

------------------------------------------------------------------------------
(* Transmitting.                                                           *)

\* The transmission of one array keeps the invariant.
LEMMA TxBurstPreserves ==
  ASSUME IInv, tx_burst, UNCHANGED lean
  PROVE  IInv'
<1>1. /\ TypeOK /\ CountersInv /\ PlacesInv /\ BuffersInv /\ InfosInv
      /\ c' = c /\ heap' = heap /\ taken' = taken /\ sending' = sending + 1 /\ lean' = lean
      /\ ~Idle /\ sending < c.arrays
  BY DEF IInv, tx_burst
<1>2. PICK sent \in 0 .. c.nb_mbufs[sending] :
        /\ wire' = wire \cup {c.mbuf_arrs[sending][j] : j \in 0 .. sent - 1}
        /\ pool' = pool \cup {c.mbuf_arrs[sending][j] : j \in sent .. c.nb_mbufs[sending] - 1}
  BY DEF tx_burst
<1>3. /\ sending \in ArrIndex /\ sending' \in 1 .. NumArrs /\ sending' <= c.arrays
      /\ c \in Members /\ c.arrays \in 0 .. NumArrs
  <2>1. c \in Members /\ sending \in -1 .. NumArrs
    BY <1>1 DEF TypeOK
  <2>2. c.arrays \in 0 .. NumArrs
    BY <2>1 DEF Members
  <2>3. NumArrs \in Nat
    BY ArraysAssumption
  <2>4. PICK r : r = c.arrays
    OBVIOUS
  <2>5. r \in 0 .. NumArrs /\ ~(sending = -1) /\ sending < r /\ sending' = sending + 1
    BY <1>1, <2>2, <2>4
  <2>6. sending \in 0 .. NumArrs - 1 /\ sending' \in 1 .. NumArrs /\ sending' <= r
    BY <2>1, <2>3, <2>5
  <2>7. QED
    BY <2>1, <2>2, <2>4, <2>6
<1>4. c.nb_mbufs[sending] \in 0 .. BurstSize /\ sent \in Nat
  BY <1>1, <1>3, MembersOK, ArraysAssumption
<1>5. ASSUME NEW j \in 0 .. c.nb_mbufs[sending] - 1
      PROVE  /\ <<sending, j>> \in Active
             /\ Buf(<<sending, j>>) = c.mbuf_arrs[sending][j]
             /\ c.mbuf_arrs[sending][j] \in Mbufs
  <2>1. <<sending, j>> \in Places /\ <<sending, j>>[1] = sending /\ <<sending, j>>[2] = j
    BY <1>3, <1>4, ArraysAssumption DEF Places
  <2>2. <<sending, j>> \in Active
    BY <1>3, <2>1 DEF Active
  <2>3. Buf(<<sending, j>>) = c.mbuf_arrs[sending][j]
    BY <2>1 DEF Buf
  <2>4. Buf(<<sending, j>>) # Null
    BY <1>1, <1>4, <2>1, <2>2 DEF PlacesInv
  <2>5. QED
    BY <1>1, <2>1, <2>2, <2>3, <2>4, MembersOK
<1> DEFINE out == {c.mbuf_arrs[sending][j] : j \in 0 .. sent - 1}
           back == {c.mbuf_arrs[sending][j] : j \in sent .. c.nb_mbufs[sending] - 1}
<1>6. /\ 0 .. sent - 1 \subseteq 0 .. c.nb_mbufs[sending] - 1
      /\ sent .. c.nb_mbufs[sending] - 1 \subseteq 0 .. c.nb_mbufs[sending] - 1
      /\ \A j \in 0 .. c.nb_mbufs[sending] - 1 : j \in 0 .. sent - 1 \/ j \in sent .. c.nb_mbufs[sending] - 1
  BY <1>2, <1>4
<1>7. \A m \in out \cup back : /\ m \in Mbufs
                               /\ \E p \in Active : Buf(p) = m /\ p[1] = sending
  <2>1. \A m \in out \cup back : \E j \in 0 .. c.nb_mbufs[sending] - 1 : m = c.mbuf_arrs[sending][j]
    BY <1>6
  <2>2. SUFFICES ASSUME NEW m \in out \cup back
                 PROVE  m \in Mbufs /\ \E p \in Active : Buf(p) = m /\ p[1] = sending
    OBVIOUS
  <2>3. PICK j \in 0 .. c.nb_mbufs[sending] - 1 : m = c.mbuf_arrs[sending][j]
    BY <2>1
  <2>4. PICK p : p = <<sending, j>>
    OBVIOUS
  <2>5. p \in Active /\ Buf(p) = m /\ m \in Mbufs /\ p[1] = sending
    BY <1>5, <2>3, <2>4
  <2>6. QED
    BY <2>5
<1>8. out \cap back = {}
  <2>1. SUFFICES ASSUME NEW i \in 0 .. sent - 1, NEW j \in sent .. c.nb_mbufs[sending] - 1,
                        c.mbuf_arrs[sending][i] = c.mbuf_arrs[sending][j]
                 PROVE  FALSE
    OBVIOUS
  <2>2. i \in 0 .. c.nb_mbufs[sending] - 1 /\ j \in 0 .. c.nb_mbufs[sending] - 1
    BY <1>6
  <2>3. PICK p, q : p = <<sending, i>> /\ q = <<sending, j>>
    OBVIOUS
  <2>4. /\ p \in Active /\ q \in Active
        /\ Buf(p) = c.mbuf_arrs[sending][i] /\ Buf(q) = c.mbuf_arrs[sending][j]
        /\ Buf(p) \in Mbufs
    BY <1>5, <2>2, <2>3
  <2>5. p = q
    BY <1>1, <2>1, <2>4 DEF BuffersInv
  <2>6. i = j
    BY <2>3, <2>5
  <2>7. QED
    BY <1>4, <2>1, <2>6
<1> HIDE DEF out, back
<1>9. wire' = wire \cup out /\ pool' = pool \cup back
  BY <1>2 DEF out, back
<1>10. \A p \in Places : Buf(p)' = Buf(p) /\ Inf(p)' = Inf(p)
  BY <1>1 DEF Buf, Inf
<1>11. /\ \A p \in Places : p \in Active' <=> p \in Active /\ p[1] # sending
       /\ Active' \subseteq Places /\ Active \subseteq Places
  BY <1>1, <1>3, PlaceParts DEF Active
<1>12. TypeOK'
  BY <1>1, <1>3, <1>7, <1>9 DEF TypeOK
<1>13. CountersInv'
  BY <1>1, <1>3 DEF CountersInv
<1>14. PlacesInv'
  <2>1. ~Idle'
    BY <1>3
  <2>2. QED
    BY <1>1, <1>10, <1>11, <2>1 DEF PlacesInv
<1>15. BuffersInv'
  <2>1. pool' \cap wire' = {}
    BY <1>1, <1>7, <1>8, <1>9 DEF BuffersInv
  <2>2. \A p \in Active' : Buf(p) \notin pool' \cup wire'
    <3>1. ASSUME NEW p \in Active', Buf(p) \in out \cup back PROVE FALSE
      <4>1. PICK q \in Active : Buf(q) = Buf(p) /\ q[1] = sending /\ Buf(p) \in Mbufs
        BY <1>7, <3>1
      <4>2. p \in Active /\ p[1] # sending
        BY <1>11
      <4>3. QED
        BY <1>1, <4>1, <4>2 DEF BuffersInv
    <3>2. QED
      BY <1>1, <1>9, <1>11, <3>1 DEF BuffersInv
  <2>3. \A p, q \in Active' : Buf(p) = Buf(q) /\ Buf(p) # Null => p = q
    BY <1>1, <1>11 DEF BuffersInv
  <2>4. \A x \in taken : heap[x] \in Mbufs \ (pool' \cup wire') /\ \A p \in Active' : Buf(p) # heap[x]
    BY <1>1, <1>7, <1>9, <1>11 DEF BuffersInv
  <2>5. ASSUME NEW m \in Mbufs
        PROVE  m \in pool' \cup wire' \/ (\E p \in Active' : Buf(p) = m) \/ (\E x \in taken : heap[x] = m)
    <3>1. CASE m \in pool \cup wire \/ \E x \in taken : heap[x] = m
      BY <1>9, <3>1
    <3>2. CASE \E p \in Active : Buf(p) = m
      <4>1. PICK p \in Active : Buf(p) = m
        BY <3>2
      <4>2. CASE p[1] = sending
        <5>1. p[2] < c.nb_mbufs[sending] /\ p[2] \in PosIndex /\ p \in Places
          BY <1>1, <1>11, <4>1, <4>2, PlaceParts DEF PlacesInv
        <5>2. p[2] \in 0 .. c.nb_mbufs[sending] - 1
          BY <1>4, <5>1
        <5>3. m = c.mbuf_arrs[sending][p[2]]
          BY <4>1, <4>2 DEF Buf
        <5>4. m \in out \cup back
          BY <1>6, <5>2, <5>3 DEF out, back
        <5>5. QED
          BY <1>9, <5>4
      <4>3. CASE p[1] # sending
        BY <1>11, <4>1, <4>3
      <4>4. QED
        BY <4>2, <4>3
    <3>3. QED
      BY <1>1, <3>1, <3>2 DEF BuffersInv
  <2>6. QED
    BY <1>1, <1>10, <1>11, <2>1, <2>2, <2>3, <2>4, <2>5 DEF BuffersInv
<1>16. InfosInv'
  BY <1>1, <1>10 DEF InfosInv, Allocated
<1>17. InfosAligned'
  BY <1>3 DEF InfosAligned
<1>18. QED
  BY <1>12, <1>13, <1>14, <1>15, <1>16, <1>17 DEF IInv

\* Compacting an array keeps its buffers, each once, and leaves no gap.
LEMMA CompactedFacts ==
  ASSUME NEW arr \in [PosIndex -> Mbufs \cup {Null}], NEW len \in 0 .. BurstSize,
         \A j \in PosIndex : arr[j] # Null => j < len,
         \A i, j \in PosIndex : arr[i] = arr[j] /\ arr[i] # Null => i = j
  PROVE  /\ Cardinality(Live(arr, len)) \in 0 .. BurstSize
         /\ Compacted(arr, len) \in [PosIndex -> Mbufs \cup {Null}]
         /\ \A j \in PosIndex : Compacted(arr, len)[j] # Null <=> j < Cardinality(Live(arr, len))
         /\ \A i, j \in PosIndex :
              Compacted(arr, len)[i] = Compacted(arr, len)[j] /\ Compacted(arr, len)[i] # Null => i = j
         /\ \A j \in PosIndex : Compacted(arr, len)[j] # Null =>
              \E l \in PosIndex : arr[l] = Compacted(arr, len)[j]
         /\ \A l \in PosIndex : arr[l] # Null => \E j \in PosIndex : Compacted(arr, len)[j] = arr[l]
<1> DEFINE S == Live(arr, len)
           N == Cardinality(S)
           k == Compacted(arr, len)
<1>1. BurstSize \in Nat /\ BurstSize > 0
  BY ArraysAssumption
<1>2. S \in SUBSET PosIndex /\ S \in SUBSET Nat
  BY <1>1 DEF Live
<1>3. \A j \in PosIndex : j \in S <=> arr[j] # Null
  BY DEF Live
<1>4. \A j \in PosIndex : k[j] = IF j < N THEN arr[Ranked(S, j)] ELSE IF j < len THEN Null ELSE arr[j]
  BY DEF Compacted, Ranked, Below
<1>5. k = [j \in PosIndex |-> k[j]]
  BY DEF Compacted
<1> HIDE DEF S, k
<1>6. /\ IsFiniteSet(PosIndex) /\ Cardinality(PosIndex) = BurstSize
      /\ IsFiniteSet(S) /\ N \in 0 .. BurstSize
  <2>1. IsFiniteSet(PosIndex) /\ Cardinality(PosIndex) = BurstSize
    BY <1>1, FS_Interval
  <2>2. IsFiniteSet(S) /\ N <= BurstSize
    BY <1>2, <2>1, FS_Subset
  <2>3. N \in Nat
    BY <2>2, FS_CardinalityType
  <2>4. QED
    BY <1>1, <2>1, <2>2, <2>3
<1> HIDE DEF N
<1>7. ASSUME NEW j \in PosIndex, j < N
      PROVE  /\ Ranked(S, j) \in S /\ Ranked(S, j) \in PosIndex
             /\ Cardinality(Below(S, Ranked(S, j))) = j
             /\ k[j] = arr[Ranked(S, j)] /\ k[j] # Null
  <2>1. j \in 0 .. N - 1
    BY <1>6, <1>7
  <2>2. Ranked(S, j) \in S /\ Cardinality(Below(S, Ranked(S, j))) = j
    BY <1>2, <1>6, <2>1, RankedIsRanked DEF N
  <2>3. QED
    BY <1>2, <1>3, <1>4, <1>7, <2>2
<1>8. ASSUME NEW j \in PosIndex, ~(j < N) PROVE k[j] = Null
  BY <1>3, <1>4, <1>8
<1>9. \A j \in PosIndex : k[j] \in Mbufs \cup {Null}
  BY <1>7, <1>8
<1>10. k \in [PosIndex -> Mbufs \cup {Null}]
  BY <1>9, <1>5
<1>11. ASSUME NEW i \in PosIndex, NEW j \in PosIndex, k[i] = k[j], k[i] # Null PROVE i = j
  <2>1. i < N /\ j < N
    BY <1>8, <1>11
  <2>2. Ranked(S, i) = Ranked(S, j)
    BY <1>7, <1>11, <2>1
  <2>3. QED
    BY <1>7, <2>1, <2>2
<1>12. ASSUME NEW j \in PosIndex, k[j] # Null PROVE \E l \in PosIndex : arr[l] = k[j]
  BY <1>7, <1>8, <1>12
<1>13. ASSUME NEW l \in PosIndex, arr[l] # Null PROVE \E j \in PosIndex : k[j] = arr[l]
  <2>1. l \in S
    BY <1>3, <1>13
  <2>2. PICK r \in 0 .. N - 1 : r = Cardinality(Below(S, l)) /\ Ranked(S, r) = l
    BY <1>2, <1>6, <2>1, BelowFinite, RankedOfRank DEF N
  <2>3. r \in PosIndex /\ r < N
    BY <1>1, <1>6, <2>2
  <2>4. QED
    BY <1>7, <2>2, <2>3
<1>14. \A j \in PosIndex : k[j] # Null <=> j < N
  BY <1>7, <1>8
<1>15. QED
  BY <1>6, <1>10, <1>11, <1>12, <1>13, <1>14 DEF S, N, k

\* reorder_mbuf_arrays closes the gaps, keeps every buffer, and counts what is left.
LEMMA ReorderedFacts ==
  ASSUME TypeOK, CountersInv, PlacesInv, BuffersInv, Idle
  PROVE  /\ Reordered(c) \in Members
         /\ Reordered(c).pkt_info_arrs = c.pkt_info_arrs
         /\ Reordered(c).arrays = c.arrays
         /\ \A i \in ArrIndex : i >= c.arrays => Reordered(c).nb_mbufs[i] = 0
         /\ \A p \in Places : Reordered(c).mbuf_arrs[p[1]][p[2]] # Null <=> p[2] < Reordered(c).nb_mbufs[p[1]]
         /\ \A p, q \in Places :
              /\ Reordered(c).mbuf_arrs[p[1]][p[2]] = Reordered(c).mbuf_arrs[q[1]][q[2]]
              /\ Reordered(c).mbuf_arrs[p[1]][p[2]] # Null
              => p = q
         /\ \A p \in Places : Reordered(c).mbuf_arrs[p[1]][p[2]] # Null =>
              \E q \in Places : Buf(q) = Reordered(c).mbuf_arrs[p[1]][p[2]]
         /\ \A q \in Places : Buf(q) # Null =>
              \E p \in Places : Reordered(c).mbuf_arrs[p[1]][p[2]] = Buf(q)
<1> DEFINE a == [i \in ArrIndex |->
                   IF i < c.arrays THEN Compacted(c.mbuf_arrs[i], c.nb_mbufs[i]) ELSE c.mbuf_arrs[i]]
           n == [i \in ArrIndex |->
                   IF i < c.arrays THEN Cardinality(Live(c.mbuf_arrs[i], c.nb_mbufs[i])) ELSE c.nb_mbufs[i]]
           k == Reordered(c)
<1>1. /\ c \in Members
      /\ \A i \in ArrIndex : /\ c.mbuf_arrs[i] \in [PosIndex -> Mbufs \cup {Null}]
                             /\ c.nb_mbufs[i] \in 0 .. BurstSize
  BY DEF TypeOK, Members
<1>2. k = [c EXCEPT !.mbuf_arrs = a, !.nb_mbufs = n]
  BY <1>1 DEF Reordered
<1>3. ASSUME NEW i \in ArrIndex, NEW j \in PosIndex
      PROVE  /\ <<i, j>> \in Places /\ Buf(<<i, j>>) = c.mbuf_arrs[i][j]
             /\ c.mbuf_arrs[i][j] # Null => j < c.nb_mbufs[i]
  <2>1. PICK p : p = <<i, j>>
    OBVIOUS
  <2>2. p \in Places /\ p[1] = i /\ p[2] = j
    BY <2>1 DEF Places
  <2>3. Buf(p) = c.mbuf_arrs[i][j] /\ (Buf(p) # Null => j < c.nb_mbufs[i])
    BY <2>2 DEF Buf, PlacesInv
  <2>4. QED
    BY <2>1, <2>2, <2>3
<1>4. ASSUME NEW i \in ArrIndex, NEW j \in PosIndex, NEW h \in ArrIndex, NEW l \in PosIndex,
             c.mbuf_arrs[i][j] = c.mbuf_arrs[h][l], c.mbuf_arrs[i][j] # Null
      PROVE  i = h /\ j = l
  <2>1. PICK p, q : p = <<i, j>> /\ q = <<h, l>>
    OBVIOUS
  <2>2. p \in Places /\ q \in Places /\ Buf(p) = Buf(q) /\ Buf(p) # Null
    BY <1>3, <1>4, <2>1
  <2>3. p = q
    BY <2>2, IdleActive DEF BuffersInv
  <2>4. QED
    BY <2>1, <2>3
<1>5. ASSUME NEW i \in ArrIndex
      PROVE  /\ n[i] \in 0 .. BurstSize
             /\ a[i] \in [PosIndex -> Mbufs \cup {Null}]
             /\ \A j \in PosIndex : a[i][j] # Null <=> j < n[i]
             /\ \A j, l \in PosIndex : a[i][j] = a[i][l] /\ a[i][j] # Null => j = l
             /\ \A j \in PosIndex : a[i][j] # Null => \E l \in PosIndex : c.mbuf_arrs[i][l] = a[i][j]
             /\ \A l \in PosIndex : c.mbuf_arrs[i][l] # Null => \E j \in PosIndex : a[i][j] = c.mbuf_arrs[i][l]
             /\ i >= c.arrays => n[i] = 0
  <2>1. /\ \A j \in PosIndex : c.mbuf_arrs[i][j] # Null => j < c.nb_mbufs[i]
        /\ \A j, l \in PosIndex : c.mbuf_arrs[i][j] = c.mbuf_arrs[i][l] /\ c.mbuf_arrs[i][j] # Null => j = l
    <3>1. \A j \in PosIndex : c.mbuf_arrs[i][j] # Null => j < c.nb_mbufs[i]
      BY <1>3
    <3>2. \A j, l \in PosIndex : c.mbuf_arrs[i][j] = c.mbuf_arrs[i][l] /\ c.mbuf_arrs[i][j] # Null => j = l
      BY <1>4
    <3>3. QED
      BY <3>1, <3>2
  <2>2. CASE i < c.arrays
    <3>1. a[i] = Compacted(c.mbuf_arrs[i], c.nb_mbufs[i]) /\ n[i] = Cardinality(Live(c.mbuf_arrs[i], c.nb_mbufs[i]))
      BY <2>2
    <3>2. ~(i >= c.arrays)
      BY <1>1, <2>2, ArraysAssumption DEF Members
    <3> HIDE DEF a, n
    <3>3. PICK arr, len : arr = c.mbuf_arrs[i] /\ len = c.nb_mbufs[i]
      OBVIOUS
    <3>4. /\ arr \in [PosIndex -> Mbufs \cup {Null}] /\ len \in 0 .. BurstSize
          /\ \A j \in PosIndex : arr[j] # Null => j < len
          /\ \A j, l \in PosIndex : arr[j] = arr[l] /\ arr[j] # Null => j = l
      BY <1>1, <2>1, <3>3
    <3>5. /\ Cardinality(Live(arr, len)) \in 0 .. BurstSize
          /\ Compacted(arr, len) \in [PosIndex -> Mbufs \cup {Null}]
          /\ \A j \in PosIndex : Compacted(arr, len)[j] # Null <=> j < Cardinality(Live(arr, len))
          /\ \A j, l \in PosIndex :
               Compacted(arr, len)[j] = Compacted(arr, len)[l] /\ Compacted(arr, len)[j] # Null => j = l
          /\ \A j \in PosIndex : Compacted(arr, len)[j] # Null =>
               \E l \in PosIndex : arr[l] = Compacted(arr, len)[j]
          /\ \A l \in PosIndex : arr[l] # Null => \E j \in PosIndex : Compacted(arr, len)[j] = arr[l]
      BY <3>4, CompactedFacts
    <3>6. a[i] = Compacted(arr, len) /\ n[i] = Cardinality(Live(arr, len))
      BY <3>1, <3>3
    <3>7. QED
      BY <3>2, <3>3, <3>5, <3>6
  <2>3. CASE ~(i < c.arrays)
    <3>1. a[i] = c.mbuf_arrs[i] /\ n[i] = c.nb_mbufs[i]
      BY <2>3
    <3>2. n[i] = 0
      BY <1>1, <2>3, <3>1, InUse
    <3> HIDE DEF a, n
    <3>3. \A j \in PosIndex : a[i][j] = Null /\ ~(j < n[i])
      BY <2>1, <3>1, <3>2
    <3>4. QED
      BY <1>1, <2>1, <3>1, <3>2, <3>3, ArraysAssumption
  <2>4. QED
    BY <2>2, <2>3
<1>6. a \in Arrays(Mbufs \cup {Null}) /\ n \in [ArrIndex -> 0 .. BurstSize]
  <2>1. a = [i \in ArrIndex |-> a[i]] /\ n = [i \in ArrIndex |-> n[i]]
    OBVIOUS
  <2> HIDE DEF a, n
  <2>2. QED
    BY <1>5, <2>1 DEF Arrays
<1> HIDE DEF a, n, k
<1>7. /\ k \in Members /\ k.mbuf_arrs = a /\ k.nb_mbufs = n
      /\ k.pkt_info_arrs = c.pkt_info_arrs /\ k.arrays = c.arrays
  BY <1>1, <1>2, <1>6 DEF Members, Arrays
<1>8. \A p \in Places : k.mbuf_arrs[p[1]][p[2]] # Null <=> p[2] < k.nb_mbufs[p[1]]
  BY <1>5, <1>7, PlaceParts
<1>9. \A i \in ArrIndex : i >= c.arrays => k.nb_mbufs[i] = 0
  BY <1>5, <1>7
<1>10. ASSUME NEW p \in Places, NEW q \in Places,
              k.mbuf_arrs[p[1]][p[2]] = k.mbuf_arrs[q[1]][q[2]], k.mbuf_arrs[p[1]][p[2]] # Null
       PROVE  p = q
  <2>1. PICK i \in ArrIndex, j \in PosIndex : p = <<i, j>> /\ p[1] = i /\ p[2] = j
    BY DEF Places
  <2>2. PICK h \in ArrIndex, l \in PosIndex : q = <<h, l>> /\ q[1] = h /\ q[2] = l
    BY DEF Places
  <2>3. a[i][j] = a[h][l] /\ a[i][j] # Null
    BY <1>7, <1>10, <2>1, <2>2
  <2>4. PICK r \in PosIndex, s \in PosIndex : c.mbuf_arrs[i][r] = a[i][j] /\ c.mbuf_arrs[h][s] = a[h][l]
    BY <1>5, <2>3
  <2>5. i = h
    BY <1>4, <2>3, <2>4
  <2>6. j = l
    BY <1>5, <2>3, <2>5
  <2>7. QED
    BY <2>1, <2>2, <2>5, <2>6
<1>11. ASSUME NEW p \in Places, k.mbuf_arrs[p[1]][p[2]] # Null
       PROVE  \E q \in Places : Buf(q) = k.mbuf_arrs[p[1]][p[2]]
  <2>1. PICK l \in PosIndex : c.mbuf_arrs[p[1]][l] = a[p[1]][p[2]]
    BY <1>5, <1>7, <1>11, PlaceParts
  <2>2. PICK q : q = <<p[1], l>>
    OBVIOUS
  <2>3. q \in Places /\ Buf(q) = c.mbuf_arrs[p[1]][l]
    BY <1>3, <2>2, PlaceParts
  <2>4. QED
    BY <1>7, <2>1, <2>3
<1>12. ASSUME NEW q \in Places, Buf(q) # Null
       PROVE  \E p \in Places : k.mbuf_arrs[p[1]][p[2]] = Buf(q)
  <2>1. PICK i \in ArrIndex, l \in PosIndex : q = <<i, l>> /\ Buf(q) = c.mbuf_arrs[i][l]
    BY <1>3 DEF Places
  <2>2. PICK j \in PosIndex : a[i][j] = c.mbuf_arrs[i][l]
    BY <1>5, <1>12, <2>1
  <2>3. PICK p : p = <<i, j>>
    OBVIOUS
  <2>4. p \in Places /\ p[1] = i /\ p[2] = j
    BY <2>3 DEF Places
  <2>5. QED
    BY <1>7, <2>1, <2>2, <2>4
<1>13. QED
  BY <1>7, <1>8, <1>9, <1>10, <1>11, <1>12 DEF k

\* The start of send_packets keeps the invariant.
LEMMA SendPacketsPreserves ==
  ASSUME IInv, send_packets, UNCHANGED lean
  PROVE  IInv'
<1>1. /\ TypeOK /\ CountersInv /\ PlacesInv /\ BuffersInv /\ InfosInv
      /\ Idle /\ sending' = 0 /\ heap' = heap /\ pool' = pool /\ wire' = wire
      /\ taken' = taken /\ lean' = lean
      /\ c' = IF c.dropped # 0 THEN Reordered(c) ELSE c
      /\ c.arrays \in 0 .. NumArrs
  BY DEF IInv, send_packets, TypeOK, Members
<1>2. /\ Active = Places /\ Active' = Places
  BY <1>1, IdleActive, PlaceParts DEF Active
<1>3. /\ c' \in Members /\ c'.pkt_info_arrs = c.pkt_info_arrs /\ c'.arrays = c.arrays
      /\ \A i \in ArrIndex : i >= c.arrays => c'.nb_mbufs[i] = 0
      /\ \A p \in Places : Buf(p)' # Null <=> p[2] < c'.nb_mbufs[p[1]]
      /\ \A p, q \in Places : Buf(p)' = Buf(q)' /\ Buf(p)' # Null => p = q
      /\ \A p \in Places : Buf(p)' # Null => \E q \in Places : Buf(q) = Buf(p)'
      /\ \A q \in Places : Buf(q) # Null => \E p \in Places : Buf(p)' = Buf(q)
  <2>1. CASE c.dropped # 0
    <3>1. c' = Reordered(c)
      BY <1>1, <2>1
    <3>2. \A p \in Places : Buf(p)' = Reordered(c).mbuf_arrs[p[1]][p[2]]
      BY <3>1 DEF Buf
    <3>3. QED
      BY <1>1, <3>1, <3>2, ReorderedFacts
  <2>2. CASE c.dropped = 0
    <3>1. c' = c /\ c \in Members /\ \A p \in Places : Buf(p)' = Buf(p)
      BY <1>1, <2>2 DEF Buf, TypeOK
    <3>2. \A i \in ArrIndex : i >= c.arrays => c.nb_mbufs[i] = 0
      <4>1. ASSUME NEW i \in ArrIndex, c.nb_mbufs[i] # 0 PROVE ~(i >= c.arrays)
        BY <1>1, <4>1, InUse, ArraysAssumption
      <4>2. QED
        BY <4>1
    <3>3. \A p \in Places : Buf(p) # Null <=> p[2] < c.nb_mbufs[p[1]]
      BY <1>1, <2>2 DEF PlacesInv
    <3>4. \A p, q \in Places : Buf(p) = Buf(q) /\ Buf(p) # Null => p = q
      BY <1>1, <1>2 DEF BuffersInv
    <3>5. QED
      BY <3>1, <3>2, <3>3, <3>4
  <2>3. QED
    BY <2>1, <2>2
<1>4. \A p \in Places : Inf(p)' = Inf(p)
  BY <1>3 DEF Inf
<1>5. TypeOK'
  BY <1>1, <1>3, ArraysAssumption DEF TypeOK
<1>6. CountersInv'
  BY <1>1, <1>3 DEF CountersInv
<1>7. PlacesInv'
  BY <1>1, <1>2, <1>3 DEF PlacesInv
<1>8. BuffersInv'
  <2>1. Null \notin pool \cup wire
    BY <1>1 DEF TypeOK
  <2>2. \A p \in Places : Buf(p)' \notin pool' \cup wire'
    BY <1>1, <1>2, <1>3, <2>1 DEF BuffersInv
  <2>3. \A x \in taken : heap[x] \in Mbufs \ (pool \cup wire) /\ \A p \in Places : Buf(p)' # heap[x]
    <3>1. ASSUME NEW x \in taken, NEW p \in Places, Buf(p)' = heap[x] PROVE FALSE
      <4>1. heap[x] \in Mbufs /\ \A q \in Places : Buf(q) # heap[x]
        BY <1>1, <1>2 DEF BuffersInv
      <4>2. Buf(p)' # Null
        BY <3>1, <4>1
      <4>3. QED
        BY <1>3, <3>1, <4>1, <4>2
    <3>2. \A x \in taken : heap[x] \in Mbufs \ (pool \cup wire)
      BY <1>1 DEF BuffersInv
    <3>3. QED
      BY <3>1, <3>2
  <2>4. ASSUME NEW m \in Mbufs
        PROVE  m \in pool \cup wire \/ (\E p \in Places : Buf(p)' = m) \/ (\E x \in taken : heap[x] = m)
    <3>1. CASE \E q \in Places : Buf(q) = m
      BY <1>3, <3>1
    <3>2. CASE m \in pool \cup wire \/ \E x \in taken : heap[x] = m
      BY <3>2
    <3>3. QED
      BY <1>1, <1>2, <3>1, <3>2 DEF BuffersInv
  <2>5. /\ pool \cap wire = {}
        /\ \A x, y \in taken : heap[x] = heap[y] => x = y
    BY <1>1 DEF BuffersInv
  <2>6. QED
    BY <1>1, <1>2, <1>3, <2>2, <2>3, <2>4, <2>5 DEF BuffersInv
<1>9. InfosInv'
  BY <1>1, <1>4 DEF InfosInv, Allocated
<1>10. InfosAligned'
  BY <1>1 DEF InfosAligned
<1>11. QED
  BY <1>5, <1>6, <1>7, <1>8, <1>9, <1>10 DEF IInv

------------------------------------------------------------------------------
(* Polling.                                                                *)

\* A row of an array is written.
RowWritten(arrs, row) == [arrs EXCEPT ![0] = row]
Rows(A) == [PosIndex -> A]

\* Writing a row changes the places of the first array only.
LEMMA RowFacts ==
  ASSUME NEW A, NEW arrs \in Arrays(A), NEW row \in Rows(A), 0 \in ArrIndex
  PROVE  /\ RowWritten(arrs, row) \in Arrays(A)
         /\ \A p \in Places : RowWritten(arrs, row)[p[1]][p[2]] =
              IF p[1] = 0 THEN row[p[2]] ELSE arrs[p[1]][p[2]]
<1>1. RowWritten(arrs, row) \in Arrays(A)
  BY DEF Arrays, Rows, RowWritten
<1>2. ASSUME NEW p \in Places
      PROVE  RowWritten(arrs, row)[p[1]][p[2]] = IF p[1] = 0 THEN row[p[2]] ELSE arrs[p[1]][p[2]]
  BY PlaceParts DEF Arrays, RowWritten
<1>3. QED
  BY <1>1, <1>2

InBurst(p, n) == p[1] = 0 /\ p[2] < n

\* A burst fills the first places of the emptied container.
LEMMA PolledFacts ==
  ASSUME TypeOK, CountersInv, PlacesInv, Idle, c.total = 0,
         NEW n \in 0 .. BurstSize, NEW burst \in Bursts(n)
  PROVE  /\ PolledBuffers(Emptied(c), burst, n) \in Members
         /\ \A p \in Places : PolledBuffers(Emptied(c), burst, n).mbuf_arrs[p[1]][p[2]] =
              IF InBurst(p, n) THEN burst[p[2]] ELSE Null
         /\ \A p \in Places : PolledBuffers(Emptied(c), burst, n).pkt_info_arrs[p[1]][p[2]] = Inf(p)
         /\ \A i \in ArrIndex : PolledBuffers(Emptied(c), burst, n).nb_mbufs[i] = Filled(n, i)
         /\ PolledBuffers(Emptied(c), burst, n).total = n
         /\ PolledBuffers(Emptied(c), burst, n).polled = n
         /\ PolledBuffers(Emptied(c), burst, n).arrays = IF n > 0 THEN 1 ELSE 0
         /\ PolledBuffers(Emptied(c), burst, n).dropped = 0
<1> DEFINE e == Emptied(c)
           row == [j \in PosIndex |-> IF j < n THEN burst[j] ELSE e.mbuf_arrs[0][j]]
           a == RowWritten(e.mbuf_arrs, row)
           l == IF n > 0 THEN n ELSE e.nb_mbufs[0]
           r == IF n > 0 THEN 1 ELSE e.arrays
           k == PolledBuffers(e, burst, n)
<1>1. /\ BurstSize \in Nat /\ BurstSize > 0 /\ NumArrs \in Nat /\ NumArrs > 0
      /\ n \in Nat /\ 0 \in ArrIndex /\ Capacity = NumArrs * BurstSize /\ Capacity \in Nat
  BY ArraysAssumption, CapacityAssumption
<1>2. n \in 0 .. Capacity
  <2>1. 1 * BurstSize <= NumArrs * BurstSize
    BY <1>1, TimesMonotone
  <2>2. QED
    BY <1>1, <2>1
<1>3. /\ e \in Members
      /\ \A p \in Places : e.mbuf_arrs[p[1]][p[2]] = Null
      /\ \A p \in Places : e.pkt_info_arrs[p[1]][p[2]] = Inf(p)
      /\ \A i \in ArrIndex : e.nb_mbufs[i] = 0
      /\ e.arrays = 0 /\ e.dropped = 0
  BY EmptiedFacts, TotalZero
<1>4. k = [e EXCEPT !.mbuf_arrs = a, !.polled = n, !.total = n, !.arrays = r,
                    !.nb_mbufs = [e.nb_mbufs EXCEPT ![0] = l]]
  BY <1>3 DEF PolledBuffers, Members, RowWritten
<1> HIDE DEF e, k
<1>5. \A j \in 0 .. n - 1 : burst[j] \in Mbufs
  BY DEF Bursts, TypeOK
<1>6. e.mbuf_arrs \in Arrays(Mbufs \cup {Null}) /\ e.nb_mbufs \in [ArrIndex -> 0 .. BurstSize]
  BY <1>3 DEF Members, Arrays
<1>7. ASSUME NEW j \in PosIndex
      PROVE  row[j] = (IF j < n THEN burst[j] ELSE Null) /\ row[j] \in Mbufs \cup {Null}
  <2>1. PICK p : p = <<0, j>>
    OBVIOUS
  <2>2. p \in Places /\ p[1] = 0 /\ p[2] = j
    BY <1>1, <2>1 DEF Places
  <2>3. e.mbuf_arrs[0][j] = Null
    BY <1>3, <2>2
  <2>4. j < n => j \in 0 .. n - 1
    BY <1>1
  <2>5. QED
    BY <1>5, <2>3, <2>4
<1>8. row \in Rows(Mbufs \cup {Null})
  BY <1>7 DEF Rows
<1> HIDE DEF row
<1>9. /\ a \in Arrays(Mbufs \cup {Null})
      /\ \A p \in Places : a[p[1]][p[2]] = IF p[1] = 0 THEN row[p[2]] ELSE e.mbuf_arrs[p[1]][p[2]]
  BY <1>1, <1>6, <1>8, RowFacts
<1>10. l = n /\ l \in 0 .. BurstSize /\ r \in 0 .. NumArrs
  BY <1>1, <1>3
<1> HIDE DEF a, l, r
<1>11. PICK nb : nb = [e.nb_mbufs EXCEPT ![0] = l]
  OBVIOUS
<1>12. /\ nb \in [ArrIndex -> 0 .. BurstSize]
       /\ \A i \in ArrIndex : nb[i] = IF i = 0 THEN n ELSE 0
  BY <1>1, <1>3, <1>6, <1>10, <1>11
<1>13. k = [e EXCEPT !.mbuf_arrs = a, !.polled = n, !.total = n, !.arrays = r, !.nb_mbufs = nb]
  BY <1>4, <1>11
<1>14. n \in 0 .. BurstSize
  OBVIOUS
<1>15. k \in Members
  <2>1. PICK B, T, R, C : B = 0 .. BurstSize /\ T = 0 .. Capacity /\ R = 0 .. NumArrs /\ C = [ArrIndex -> B]
    OBVIOUS
  <2>2. n \in B /\ n \in T /\ r \in R /\ nb \in C
    BY <1>2, <1>10, <1>12, <1>14, <2>1
  <2>3. Members = [mbuf_arrs : Arrays(Mbufs \cup {Null}), pkt_info_arrs : Arrays(Infos \cup {Null}),
                   nb_mbufs : C, polled : B, total : T, arrays : R, dropped : Nat]
    BY <2>1 DEF Members, Arrays
  <2>4. QED
    BY <1>3, <1>9, <1>13, <2>2, <2>3
<1>16. /\ k.mbuf_arrs = a /\ k.pkt_info_arrs = e.pkt_info_arrs /\ k.nb_mbufs = nb
       /\ k.polled = n /\ k.total = n /\ k.arrays = r /\ k.dropped = e.dropped
  BY <1>3, <1>13 DEF Members
<1>17. ASSUME NEW p \in Places
       PROVE  k.mbuf_arrs[p[1]][p[2]] = IF InBurst(p, n) THEN burst[p[2]] ELSE Null
  BY <1>3, <1>7, <1>9, <1>16, PlaceParts DEF InBurst
<1>18. \A i \in ArrIndex : k.nb_mbufs[i] = Filled(n, i)
  BY <1>12, <1>16, FilledBurst
<1>19. r = IF n > 0 THEN 1 ELSE 0
  BY <1>3 DEF r
<1>20. QED
  BY <1>3, <1>15, <1>16, <1>17, <1>18, <1>19 DEF e, k

\* A burst of free buffers, each once, fills the first array from the front.
LEMMA PollPreserves ==
  ASSUME IInv, Idle, c.total = 0, sending' = sending,
         NEW n \in 0 .. BurstSize, NEW burst \in Bursts(n),
         \A p \in Places : Buf(p)' = IF InBurst(p, n) THEN burst[p[2]] ELSE Null,
         \A i \in ArrIndex : c'.nb_mbufs[i] = Filled(n, i),
         c'.total = n, c'.polled = n, c'.arrays = (IF n > 0 THEN 1 ELSE 0), c'.dropped = 0,
         pool' = pool \ {burst[j] : j \in 0 .. n - 1}, wire' = wire, taken' = taken,
         \A x \in taken : heap'[x] = heap[x]
  PROVE  /\ CountersInv' /\ PlacesInv' /\ BuffersInv'
         /\ \A p \in Places : p \in Listed(c)' <=> InBurst(p, n)
<1>1. /\ TypeOK /\ CountersInv /\ PlacesInv /\ BuffersInv
      /\ BurstSize \in Nat /\ BurstSize > 0 /\ n \in Nat /\ 0 \in ArrIndex
  BY ArraysAssumption DEF IInv
<1>2. /\ Active = Places /\ Active' = Places
      /\ \A p \in Places : Buf(p) = Null
  BY <1>1, IdleActive, TotalZero DEF Active
<1>3. /\ \A j \in 0 .. n - 1 : burst[j] \in pool
      /\ \A i, j \in 0 .. n - 1 : burst[i] = burst[j] => i = j
  BY DEF Bursts
<1>4. ASSUME NEW p \in Places, InBurst(p, n)
      PROVE  p[2] \in 0 .. n - 1 /\ burst[p[2]] \in pool /\ burst[p[2]] # Null /\ p = <<0, p[2]>>
  <2>1. p[2] \in 0 .. n - 1
    BY <1>1, <1>4, PlaceParts DEF InBurst
  <2>2. burst[p[2]] \in pool
    BY <1>3, <2>1
  <2>3. p = <<0, p[2]>>
    BY <1>4, PlaceParts DEF InBurst
  <2>4. QED
    BY <1>1, <2>1, <2>2, <2>3 DEF TypeOK
<1>5. \A p \in Places : p[2] < c'.nb_mbufs[p[1]] <=> InBurst(p, n)
  <2>1. ASSUME NEW p \in Places PROVE p[2] < c'.nb_mbufs[p[1]] <=> InBurst(p, n)
    <3>1. c'.nb_mbufs[p[1]] = IF p[1] = 0 THEN n ELSE 0
      BY PlaceParts, FilledBurst
    <3>2. p[2] \in Nat
      BY <1>1, PlaceParts
    <3>3. QED
      BY <3>1, <3>2 DEF InBurst
  <2>2. QED
    BY <2>1
<1>6. CountersInv'
  <2>1. CASE n > 0
    <3>1. c'.arrays = 1 /\ c'.arrays - 1 = 0
      BY <2>1
    <3>2. c'.arrays * BurstSize = BurstSize /\ (c'.arrays - 1) * BurstSize = 0
      BY <1>1, <3>1
    <3>3. QED
      BY <1>1, <2>1, <3>1, <3>2 DEF CountersInv
  <2>2. CASE n = 0
    <3>1. c'.arrays = 0 /\ c'.arrays * BurstSize = 0
      BY <1>1, <2>2
    <3>2. QED
      BY <1>1, <2>2, <3>1 DEF CountersInv
  <2>3. QED
    BY <1>1, <2>1, <2>2
<1>7. PlacesInv'
  BY <1>4, <1>5 DEF PlacesInv
<1>8. BuffersInv'
  <2>1. pool' \subseteq pool /\ Null \notin pool \cup wire /\ pool \cap wire = {}
    BY <1>1 DEF TypeOK, BuffersInv
  <2>2. \A p \in Places : Buf(p)' \notin pool' \cup wire'
    <3>1. ASSUME NEW p \in Places, InBurst(p, n) PROVE Buf(p)' \notin pool' \cup wire'
      BY <1>4, <2>1, <3>1
    <3>2. QED
      BY <2>1, <3>1
  <2>3. ASSUME NEW p \in Places, NEW q \in Places, Buf(p)' = Buf(q)', Buf(p)' # Null PROVE p = q
    <3>1. InBurst(p, n) /\ InBurst(q, n) /\ burst[p[2]] = burst[q[2]]
      BY <2>3
    <3>2. p[2] = q[2]
      BY <1>3, <1>4, <3>1
    <3>3. QED
      BY <1>4, <3>1, <3>2
  <2>4. ASSUME NEW x \in taken
        PROVE  heap'[x] \in Mbufs \ (pool' \cup wire') /\ \A p \in Places : Buf(p)' # heap'[x]
    <3>1. heap'[x] = heap[x] /\ heap[x] \in Mbufs /\ heap[x] \notin pool \cup wire
      BY <1>1 DEF BuffersInv
    <3>2. \A p \in Places : Buf(p)' # heap[x]
      BY <1>4, <3>1
    <3>3. QED
      BY <2>1, <3>1, <3>2
  <2>5. \A x, y \in taken : heap'[x] = heap'[y] => x = y
    BY <1>1 DEF BuffersInv
  <2>6. ASSUME NEW m \in Mbufs
        PROVE  m \in pool' \cup wire' \/ (\E p \in Places : Buf(p)' = m) \/ (\E x \in taken : heap'[x] = m)
    <3>1. CASE m \in {burst[j] : j \in 0 .. n - 1}
      <4>1. PICK j \in 0 .. n - 1 : m = burst[j]
        BY <3>1
      <4>2. PICK p : p = <<0, j>>
        OBVIOUS
      <4>3. p \in Places /\ p[1] = 0 /\ p[2] = j /\ j < n
        BY <1>1, <4>2 DEF Places
      <4>4. QED
        BY <4>1, <4>3 DEF InBurst
    <3>2. CASE m \notin {burst[j] : j \in 0 .. n - 1} /\ (m \in pool \cup wire \/ \E x \in taken : heap[x] = m)
      BY <3>2
    <3>3. QED
      BY <1>1, <1>2, <3>1, <3>2 DEF BuffersInv
  <2>7. QED
    BY <1>2, <2>1, <2>2, <2>3, <2>4, <2>5, <2>6 DEF BuffersInv
<1>9. \A p \in Places : p \in Listed(c)' <=> InBurst(p, n)
  <2>1. \A p \in Places : p \in Listed(c)' <=> p[1] < c'.arrays /\ p[2] < c'.nb_mbufs[p[1]]
    BY DEF Listed, Places
  <2>2. ASSUME NEW p \in Places, InBurst(p, n) PROVE p[1] < c'.arrays
    <3>1. n > 0
      BY <1>1, <1>4, <2>2
    <3>2. QED
      BY <2>2, <3>1 DEF InBurst
  <2>3. QED
    BY <1>5, <2>1, <2>2
<1>10. QED
  BY <1>6, <1>7, <1>8, <1>9

\* poll_mbufs keeps the invariant.
LEMMA PollMbufsPreserves ==
  ASSUME IInv, poll_mbufs, UNCHANGED lean
  PROVE  IInv'
<1>1. /\ TypeOK /\ CountersInv /\ PlacesInv /\ BuffersInv /\ InfosInv
      /\ Idle /\ lean /\ c.total = 0
      /\ sending' = sending /\ wire' = wire /\ taken' = taken /\ heap' = heap /\ lean' = lean
  BY DEF IInv, poll_mbufs
<1> PICK n \in 0 .. BurstSize : \E burst \in Bursts(n) :
        /\ c' = PolledBuffers(Emptied(c), burst, n)
        /\ pool' = pool \ {burst[j] : j \in 0 .. n - 1}
  BY DEF poll_mbufs
<1>2. PICK burst \in Bursts(n) :
        /\ c' = PolledBuffers(Emptied(c), burst, n)
        /\ pool' = pool \ {burst[j] : j \in 0 .. n - 1}
  OBVIOUS
<1>3. /\ c' \in Members
      /\ \A p \in Places : Buf(p)' = IF InBurst(p, n) THEN burst[p[2]] ELSE Null
      /\ \A p \in Places : Inf(p)' = Inf(p)
      /\ \A i \in ArrIndex : c'.nb_mbufs[i] = Filled(n, i)
      /\ c'.total = n /\ c'.polled = n /\ c'.dropped = 0
      /\ c'.arrays = IF n > 0 THEN 1 ELSE 0
  BY <1>1, <1>2, PolledFacts DEF Buf, Inf
<1>4. TypeOK'
  BY <1>1, <1>2, <1>3 DEF TypeOK
<1>5. CountersInv' /\ PlacesInv' /\ BuffersInv'
  BY <1>1, <1>2, <1>3, PollPreserves
<1>6. InfosInv'
  BY <1>1, <1>3 DEF InfosInv, Allocated
<1>7. InfosAligned'
  BY <1>1 DEF InfosAligned
<1>8. QED
  BY <1>4, <1>5, <1>6, <1>7 DEF IInv

\* The packets of a burst get new PacketInfo objects, each its own.
LEMMA PolledInfoFacts ==
  ASSUME TypeOK, CountersInv, PlacesInv, Idle, c.total = 0,
         NEW n \in 0 .. BurstSize, NEW burst \in Bursts(n),
         \A j \in 0 .. n - 1 : NewInfo(j) \in Infos
  PROVE  /\ Polled(Emptied(c), burst, n) \in Members
         /\ Polled(Emptied(c), burst, n).mbuf_arrs = PolledBuffers(Emptied(c), burst, n).mbuf_arrs
         /\ Polled(Emptied(c), burst, n).nb_mbufs = PolledBuffers(Emptied(c), burst, n).nb_mbufs
         /\ Polled(Emptied(c), burst, n).total = PolledBuffers(Emptied(c), burst, n).total
         /\ Polled(Emptied(c), burst, n).arrays = PolledBuffers(Emptied(c), burst, n).arrays
         /\ Polled(Emptied(c), burst, n).polled = PolledBuffers(Emptied(c), burst, n).polled
         /\ Polled(Emptied(c), burst, n).dropped = PolledBuffers(Emptied(c), burst, n).dropped
         /\ \A p \in Places : Polled(Emptied(c), burst, n).pkt_info_arrs[p[1]][p[2]] =
              IF InBurst(p, n) THEN NewInfo(p[2]) ELSE Inf(p)
<1> DEFINE k == PolledBuffers(Emptied(c), burst, n)
           row == [j \in PosIndex |-> IF j < n THEN NewInfo(j) ELSE k.pkt_info_arrs[0][j]]
           w == RowWritten(k.pkt_info_arrs, row)
           l == Polled(Emptied(c), burst, n)
<1>1. /\ k \in Members
      /\ \A p \in Places : k.pkt_info_arrs[p[1]][p[2]] = Inf(p)
  BY PolledFacts
<1>2. l = [k EXCEPT !.pkt_info_arrs = w]
  BY <1>1 DEF Polled, Members, RowWritten
<1> HIDE DEF k, l
<1>3. /\ n \in Nat /\ 0 \in ArrIndex
  BY ArraysAssumption
<1>4. k.pkt_info_arrs \in Arrays(Infos \cup {Null})
  BY <1>1 DEF Members, Arrays
<1>5. ASSUME NEW j \in PosIndex
      PROVE  row[j] = (IF j < n THEN NewInfo(j) ELSE k.pkt_info_arrs[0][j]) /\ row[j] \in Infos \cup {Null}
  <2>1. k.pkt_info_arrs[0][j] \in Infos \cup {Null}
    <3>1. PICK p : p = <<0, j>>
      OBVIOUS
    <3>2. p \in Places /\ p[1] = 0 /\ p[2] = j
      BY <1>3, <3>1 DEF Places
    <3>3. k.pkt_info_arrs[p[1]][p[2]] \in Infos \cup {Null}
      BY <1>1, <3>2, MembersTypes
    <3>4. QED
      BY <3>2, <3>3
  <2>2. j < n => j \in 0 .. n - 1
    BY <1>3
  <2>3. QED
    BY <2>1, <2>2
<1>6. row \in Rows(Infos \cup {Null})
  BY <1>5 DEF Rows
<1> HIDE DEF row
<1>7. /\ w \in Arrays(Infos \cup {Null})
      /\ \A p \in Places : w[p[1]][p[2]] = IF p[1] = 0 THEN row[p[2]] ELSE k.pkt_info_arrs[p[1]][p[2]]
  BY <1>3, <1>4, <1>6, RowFacts
<1> HIDE DEF w
<1>8. /\ l.pkt_info_arrs = w /\ l.mbuf_arrs = k.mbuf_arrs /\ l.nb_mbufs = k.nb_mbufs
      /\ l.total = k.total /\ l.arrays = k.arrays /\ l.polled = k.polled /\ l.dropped = k.dropped
  BY <1>1, <1>2 DEF Members
<1>9. l \in Members
  <2>1. PICK B, T, R, C : B = 0 .. BurstSize /\ T = 0 .. Capacity /\ R = 0 .. NumArrs /\ C = [ArrIndex -> B]
    OBVIOUS
  <2>2. Members = [mbuf_arrs : Arrays(Mbufs \cup {Null}), pkt_info_arrs : Arrays(Infos \cup {Null}),
                   nb_mbufs : C, polled : B, total : T, arrays : R, dropped : Nat]
    BY <2>1 DEF Members, Arrays
  <2>3. QED
    BY <1>1, <1>2, <1>7, <2>2
<1>10. ASSUME NEW p \in Places
       PROVE  l.pkt_info_arrs[p[1]][p[2]] = IF InBurst(p, n) THEN NewInfo(p[2]) ELSE Inf(p)
  BY <1>1, <1>5, <1>7, <1>8, PlaceParts DEF InBurst
<1>11. QED
  BY <1>8, <1>9, <1>10 DEF k, l

\* poll_packets keeps the invariant.
LEMMA PollPacketsPreserves ==
  ASSUME IInv, poll_packets, UNCHANGED lean
  PROVE  IInv'
<1>1. /\ TypeOK /\ CountersInv /\ PlacesInv /\ BuffersInv /\ InfosInv
      /\ Idle /\ ~lean /\ c.total = 0
      /\ sending' = sending /\ wire' = wire /\ taken' = taken /\ lean' = lean
  BY DEF IInv, poll_packets
<1>2. PICK n \in 0 .. BurstSize : n <= Cardinality(Infos \ Allocated) /\
        \E burst \in Bursts(n) :
            /\ c' = Polled(Emptied(c), burst, n)
            /\ heap' = [x \in Infos |->
                 IF \E j \in 0 .. n - 1 : x = NewInfo(j)
                 THEN burst[CHOOSE j \in 0 .. n - 1 : x = NewInfo(j)] ELSE heap[x]]
            /\ pool' = pool \ {burst[j] : j \in 0 .. n - 1}
  BY <1>1 DEF poll_packets
<1>3. PICK burst \in Bursts(n) :
            /\ c' = Polled(Emptied(c), burst, n)
            /\ heap' = [x \in Infos |->
                 IF \E j \in 0 .. n - 1 : x = NewInfo(j)
                 THEN burst[CHOOSE j \in 0 .. n - 1 : x = NewInfo(j)] ELSE heap[x]]
            /\ pool' = pool \ {burst[j] : j \in 0 .. n - 1}
  BY <1>2
<1>4. \A j \in 0 .. n - 1 : j \in 0 .. Cardinality(Infos \ Allocated) - 1
  BY <1>2, NewInfoFacts, ArraysAssumption
<1>5. /\ \A j \in 0 .. n - 1 : NewInfo(j) \in Infos \ Allocated
      /\ \A i, j \in 0 .. n - 1 : NewInfo(i) = NewInfo(j) => i = j
  BY <1>4, NewInfoFacts
<1>6. /\ c' \in Members
      /\ \A p \in Places : Buf(p)' = IF InBurst(p, n) THEN burst[p[2]] ELSE Null
      /\ \A p \in Places : Inf(p)' = IF InBurst(p, n) THEN NewInfo(p[2]) ELSE Inf(p)
      /\ \A i \in ArrIndex : c'.nb_mbufs[i] = Filled(n, i)
      /\ c'.total = n /\ c'.polled = n /\ c'.dropped = 0
      /\ c'.arrays = IF n > 0 THEN 1 ELSE 0
  BY <1>1, <1>3, <1>5, PolledFacts, PolledInfoFacts DEF Buf, Inf
<1>7. ASSUME NEW j \in 0 .. n - 1
      PROVE  heap'[NewInfo(j)] = burst[j] /\ burst[j] \in Mbufs /\ burst[j] # Null
  <2>1. (CHOOSE i \in 0 .. n - 1 : NewInfo(j) = NewInfo(i)) = j
    BY <1>5
  <2>2. burst[j] \in pool
    BY DEF Bursts
  <2>3. QED
    BY <1>1, <1>3, <1>5, <2>1, <2>2 DEF TypeOK
<1>8. ASSUME NEW x \in Infos, \A j \in 0 .. n - 1 : x # NewInfo(j)
      PROVE  heap'[x] = heap[x]
  BY <1>3, <1>8
<1>9. heap' \in [Infos -> Mbufs \cup {Null}]
  <2>1. \A x \in Infos : heap'[x] \in Mbufs \cup {Null}
    BY <1>1, <1>7, <1>8 DEF TypeOK
  <2>2. PICK f : f = [x \in Infos |->
                 IF \E j \in 0 .. n - 1 : x = NewInfo(j)
                 THEN burst[CHOOSE j \in 0 .. n - 1 : x = NewInfo(j)] ELSE heap[x]]
    OBVIOUS
  <2>3. heap' = f /\ f = [x \in Infos |-> f[x]]
    BY <1>3, <2>2
  <2>4. QED
    BY <2>1, <2>3
<1>10. /\ taken \subseteq Infos
       /\ \A x \in taken : heap'[x] = heap[x]
  BY <1>1, <1>5, <1>8 DEF InfosInv, TypeOK
<1>11. Allocated \subseteq Allocated' /\ \A j \in 0 .. n - 1 : NewInfo(j) \in Allocated'
  BY <1>5, <1>7, <1>8 DEF Allocated
<1>12. TypeOK'
  BY <1>1, <1>3, <1>6, <1>9 DEF TypeOK
<1>13. /\ CountersInv' /\ PlacesInv' /\ BuffersInv'
       /\ \A p \in Places : p \in Listed(c)' <=> InBurst(p, n)
  BY <1>1, <1>3, <1>6, <1>10, PollPreserves
<1>14. ASSUME NEW p \in Places, InBurst(p, n)
       PROVE  p[2] \in 0 .. n - 1 /\ p[1] = 0 /\ p = <<p[1], p[2]>>
  BY <1>14, PlaceParts, ArraysAssumption DEF InBurst
<1>15. InfosInv'
  <2>1. taken' \subseteq Allocated'
    BY <1>1, <1>11 DEF InfosInv
  <2>2. ASSUME NEW p \in Places, Inf(p)' # Null PROVE Inf(p)' \in Allocated' \ taken'
    <3>1. CASE InBurst(p, n)
      BY <1>1, <1>5, <1>6, <1>11, <1>14, <3>1 DEF InfosInv
    <3>2. CASE ~InBurst(p, n)
      BY <1>1, <1>6, <1>11, <2>2, <3>2 DEF InfosInv
    <3>3. QED
      BY <3>1, <3>2
  <2>3. ASSUME NEW p \in Places, NEW q \in Places, Inf(p)' = Inf(q)', Inf(p)' # Null PROVE p = q
    <3>1. CASE InBurst(p, n) /\ InBurst(q, n)
      <4>1. p[2] = q[2]
        BY <1>5, <1>6, <1>14, <2>3, <3>1
      <4>2. QED
        BY <1>14, <3>1, <4>1
    <3>2. CASE ~InBurst(p, n) /\ ~InBurst(q, n)
      BY <1>1, <1>6, <2>3, <3>2 DEF InfosInv
    <3>3. CASE InBurst(p, n) /\ ~InBurst(q, n)
      BY <1>1, <1>5, <1>6, <1>14, <2>3, <3>3 DEF InfosInv
    <3>4. CASE ~InBurst(p, n) /\ InBurst(q, n)
      BY <1>1, <1>5, <1>6, <1>14, <2>3, <3>4 DEF InfosInv
    <3>5. QED
      BY <3>1, <3>2, <3>3, <3>4
  <2>4. QED
    BY <1>1, <2>1, <2>2, <2>3 DEF InfosInv
<1>16. InfosAligned'
  <2>1. ASSUME NEW p \in Places, p \in Listed(c)' PROVE AlignedAt(p[1], p[2])'
    <3>1. InBurst(p, n)
      BY <1>13, <2>1
    <3>2. Inf(p)' = NewInfo(p[2]) /\ Buf(p)' = burst[p[2]] /\ heap'[NewInfo(p[2])] = burst[p[2]]
          /\ NewInfo(p[2]) # Null
      BY <1>5, <1>6, <1>7, <1>14, <3>1, InfosAssumption
    <3>3. QED
      BY <3>2 DEF AlignedAt, Inf, Buf
  <2>2. QED
    BY <2>1 DEF InfosAligned, Listed, Places
<1>17. QED
  BY <1>12, <1>13, <1>15, <1>16 DEF IInv

------------------------------------------------------------------------------
(* The invariant.                                                          *)

\* A new container satisfies the invariant.
LEMMA InitEstablishes == Init => IInv
<1> SUFFICES ASSUME Init PROVE IInv
  OBVIOUS
<1>1. /\ c.mbuf_arrs = NoPointers /\ c.pkt_info_arrs = NoPointers
      /\ c.polled = 0 /\ c.total = 0 /\ c.arrays = 1 /\ c.dropped = 0
      /\ \A i \in ArrIndex : c.nb_mbufs[i] = 0
  BY DEF Init
<1>2. Idle /\ taken = {} /\ wire = {} /\ pool = Mbufs /\ \A x \in Infos : heap[x] = Null
  BY DEF Init
<1>3. \A p \in Places : Buf(p) = Null /\ Inf(p) = Null
  BY <1>1, PlaceParts DEF Buf, Inf, NoPointers
<1>4. TypeOK
  <2>1. NumArrs \in Nat /\ NumArrs > 0 /\ BurstSize \in Nat /\ Capacity \in Nat
    BY ArraysAssumption, CapacityAssumption
  <2>2. /\ NoPointers \in [ArrIndex -> [PosIndex -> Mbufs \cup {Null}]]
        /\ NoPointers \in [ArrIndex -> [PosIndex -> Infos \cup {Null}]]
    BY DEF NoPointers
  <2>3. /\ 0 \in 0 .. BurstSize /\ 0 \in 0 .. Capacity /\ 1 \in 0 .. NumArrs
        /\ [i \in ArrIndex |-> 0] \in [ArrIndex -> 0 .. BurstSize]
    BY <2>1
  <2>4. c \in Members
    BY <2>2, <2>3 DEF Init, Members
  <2>5. QED
    BY <2>1, <2>4 DEF Init, TypeOK
<1>5. CountersInv
  <2>1. BurstSize \in Nat /\ 1 * BurstSize = BurstSize
    BY ArraysAssumption
  <2>2. QED
    BY <1>1, <1>2, <2>1, NothingFilled DEF CountersInv
<1>6. PlacesInv
  <2>1. \A p \in Places : ~(p[2] < c.nb_mbufs[p[1]])
    BY <1>1, PlaceParts, ArraysAssumption
  <2>2. QED
    BY <1>2, <1>3, <2>1 DEF PlacesInv
<1>7. BuffersInv
  BY <1>2, <1>3 DEF BuffersInv, Active
<1>8. InfosInv
  BY <1>2, <1>3 DEF InfosInv
<1>9. InfosAligned
  <2>1. Listed(c) = {}
    BY <1>1 DEF Listed
  <2>2. QED
    BY <2>1 DEF InfosAligned
<1>10. QED
  BY <1>4, <1>5, <1>6, <1>7, <1>8, <1>9 DEF IInv

\* Every operation of the container and its environment keeps the invariant.
LEMMA NextPreserves == IInv /\ [Next]_vars => IInv'
<1> SUFFICES ASSUME IInv, [Next]_vars PROVE IInv'
  OBVIOUS
<1>1. CASE poll_packets /\ UNCHANGED lean
  BY <1>1, PollPacketsPreserves
<1>2. CASE get_empty_packet /\ UNCHANGED lean
  BY <1>2, GetEmptyPreserves
<1>3. CASE add_packet /\ UNCHANGED lean
  BY <1>3, AddPacketPreserves
<1>4. CASE drop_packet /\ UNCHANGED lean
  BY <1>4, DropPacketPreserves
<1>5. CASE take_packet /\ UNCHANGED lean
  BY <1>5, TakePacketPreserves
<1>6. CASE poll_mbufs /\ UNCHANGED lean
  BY <1>6, PollMbufsPreserves
<1>7. CASE add_mbuf /\ UNCHANGED lean
  BY <1>7, AddMbufPreserves
<1>8. CASE drop_polled_mbuf /\ UNCHANGED lean
  BY <1>8, DropPolledMbufPreserves
<1>9. CASE send_nothing /\ UNCHANGED lean
  BY <1>9, SendNothingPreserves
<1>10. CASE send_packets /\ UNCHANGED lean
  BY <1>10, SendPacketsPreserves
<1>11. CASE tx_burst /\ UNCHANGED lean
  BY <1>11, TxBurstPreserves
<1>12. CASE all_sent /\ UNCHANGED lean
  BY <1>12, AllSentPreserves
<1>13. CASE driver_frees /\ UNCHANGED lean
  BY <1>13, DriverFreesPreserves
<1>14. CASE UNCHANGED vars
  BY <1>14 DEF vars, IInv, TypeOK, CountersInv, PlacesInv, BuffersInv, InfosInv, InfosAligned,
               Active, Buf, Inf, Allocated, Listed, AlignedAt
<1>15. QED
  BY <1>1, <1>2, <1>3, <1>4, <1>5, <1>6, <1>7, <1>8, <1>9, <1>10, <1>11, <1>12, <1>13, <1>14 DEF Next

\* In every reachable state of the container, counters, arrays, buffers and
\* PacketInfo objects are related as its operations rely on.
THEOREM InvariantHolds == Spec => []IInv
BY InitEstablishes, NextPreserves, PTL DEF Spec

\* The members of the container and its environment keep their types: no
\* operation leaves the arrays or lets a counter of the class exceed them.
THEOREM TypesHold == Spec => []TypeOK
<1>1. IInv => TypeOK
  BY DEF IInv
<1>2. QED
  BY <1>1, InvariantHolds, PTL

\* A buffer that has an owner in the sense of BuffersInv has one only.
LEMMA OneOwner == IInv => BufferConservation
<1> SUFFICES ASSUME IInv, NEW m \in Mbufs PROVE Cardinality(Owners(m)) = 1
  BY DEF BufferConservation
<1>1. /\ BuffersInv /\ Mbufs \cap {Null} = {}
      /\ Active = {q \in ArrIndex \X PosIndex : q[1] >= sending}
  BY DEF IInv, Active, Places
<1> DEFINE inPool == {<<"pool">> : n \in {m} \cap pool}
           onWire == {<<"driver">> : n \in {m} \cap wire}
           withTreatment == {<<"taken", x>> : x \in {y \in taken : heap[y] = m}}
           inArrays == {<<"array", p>> : p \in {q \in Active : Buf(q) = m}}
<1>2. Owners(m) = inPool \cup onWire \cup withTreatment \cup inArrays
  BY <1>1 DEF Owners, Buf
<1>3. \E o : Owners(m) = {o}
  <2>1. CASE m \in pool
    <3>1. onWire = {} /\ withTreatment = {} /\ inArrays = {} /\ inPool = {<<"pool">>}
      BY <1>1, <2>1 DEF BuffersInv
    <3>2. QED
      BY <1>2, <3>1
  <2>2. CASE m \in wire
    <3>1. inPool = {} /\ withTreatment = {} /\ inArrays = {} /\ onWire = {<<"driver">>}
      BY <1>1, <2>2 DEF BuffersInv
    <3>2. QED
      BY <1>2, <3>1
  <2>3. CASE m \notin pool \cup wire /\ \E p \in Active : Buf(p) = m
    <3>1. PICK p \in Active : Buf(p) = m
      BY <2>3
    <3>2. {q \in Active : Buf(q) = m} = {p}
      BY <1>1, <3>1 DEF BuffersInv
    <3>3. {y \in taken : heap[y] = m} = {}
      BY <1>1, <3>1 DEF BuffersInv
    <3>4. inPool = {} /\ onWire = {} /\ withTreatment = {} /\ inArrays = {<<"array", p>>}
      BY <2>3, <3>2, <3>3
    <3>5. QED
      BY <1>2, <3>4
  <2>4. CASE m \notin pool \cup wire /\ ~(\E p \in Active : Buf(p) = m)
    <3>1. PICK x \in taken : heap[x] = m
      BY <1>1, <2>4 DEF BuffersInv
    <3>2. {y \in taken : heap[y] = m} = {x}
      BY <1>1, <3>1 DEF BuffersInv
    <3>3. {q \in Active : Buf(q) = m} = {}
      BY <2>4
    <3>4. inPool = {} /\ onWire = {} /\ inArrays = {} /\ withTreatment = {<<"taken", x>>}
      BY <2>4, <3>2, <3>3
    <3>5. QED
      BY <1>2, <3>4
  <2>5. QED
    BY <2>1, <2>2, <2>3, <2>4
<1>4. QED
  BY <1>3, FS_Singleton

\* No sequence of polls, additions, removals, reorderings and transmissions
\* loses a buffer of the pool or gives it two owners, in either class.
THEOREM BufferConservationHolds == Spec => []BufferConservation
BY InvariantHolds, OneOwner, PTL

\* The card never gets a null pointer from an array in transmission.
THEOREM NoNullTransmittedHolds == Spec => []NoNullTransmitted
<1>1. IInv => NoNullTransmitted
  BY ListedIs DEF IInv, PlacesInv, NoNullTransmitted, Active, Buf, Listed, Places
<1>2. QED
  BY <1>1, InvariantHolds, PTL

\* No pointer to a destroyed PacketInfo is left anywhere.
THEOREM NoDanglingInfoHolds == Spec => []NoDanglingInfo
<1>1. ASSUME IInv PROVE NoDanglingInfo
  <2>1. ASSUME NEW i \in ArrIndex, NEW j \in PosIndex
        PROVE  c.pkt_info_arrs[i][j] \in (Allocated \ taken) \cup {Null}
    <3>1. PICK p : p = <<i, j>>
      OBVIOUS
    <3>2. p \in Places /\ Inf(p) = c.pkt_info_arrs[i][j]
      BY <3>1 DEF Places, Inf
    <3>3. QED
      BY <1>1, <3>2 DEF IInv, InfosInv
  <2>2. QED
    BY <1>1, <2>1 DEF IInv, InfosInv, NoDanglingInfo
<1>2. QED
  BY <1>1, InvariantHolds, PTL

\* While the treatment works with the container, the PacketInfo at an index
\* describes the buffer at that index.
THEOREM InfosAlignedHolds == Spec => []InfosAligned
<1>1. IInv => InfosAligned
  BY DEF IInv
<1>2. QED
  BY <1>1, InvariantHolds, PTL

------------------------------------------------------------------------------
(* PacketContainer implements ContainerPromise: every operation on arrays, *)
(* counters and PacketInfo objects is an operation on the slots, or none.  *)

\* Each index has a place of its own.
LEMMA PlaceOfFacts ==
  /\ \A j \in SlotIndex : PlaceOf(j) \in Places
  /\ \A i, j \in SlotIndex : PlaceOf(i) = PlaceOf(j) => i = j
<1>1. ASSUME NEW j \in SlotIndex PROVE PlaceOf(j) \in Places /\ j = Arr(j) * BurstSize + Pos(j)
  BY PlaceOfIndex DEF PlaceOf, Places
<1>2. ASSUME NEW i \in SlotIndex, NEW j \in SlotIndex, PlaceOf(i) = PlaceOf(j) PROVE i = j
  <2>1. Arr(i) = Arr(j) /\ Pos(i) = Pos(j)
    BY <1>2 DEF PlaceOf
  <2>2. QED
    BY <1>1, <2>1
<1>3. QED
  BY <1>1, <1>2

\* The first t indices are the places below the counts of t packets.
LEMMA FilledIndex ==
  ASSUME NEW t \in Nat, NEW index \in SlotIndex
  PROVE  Pos(index) < Filled(t, Arr(index)) <=> index < t
<1> DEFINE a == Arr(index)
           b == a * BurstSize
<1>1. /\ index = a * BurstSize + Pos(index) /\ a \in ArrIndex
      /\ Pos(index) \in 0 .. BurstSize - 1 /\ BurstSize \in Nat
  BY PlaceOfIndex, ArraysAssumption
<1> HIDE DEF a
<1>2. b \in Int /\ (a + 1) * BurstSize = b + BurstSize
  BY <1>1
<1>3. Filled(t, a) = IF t <= b THEN 0 ELSE IF t >= b + BurstSize THEN BurstSize ELSE t - b
  BY <1>2 DEF Filled
<1>4. index = b + Pos(index)
  BY <1>1
<1> HIDE DEF b
<1>5. Pos(index) < Filled(t, a) <=> index < t
  BY <1>1, <1>2, <1>3, <1>4
<1>6. QED
  BY <1>5 DEF a

\* What the treatment sees of an idle container, before and after a step.
LEMMA SlotsAre ==
  /\ Idle => /\ Slots = [slots |-> [j \in SlotIndex |-> Buf(PlaceOf(j))],
                         polled |-> c.polled, total |-> c.total]
             /\ \A j \in SlotIndex : Slots.slots[j] = Buf(PlaceOf(j))
  /\ Idle' => /\ Slots' = [slots |-> [j \in SlotIndex |-> Buf(PlaceOf(j))'],
                           polled |-> c'.polled, total |-> c'.total]
              /\ \A j \in SlotIndex : Slots'.slots[j] = Buf(PlaceOf(j))'
BY DEF Slots, Buf, PlaceOf

\* An idle container without packets is seen as empty.
LEMMA SeenEmpty == IInv /\ Idle /\ c.total = 0 => Slots = Promise!EmptyContainer
<1> SUFFICES ASSUME IInv, Idle, c.total = 0 PROVE Slots = Promise!EmptyContainer
  OBVIOUS
<1>1. \A j \in SlotIndex : Buf(PlaceOf(j)) = Null
  BY TotalZero, PlaceOfFacts DEF IInv
<1>2. c.polled = 0
  BY ArraysAssumption DEF IInv, TypeOK, Members, CountersInv
<1>3. Promise!EmptyContainer = [slots |-> [j \in SlotIndex |-> Null], polled |-> 0, total |-> 0]
  BY DEF Promise!EmptyContainer, Promise!SlotIndex, SlotIndex
<1>4. Slots = [slots |-> [j \in SlotIndex |-> Buf(PlaceOf(j))], polled |-> c.polled, total |-> c.total]
  BY SlotsAre
<1>5. [j \in SlotIndex |-> Buf(PlaceOf(j))] = [j \in SlotIndex |-> Null]
  BY <1>1
<1>6. QED
  BY <1>2, <1>3, <1>4, <1>5

\* While it is sent, too.
LEMMA SeenSending ==
  /\ ~Idle => Slots = Promise!EmptyContainer
  /\ ~Idle' => Slots' = Promise!EmptyContainer
BY DEF Slots, Promise!EmptyContainer, Promise!SlotIndex, SlotIndex, EmptyContainer

\* A packet behind the last one.
LEMMA AddStep ==
  ASSUME IInv, Idle, Idle', c.total < Capacity, NEW m \in Mbufs,
         \A p \in Places : Buf(p) # m,
         \A p \in Places : Buf(p)' = IF p = NextPlace THEN m ELSE Buf(p),
         c'.total = c.total + 1, c'.polled = c.polled
  PROVE  Promise!Add
<1>1. c.total \in SlotIndex /\ NextPlace = PlaceOf(c.total)
  BY CapacityAssumption DEF IInv, TypeOK, Members, SlotIndex, NextPlace, PlaceOf
<1>2. \A j \in SlotIndex : Buf(PlaceOf(j))' = IF j = c.total THEN m ELSE Buf(PlaceOf(j))
  BY <1>1, PlaceOfFacts
<1>3. m \notin Promise!Buffers(Slots)
  BY SlotsAre, PlaceOfFacts DEF Promise!Buffers, Promise!SlotIndex, SlotIndex
<1>4. Slots' = Promise!Added(Slots, m)
  <2>1. PICK s, t : /\ s = [j \in SlotIndex |-> Buf(PlaceOf(j))]
                    /\ t = [j \in SlotIndex |-> Buf(PlaceOf(j))']
    OBVIOUS
  <2>2. t = [s EXCEPT ![c.total] = m]
    BY <1>1, <1>2, <2>1
  <2>3. /\ Slots = [slots |-> s, polled |-> c.polled, total |-> c.total]
        /\ Slots' = [slots |-> t, polled |-> c.polled, total |-> c.total + 1]
    BY <2>1, SlotsAre
  <2>4. PICK k : k = Slots
    OBVIOUS
  <2>5. k.slots = s /\ k.total = c.total /\ k.polled = c.polled
    BY <2>3, <2>4
  <2>6. Promise!Added(k, m) = [k EXCEPT !.slots = [s EXCEPT ![c.total] = m], !.total = c.total + 1]
    BY <2>5 DEF Promise!Added
  <2>7. Promise!Added(k, m) = [slots |-> t, polled |-> c.polled, total |-> c.total + 1]
    BY <2>2, <2>3, <2>4, <2>6
  <2>8. QED
    BY <2>3, <2>4, <2>7
<1>5. Slots.total < Capacity
  BY SlotsAre
<1>6. QED
  BY <1>3, <1>4, <1>5 DEF Promise!Add

\* A slot is vacated.
LEMMA VacateStep ==
  ASSUME Idle, Idle', NEW index \in SlotIndex, Buf(PlaceOf(index)) # Null,
         \A p \in Places : Buf(p)' = IF p = PlaceOf(index) THEN Null ELSE Buf(p),
         c'.total = c.total, c'.polled = c.polled
  PROVE  Promise!Vacate
<1>1. \A j \in SlotIndex : Buf(PlaceOf(j))' = IF j = index THEN Null ELSE Buf(PlaceOf(j))
  BY PlaceOfFacts
<1>2. Slots' = Promise!Vacated(Slots, index)
  <2>1. PICK s, t : /\ s = [j \in SlotIndex |-> Buf(PlaceOf(j))]
                    /\ t = [j \in SlotIndex |-> Buf(PlaceOf(j))']
    OBVIOUS
  <2>2. t = [s EXCEPT ![index] = Null]
    BY <1>1, <2>1
  <2>3. /\ Slots = [slots |-> s, polled |-> c.polled, total |-> c.total]
        /\ Slots' = [slots |-> t, polled |-> c.polled, total |-> c.total]
    BY <2>1, SlotsAre
  <2>4. QED
    BY <2>2, <2>3 DEF Promise!Vacated
<1>3. Slots.slots[index] # Null
  BY SlotsAre
<1>4. index \in Promise!SlotIndex
  BY DEF SlotIndex, Promise!SlotIndex
<1>5. QED
  BY <1>2, <1>3, <1>4 DEF Promise!Vacate

\* A burst fills the empty container.
LEMMA PollStep ==
  ASSUME IInv, Idle, c.total = 0, IInv', Idle',
         c'.polled = c'.total, c'.total <= BurstSize, c'.dropped = 0
  PROVE  Promise!Poll
<1>1. /\ TypeOK' /\ CountersInv' /\ PlacesInv' /\ BuffersInv' /\ c' \in Members
      /\ c'.total \in Nat /\ sending' = NotSending /\ Active' = Places
  BY CapacityAssumption, PlaceParts DEF IInv, TypeOK, Members, Active
<1>2. ASSUME NEW j \in SlotIndex
      PROVE  /\ Buf(PlaceOf(j))' \in Mbufs \cup {Null}
             /\ Buf(PlaceOf(j))' # Null <=> j < c'.total
  <2>1. PICK p : p = PlaceOf(j)
    OBVIOUS
  <2>2. p \in Places /\ p[1] = Arr(j) /\ p[2] = Pos(j)
    BY <2>1, PlaceOfFacts DEF PlaceOf
  <2>3. Buf(p)' \in Mbufs \cup {Null}
    BY <1>1, <2>2, MembersTypes DEF Buf
  <2>4. Buf(p)' # Null <=> p[2] < c'.nb_mbufs[p[1]]
    BY <1>1, <2>2 DEF PlacesInv
  <2>5. c'.nb_mbufs[p[1]] = Filled(c'.total, Arr(j))
    BY <1>1, <2>2, PlaceParts DEF CountersInv
  <2>6. QED
    BY <1>1, <2>1, <2>2, <2>3, <2>4, <2>5, FilledIndex
<1>3. ASSUME NEW i \in SlotIndex, NEW j \in SlotIndex,
             Buf(PlaceOf(i))' # Null, Buf(PlaceOf(i))' = Buf(PlaceOf(j))'
      PROVE  i = j
  BY <1>1, <1>3, PlaceOfFacts DEF BuffersInv
<1>4. PICK s : s = [j \in SlotIndex |-> Buf(PlaceOf(j))']
  OBVIOUS
<1>5. s \in [SlotIndex -> Mbufs \cup {Null}]
  BY <1>2, <1>4
<1>6. Slots' = [slots |-> s, polled |-> c'.total, total |-> c'.total]
  BY <1>4, SlotsAre
<1>7. Slots' \in Promise!Container
  BY <1>1, <1>5, <1>6 DEF Promise!Container, Promise!SlotIndex, SlotIndex
<1>8. Promise!Distinct(Slots')
  BY <1>3, <1>4, <1>6 DEF Promise!Distinct, Promise!SlotIndex, SlotIndex
<1>9. \A j \in Promise!SlotIndex : Slots'.slots[j] # Null <=> j < Slots'.total
  BY <1>2, <1>4, <1>6 DEF Promise!SlotIndex, SlotIndex
<1>10. Promise!Burst(Slots')
  BY <1>6, <1>7, <1>8, <1>9 DEF Promise!Burst
<1>11. QED
  BY <1>10, SeenEmpty DEF Promise!Poll

\* The polls of both classes.
LEMMA PollsImplement ==
  ASSUME IInv, IInv', poll_packets \/ poll_mbufs
  PROVE  Promise!Poll
<1>1. Idle /\ c.total = 0 /\ Idle' /\ TypeOK /\ CountersInv /\ PlacesInv
  BY DEF IInv, poll_packets, poll_mbufs
<1>2. PICK n \in 0 .. BurstSize : \E burst \in Bursts(n) :
        \/ c' = PolledBuffers(Emptied(c), burst, n)
        \/ c' = Polled(Emptied(c), burst, n) /\ n <= Cardinality(Infos \ Allocated)
  BY DEF poll_packets, poll_mbufs
<1>3. PICK burst \in Bursts(n) :
        \/ c' = PolledBuffers(Emptied(c), burst, n)
        \/ c' = Polled(Emptied(c), burst, n) /\ n <= Cardinality(Infos \ Allocated)
  BY <1>2
<1>4. ASSUME n <= Cardinality(Infos \ Allocated), NEW j \in 0 .. n - 1
      PROVE  NewInfo(j) \in Infos
  <2>1. j \in 0 .. Cardinality(Infos \ Allocated) - 1
    BY <1>4, NewInfoFacts, ArraysAssumption
  <2>2. QED
    BY <2>1, NewInfoFacts
<1>5. c'.polled = n /\ c'.total = n /\ c'.dropped = 0
  <2>1. CASE c' = PolledBuffers(Emptied(c), burst, n)
    BY <1>1, <2>1, PolledFacts
  <2>2. CASE c' = Polled(Emptied(c), burst, n) /\ n <= Cardinality(Infos \ Allocated)
    BY <1>1, <1>4, <2>2, PolledFacts, PolledInfoFacts
  <2>3. QED
    BY <1>3, <2>1, <2>2
<1>6. n <= BurstSize
  BY ArraysAssumption
<1>7. QED
  BY <1>1, <1>5, <1>6, PollStep

\* A buffer from the pool or from the treatment is added.
LEMMA AddsImplement ==
  ASSUME IInv, get_empty_packet \/ add_packet \/ add_mbuf
  PROVE  Promise!Add
<1>1. /\ TypeOK /\ CountersInv /\ PlacesInv /\ BuffersInv /\ InfosInv /\ Active = Places
      /\ Idle /\ Idle' /\ c.total < Capacity
  BY IdleActive DEF IInv, get_empty_packet, add_packet, add_mbuf
<1>2. PICK m \in Mbufs :
        /\ \A p \in Places : Buf(p) # m
        /\ c' = AppendedBuffer(c, m) \/ \E x \in Infos : c' = Appended(c, m, x)
  <2>1. CASE add_packet
    <3>1. PICK x \in taken : c' = Appended(c, heap[x], x)
      BY <2>1 DEF add_packet
    <3>2. x \in Infos /\ heap[x] \in Mbufs /\ \A p \in Places : Buf(p) # heap[x]
      BY <1>1 DEF TypeOK, BuffersInv
    <3>3. QED
      BY <3>1, <3>2
  <2>2. CASE add_mbuf
    <3>1. PICK m \in pool : c' = AppendedBuffer(c, m)
      BY <2>2 DEF add_mbuf
    <3>2. m \in Mbufs /\ \A p \in Places : Buf(p) # m
      BY <1>1 DEF TypeOK, BuffersInv
    <3>3. QED
      BY <3>1, <3>2
  <2>3. CASE get_empty_packet
    <3>1. PICK m \in pool : c' = Appended(c, m, NewInfo(0))
      BY <2>3 DEF get_empty_packet
    <3>2. m \in Mbufs /\ \A p \in Places : Buf(p) # m
      BY <1>1 DEF TypeOK, BuffersInv
    <3>3. NewInfo(0) \in Infos
      <4>1. Cardinality(Infos \ Allocated) # 0
        BY <2>3, NewInfoFacts, FS_EmptySet DEF get_empty_packet
      <4>2. 0 \in 0 .. Cardinality(Infos \ Allocated) - 1
        BY <4>1, NewInfoFacts
      <4>3. QED
        BY <4>2, NewInfoFacts
    <3>4. QED
      BY <3>1, <3>2, <3>3
  <2>4. QED
    BY <2>1, <2>2, <2>3
<1>3. /\ c'.mbuf_arrs = AppendedBuffer(c, m).mbuf_arrs
      /\ c'.total = AppendedBuffer(c, m).total
      /\ c'.polled = AppendedBuffer(c, m).polled
  BY <1>1, <1>2, AppendedInfoFacts
<1>4. /\ \A p \in Places : Buf(p)' = IF p = NextPlace THEN m ELSE Buf(p)
      /\ c'.total = c.total + 1 /\ c'.polled = c.polled
  BY <1>1, <1>3, AppendedFacts DEF Buf
<1>5. QED
  BY <1>1, <1>2, <1>4, AddStep

\* The buffer at an index is dropped or taken.
LEMMA RemovalsImplement ==
  ASSUME IInv, drop_packet \/ take_packet \/ drop_polled_mbuf
  PROVE  Promise!Vacate
<1>1. TypeOK /\ sending' = sending
  BY DEF IInv, drop_packet, take_packet, drop_polled_mbuf
<1>2. PICK index \in SlotIndex :
        Removable(index) /\ (c' = Removed(c, index, 1) \/ c' = Removed(c, index, 2))
  BY DEF drop_packet, take_packet, drop_polled_mbuf
<1>3. PICK q : q = PlaceOf(index)
  OBVIOUS
<1>4. Idle /\ Idle' /\ Buf(q) # Null
  BY <1>1, <1>2, <1>3, RemovableFacts
<1>5. /\ \A p \in Places : Buf(p)' = IF p = q THEN Null ELSE Buf(p)
      /\ c'.total = c.total /\ c'.polled = c.polled
  BY <1>1, <1>2, <1>3, RemovedFacts
<1>6. QED
  BY <1>3, <1>4, <1>5, VacateStep

\* Sending ends with an empty container.
LEMMA SendsImplement ==
  ASSUME IInv, IInv', send_nothing \/ send_packets \/ tx_burst \/ all_sent
  PROVE  Promise!Send
<1>1. CASE ~Idle'
  BY <1>1, SeenSending DEF Promise!Send
<1>2. CASE Idle'
  <2>1. send_nothing \/ all_sent
    BY <1>2 DEF send_packets, tx_burst, IInv, TypeOK
  <2>2. c'.total = 0 /\ c'.polled = 0 /\ \A p \in Places : Buf(p)' = Null
    BY <2>1, EmptiedFacts DEF IInv, send_nothing, all_sent, Buf
  <2>3. \A j \in SlotIndex : Buf(PlaceOf(j))' = Null
    BY <2>2, PlaceOfFacts
  <2>4. Slots' = [slots |-> [j \in SlotIndex |-> Null], polled |-> 0, total |-> 0]
    BY <1>2, <2>2, <2>3, SlotsAre
  <2>5. QED
    BY <2>4 DEF Promise!Send, Promise!EmptyContainer, Promise!SlotIndex, SlotIndex
<1>3. QED
  BY <1>1, <1>2

(***************************************************************************)
(* The container keeps its promise to the treatment, in either class, for  *)
(* any number of arrays and any length of them: polls fill the slots from  *)
(* the front, packets are added behind the last one, removals move no      *)
(* other packet, and after sending nothing is left.                        *)
(***************************************************************************)
THEOREM PromiseImplemented == Spec => ImplementsPromise
<1>1. Init => Promise!Init
  <2> SUFFICES ASSUME Init PROVE Promise!Init
    OBVIOUS
  <2>1. IInv /\ Idle /\ c.total = 0
    BY InitEstablishes DEF Init
  <2>2. QED
    BY <2>1, SeenEmpty DEF Promise!Init
<1>2. IInv /\ IInv' /\ [Next]_vars => [Promise!Next]_Slots
  <2> SUFFICES ASSUME IInv, IInv', [Next]_vars PROVE Promise!Next \/ Slots' = Slots
    OBVIOUS
  <2>1. CASE poll_packets \/ poll_mbufs
    BY <2>1, PollsImplement DEF Promise!Next
  <2>2. CASE get_empty_packet \/ add_packet \/ add_mbuf
    BY <2>2, AddsImplement DEF Promise!Next
  <2>3. CASE drop_packet \/ take_packet \/ drop_polled_mbuf
    BY <2>3, RemovalsImplement DEF Promise!Next
  <2>4. CASE send_nothing \/ send_packets \/ tx_burst \/ all_sent
    BY <2>4, SendsImplement DEF Promise!Next
  <2>5. CASE driver_frees \/ UNCHANGED vars
    BY <2>5 DEF driver_frees, vars, Slots
  <2>6. QED
    BY <2>1, <2>2, <2>3, <2>4, <2>5 DEF Next
<1>3. QED
  BY <1>1, <1>2, InvariantHolds, PTL DEF Spec, ImplementsPromise, Promise!Spec

==============================================================================
