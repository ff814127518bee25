-------------------------- MODULE InspectionProofs --------------------------
(***************************************************************************)
(* Proofs about Inspection for every size of a burst, all thresholds,      *)
(* weights and windows, every duration, frequency of the clock and width   *)
(* of the product of the two.                                              *)
(*                                                                         *)
(* The inductive invariant is IInv of Inspection.  Its part BurstInv says  *)
(* that each counter is the number of packets of its protocol before the   *)
(* loop index, so that the comparison with the limit is one of positions   *)
(* in the burst, and that as many attacks have been counted as dropped.    *)
(***************************************************************************)
EXTENDS Inspection, FiniteSetTheorems, TLAPS

LEMMA Names ==
  /\ "UDP" \in Protocols /\ "TCP" \in Protocols /\ "ICMP" \in Protocols
  /\ "other" \notin Protocols
  /\ \A q \in Protocols : FloodOf(q) \in Attacks
BY DEF Protocols, Attacks, FloodOf

------------------------------------------------------------------------------
(* The burst.                                                              *)

\* The slots that were polled, and those of one protocol among the first k.
LEMMA BurstFinite ==
  ASSUME IInv
  PROVE  /\ Cardinality(Polled) \in Nat /\ Cardinality(Polled) <= BurstSize
         /\ IsFiniteSet(Polled) /\ Polled = 1 .. Cardinality(Polled)
         /\ index \in Nat /\ index >= 1 /\ index - 1 <= BurstSize
<1>1. PICK n \in 0 .. BurstSize : Polled = 1 .. n
  BY DEF IInv, TypeOK
<1>2. n \in Nat /\ n <= BurstSize /\ BurstSize \in Nat
  BY InspectionAssumption
<1>3. IsFiniteSet(Polled) /\ Cardinality(Polled) = n
  BY <1>1, <1>2, FS_Interval
<1>4. index \in 1 .. n + 1
  BY <1>3 DEF IInv, TypeOK
<1>5. QED
  BY <1>1, <1>2, <1>3, <1>4

LEMMA OfFinite ==
  ASSUME NEW q, NEW k \in Nat
  PROVE  IsFiniteSet(Of(q, k)) /\ Cardinality(Of(q, k)) \in Nat /\ Cardinality(Of(q, k)) <= k
<1>1. IsFiniteSet(1 .. k) /\ Cardinality(1 .. k) = k
  BY FS_Interval
<1>2. Of(q, k) \in SUBSET (1 .. k)
  BY DEF Of
<1>3. IsFiniteSet(Of(q, k)) /\ Cardinality(Of(q, k)) <= k
  BY <1>1, <1>2, FS_Subset
<1>4. QED
  BY <1>3, FS_CardinalityType

\* The k-th packet adds one to those of its own protocol only.
LEMMA OfNext ==
  ASSUME NEW q, NEW k \in Nat, k >= 1
  PROVE  Cardinality(Of(q, k)) =
           IF Type(polled[k]) = q THEN Cardinality(Of(q, k - 1)) + 1 ELSE Cardinality(Of(q, k - 1))
<1>1. k - 1 \in Nat /\ 1 .. k = (1 .. k - 1) \cup {k} /\ k \notin 1 .. k - 1
  OBVIOUS
<1>2. CASE Type(polled[k]) = q
  <2>1. Of(q, k) = Of(q, k - 1) \cup {k} /\ k \notin Of(q, k - 1)
    BY <1>1, <1>2 DEF Of
  <2>2. QED
    BY <1>1, <1>2, <2>1, OfFinite, FS_AddElement
<1>3. CASE Type(polled[k]) # q
  <2>1. Of(q, k) = Of(q, k - 1)
    BY <1>1, <1>3 DEF Of
  <2>2. QED
    BY <1>3, <2>1
<1>4. QED
  BY <1>2, <1>3

\* Only a packet that is there is illegitimate.
LEMMA IllegitimateIsPacket == ASSUME NEW k, Illegitimate(k) PROVE polled[k] # Null
<1>1. Type(Null) = "other"
  BY DEF Type
<1>2. \E q \in Protocols : k \in Of(q, k)
  BY Names DEF Illegitimate
<1>3. QED
  BY <1>1, <1>2, Names DEF Of

------------------------------------------------------------------------------
(* The initial states, and the start of an analysis.                       *)

Fresh ==
  /\ polled = slots /\ index = 1
  /\ packets = None(Protocols) /\ attacks = None(Attacks)
  /\ \A j \in Polled : j \in Nat \ {0}
  /\ analyzing \/ polled = << >>

\* Before the first packet of a burst nothing is counted and nothing dropped.
LEMMA BurstStarts == Fresh => BurstInv
<1> SUFFICES ASSUME Fresh PROVE BurstInv
  OBVIOUS
<1>1. ASSUME NEW q \in Protocols PROVE packets[q] = Cardinality(Of(q, index - 1))
  <2>1. index - 1 = 0 /\ Of(q, 0) = {}
    BY DEF Of, Fresh
  <2>2. packets[q] = 0
    BY DEF None, Fresh
  <2>3. QED
    BY <2>1, <2>2, FS_EmptySet
<1>2. \A j \in Polled : ~(j < index)
  BY DEF Fresh
<1>3. Attacked = 0
  BY DEF Attacked, None, Attacks, Fresh
<1>4. Dropped = {}
  BY DEF Dropped, Fresh
<1>5. QED
  BY <1>1, <1>2, <1>3, <1>4, FS_EmptySet DEF BurstInv, Fresh

LEMMA InitEstablishes == Init => IInv
<1> SUFFICES ASSUME Init PROVE IInv
  OBVIOUS
<1>1. Polled = 1 .. 0 /\ 0 \in 0 .. BurstSize /\ BurstSize \in Nat
  BY InspectionAssumption DEF Init, Polled
<1>2. BurstInv
  BY <1>1, BurstStarts DEF Init, Fresh
<1>3. Cardinality(Polled) = 0
  <2>1. Polled = {}
    BY <1>1
  <2>2. QED
    BY <2>1, FS_EmptySet
<1>4. current \in [Protocols -> 0 .. U16 - 1] /\ 0 \in 0 .. U16 - 1
  <2>1. Thresholds \subseteq 0 .. U16 - 1 /\ 0 \in 0 .. U16 - 1
    BY InspectionAssumption
  <2>2. QED
    BY <2>1 DEF Init
<1>5. TypeOK
  <2>1. /\ packetrate \in [Protocols -> Nat]
        /\ packets \in [Protocols -> 0 .. BurstSize] /\ attacks \in [Attacks -> 0 .. BurstSize]
    BY <1>1 DEF Init, None
  <2>2. index \in 1 .. Cardinality(Polled) + 1
    BY <1>3 DEF Init
  <2>3. Polled = DOMAIN slots /\ \E n \in 0 .. BurstSize : Polled = 1 .. n
    BY <1>1 DEF Init, Polled
  <2>4. \A j \in Polled : {polled[j], slots[j]} \subseteq Packet \cup {Null}
    BY <1>1
  <2>5. QED
    BY <1>4, <2>1, <2>2, <2>3, <2>4 DEF Init, TypeOK
<1>6. QED
  BY <1>2, <1>5 DEF IInv

LEMMA AnalyzePreserves == IInv /\ analyze_container => IInv'
<1> SUFFICES ASSUME IInv, analyze_container PROVE IInv'
  OBVIOUS
<1>1. PICK n \in 0 .. BurstSize : polled' \in [1 .. n -> Packet \cup {Null}]
  BY DEF analyze_container, Bursts
<1>2. /\ slots' = polled' /\ analyzing' = TRUE /\ polled = << >> /\ index = 1
      /\ UNCHANGED <<threshold, current, attack_level, packetrate, alive, index, packets, attacks>>
      /\ n \in Nat
  BY InspectionAssumption DEF analyze_container, lasting, IInv, BurstInv
<1>3. Polled' = 1 .. n /\ Cardinality(Polled') = n
  BY <1>1, <1>2, FS_Interval DEF Polled
<1>4. packets = None(Protocols) /\ attacks = None(Attacks)
  BY DEF analyze_container, IInv, BurstInv
<1>5. BurstInv'
  <2>1. Fresh'
    BY <1>2, <1>3, <1>4 DEF Fresh, None
  <2>2. (Fresh => BurstInv)'
    BY BurstStarts, PTL
  <2>3. QED
    BY <2>1, <2>2
<1>6. TypeOK'
  <2>1. \A j \in Polled' : {polled'[j], slots'[j]} \subseteq Packet \cup {Null}
    BY <1>1, <1>2, <1>3
  <2>2. Polled' = DOMAIN slots' /\ \E k \in 0 .. BurstSize : Polled' = 1 .. k
    BY <1>2, <1>3 DEF Polled
  <2>3. index' \in 1 .. Cardinality(Polled') + 1
    BY <1>2, <1>3
  <2>4. QED
    BY <1>2, <2>1, <2>2, <2>3 DEF IInv, TypeOK
<1>7. QED
  BY <1>5, <1>6 DEF IInv

------------------------------------------------------------------------------
(* One packet.                                                             *)

\* The packet at the loop index has not been touched yet.
LEMMA NextUntouched ==
  ASSUME IInv, index \in Polled
  PROVE  slots[index] = polled[index]
BY BurstFinite DEF IInv, BurstInv

\* A counter has room for the packet.
LEMMA CountBounded ==
  ASSUME IInv, NEW q \in Protocols, index \in Polled
  PROVE  packets[q] \in Nat /\ packets[q] + 1 \in 0 .. BurstSize
<1>1. index \in Nat /\ index <= BurstSize /\ index - 1 \in Nat /\ BurstSize \in Nat
  BY BurstFinite, InspectionAssumption
<1>2. packets[q] = Cardinality(Of(q, index - 1))
  BY DEF IInv, BurstInv
<1>3. QED
  BY <1>1, <1>2, OfFinite

(***************************************************************************)
(* A packet is counted, and dropped exactly if it is illegitimate.         *)
(***************************************************************************)
LEMMA PacketStep ==
  ASSUME IInv, analyzing, index \in Polled, Passed,
         packets' = [q \in Protocols |->
                       IF Type(polled[index]) = q THEN packets[q] + 1 ELSE packets[q]],
         \/ Illegitimate(index) /\ \E a \in Attacks : Drop(a)
         \/ ~Illegitimate(index) /\ Forward
  PROVE  IInv'
<1>1. /\ index' = index + 1 /\ analyzing' = analyzing
      /\ polled' = polled /\ current' = current
      /\ UNCHANGED <<threshold, attack_level, packetrate, alive>>
  BY DEF Passed, lasting
<1>2. /\ Cardinality(Polled) \in Nat /\ Cardinality(Polled) <= BurstSize
      /\ IsFiniteSet(Polled) /\ Polled = 1 .. Cardinality(Polled)
      /\ index \in Nat /\ index >= 1 /\ index <= Cardinality(Polled)
      /\ BurstSize \in Nat
  BY BurstFinite, InspectionAssumption
<1>3. slots[index] = polled[index] /\ Polled = DOMAIN slots
  BY NextUntouched DEF IInv, TypeOK
<1>4. /\ Polled' = Polled /\ \A k : Illegitimate(k)' <=> Illegitimate(k)
      /\ \A q, k : Of(q, k)' = Of(q, k)
  BY <1>1 DEF Polled, Illegitimate, Of
<1>5. ASSUME NEW q \in Protocols
      PROVE  packets'[q] = Cardinality(Of(q, index)) /\ packets'[q] \in 0 .. BurstSize
  <2>1. packets[q] = Cardinality(Of(q, index - 1)) /\ packets[q] \in 0 .. BurstSize
    BY DEF IInv, BurstInv, TypeOK
  <2>2. Cardinality(Of(q, index)) = packets'[q]
    BY <1>2, <2>1, OfNext
  <2>3. packets'[q] \in 0 .. BurstSize
    BY <2>1, CountBounded
  <2>4. QED
    BY <2>2, <2>3
<1>6. packets' \in [Protocols -> 0 .. BurstSize]
  BY <1>5
<1>7. DOMAIN slots' = Polled
  BY <1>3 DEF Drop, Forward
<1>8. ASSUME NEW j \in Polled
      PROVE  slots'[j] = IF j < index' /\ Illegitimate(j) THEN Null ELSE polled[j]
  <2>1. slots[j] = IF j < index /\ Illegitimate(j) THEN Null ELSE polled[j]
    BY DEF IInv, BurstInv
  <2>2. j \in Nat /\ index' = index + 1
    BY <1>1, <1>2
  <2>3. CASE j = index
    BY <1>2, <1>3, <2>2, <2>3 DEF Drop, Forward
  <2>4. CASE j # index
    <3>1. slots'[j] = slots[j] /\ (j < index' <=> j < index)
      BY <1>2, <1>3, <2>2, <2>4 DEF Drop, Forward
    <3>2. QED
      BY <2>1, <3>1
  <2>5. QED
    BY <2>3, <2>4
<1>9. IsFiniteSet(Dropped) /\ index \notin Dropped /\ Attacked = Cardinality(Dropped)
  <2>1. Dropped \in SUBSET Polled
    BY DEF Dropped
  <2>2. IsFiniteSet(Dropped)
    BY <1>2, <2>1, FS_Subset
  <2>3. QED
    BY <1>3, <2>2 DEF Dropped, IInv, BurstInv
<1>10. /\ attacks' \in [Attacks -> Nat] /\ Attacked' = Cardinality(Dropped')
       /\ Cardinality(Dropped') <= BurstSize
  <2>1. attacks \in [Attacks -> Nat]
    BY <1>2 DEF IInv, TypeOK
  <2>2. /\ IsFiniteSet(Dropped') /\ Cardinality(Dropped') <= BurstSize
    <3>1. Dropped' \in SUBSET Polled
      BY <1>4 DEF Dropped
    <3>2. IsFiniteSet(Dropped') /\ Cardinality(Dropped') <= Cardinality(Polled)
      BY <1>2, <3>1, FS_Subset
    <3>3. Cardinality(Dropped') \in Nat
      BY <3>2, FS_CardinalityType
    <3>4. QED
      BY <1>2, <3>2, <3>3
  <2>3. CASE Illegitimate(index) /\ \E a \in Attacks : Drop(a)
    <3>1. PICK a \in Attacks : Drop(a)
      BY <2>3
    <3>2. attacks' \in [Attacks -> Nat] /\ Attacked' = Attacked + 1
      BY <2>1, <3>1 DEF Drop, Attacked, Attacks
    <3>3. Dropped' = Dropped \cup {index}
      <4>1. slots' = [slots EXCEPT ![index] = Null] /\ polled[index] # Null
        BY <2>3, <3>1, IllegitimateIsPacket DEF Drop
      <4>2. QED
        BY <1>1, <1>3, <1>4, <4>1 DEF Dropped
    <3>4. Cardinality(Dropped') = Cardinality(Dropped) + 1
      BY <1>9, <3>3, FS_AddElement
    <3>5. QED
      BY <1>9, <2>2, <3>2, <3>4
  <2>4. CASE ~Illegitimate(index) /\ Forward
    <3>1. attacks' = attacks /\ slots' = slots
      BY <2>4 DEF Forward
    <3>2. Dropped' = Dropped /\ Attacked' = Attacked
      BY <1>1, <1>4, <3>1 DEF Dropped, Attacked
    <3>3. QED
      BY <1>9, <2>1, <2>2, <3>1, <3>2
  <2>5. QED
    BY <2>3, <2>4
<1>11. attacks' \in [Attacks -> 0 .. BurstSize]
  <2>1. ASSUME NEW a \in Attacks PROVE attacks'[a] <= Attacked'
    BY <1>10 DEF Attacked, Attacks
  <2>2. Attacked' \in Int
    BY <1>10 DEF Attacked, Attacks
  <2>3. ASSUME NEW a \in Attacks PROVE attacks'[a] \in 0 .. BurstSize
    BY <1>2, <1>10, <2>1, <2>2
  <2>4. QED
    BY <1>10, <2>3
<1>12. TypeOK'
  <2>1. \A j \in Polled' : {polled'[j], slots'[j]} \subseteq Packet \cup {Null}
    BY <1>1, <1>4, <1>8 DEF IInv, TypeOK
  <2>2. index' \in 1 .. Cardinality(Polled') + 1
    BY <1>1, <1>2, <1>4
  <2>3. Polled' = DOMAIN slots' /\ \E k \in 0 .. BurstSize : Polled' = 1 .. k
    BY <1>4, <1>7 DEF IInv, TypeOK
  <2>4. QED
    BY <1>1, <1>6, <1>11, <2>1, <2>2, <2>3 DEF IInv, TypeOK
<1>13. BurstInv'
  <2>1. ASSUME NEW q \in Protocols PROVE packets'[q] = Cardinality(Of(q, index - 1))'
    <3>1. index' - 1 = index
      BY <1>1, <1>2
    <3>2. Of(q, index - 1)' = Of(q, index)
      BY <1>1, <3>1 DEF Of
    <3>3. QED
      BY <1>5, <3>2
  <2>2. \A j \in Polled' : slots'[j] = IF j < index' /\ Illegitimate(j)' THEN Null ELSE polled'[j]
    BY <1>1, <1>4, <1>8
  <2>3. QED
    BY <1>1, <1>10, <2>1, <2>2 DEF BurstInv
<1>14. QED
  BY <1>12, <1>13 DEF IInv

\* Which packets are illegitimate, by the protocol and the counter.
LEMMA FloodIsIllegitimate ==
  ASSUME IInv, NEW q \in Protocols, index \in Polled, Type(slots[index]) = q
  PROVE  /\ polled[index] = slots[index] /\ index \in Of(q, index)
         /\ \A p \in Protocols : index \in Of(p, index) => p = q
         /\ Flood(q) <=> Cardinality(Of(q, index)) > current[q]
<1>1. polled[index] = slots[index] /\ index \in Nat /\ index >= 1
  BY NextUntouched, BurstFinite
<1>2. Cardinality(Of(q, index)) = packets[q] + 1
  BY <1>1, OfNext DEF IInv, BurstInv
<1>3. QED
  BY <1>1, <1>2 DEF Of, Flood

LEMMA IgnorePreserves == IInv /\ ignore => IInv'
<1> SUFFICES ASSUME IInv, ignore PROVE IInv'
  OBVIOUS
<1>1. /\ analyzing /\ index \in Polled /\ Type(slots[index]) = "other"
      /\ Passed /\ Forward /\ packets' = packets
  BY DEF ignore, Analyzed
<1>2. Type(polled[index]) = "other"
  BY <1>1, NextUntouched
<1>3. ~Illegitimate(index)
  BY <1>2, Names DEF Illegitimate, Of
<1>4. packets' = [q \in Protocols |->
                   IF Type(polled[index]) = q THEN packets[q] + 1 ELSE packets[q]]
  BY <1>1, <1>2, Names DEF IInv, TypeOK
<1>5. QED
  BY <1>1, <1>3, <1>4, PacketStep

\* What every step does that counts a packet of protocol q.
LEMMA CountStep ==
  ASSUME IInv, NEW q \in Protocols, Analyzed(q), Counts(q),
         \/ Illegitimate(index) /\ \E a \in Attacks : Drop(a)
         \/ ~Illegitimate(index) /\ Forward
  PROVE  IInv'
<1>1. analyzing /\ index \in Polled /\ Type(slots[index]) = q /\ Passed
  BY DEF Analyzed, Counts
<1>2. Type(polled[index]) = q
  BY <1>1, NextUntouched
<1>3. packets' = [p \in Protocols |->
                   IF Type(polled[index]) = p THEN packets[p] + 1 ELSE packets[p]]
  BY <1>2 DEF Counts, IInv, TypeOK
<1>4. QED
  BY <1>1, <1>3, PacketStep

LEMMA FloodPreserves ==
  ASSUME IInv, NEW q \in Protocols, flood(q) \/ forward(q)
  PROVE  IInv'
<1>1. index \in Polled /\ Type(slots[index]) = q /\ Analyzed(q) /\ Counts(q)
  BY DEF flood, forward, Analyzed
<1>2. CASE flood(q)
  <2>1. Flood(q) /\ Drop(FloodOf(q)) /\ FloodOf(q) \in Attacks
    BY <1>2, Names DEF flood
  <2>2. Illegitimate(index)
    BY <1>1, <2>1, FloodIsIllegitimate DEF Illegitimate
  <2>3. QED
    BY <1>1, <2>1, <2>2, CountStep
<1>3. CASE forward(q)
  <2>1. ~Flood(q) /\ Forward /\ q # "TCP"
    BY <1>3 DEF forward
  <2>2. ~Illegitimate(index)
    BY <1>1, <2>1, FloodIsIllegitimate, Names DEF Illegitimate
  <2>3. QED
    BY <1>1, <2>1, <2>2, CountStep
<1>4. QED
  BY <1>2, <1>3

LEMMA TcpPreserves == IInv /\ (small_window \/ syn_fin \/ forward_tcp) => IInv'
<1> SUFFICES ASSUME IInv, small_window \/ syn_fin \/ forward_tcp PROVE IInv'
  OBVIOUS
<1>1. /\ index \in Polled /\ Type(slots[index]) = "TCP"
      /\ Analyzed("TCP") /\ Counts("TCP") /\ ~Flood("TCP")
  BY DEF small_window, syn_fin, forward_tcp, AnalyzedTcp, Analyzed
<1>2. /\ polled[index] = slots[index] /\ index \in Of("TCP", index)
      /\ ~(\E p \in Protocols : index \in Of(p, index) /\ Cardinality(Of(p, index)) > current[p])
  BY <1>1, FloodIsIllegitimate, Names
<1>3. CASE small_window \/ syn_fin
  <2>1. \E a \in Attacks : Drop(a)
    BY <1>3 DEF small_window, syn_fin, Attacks
  <2>2. Illegitimate(index)
    BY <1>2, <1>3 DEF small_window, syn_fin, SynFin, Illegitimate
  <2>3. QED
    BY <1>1, <2>1, <2>2, CountStep, Names
<1>4. CASE forward_tcp
  <2>1. ~Illegitimate(index) /\ Forward
    BY <1>2, <1>4 DEF forward_tcp, SynFin, Illegitimate
  <2>2. QED
    BY <1>1, <2>1, CountStep, Names
<1>5. QED
  BY <1>3, <1>4

------------------------------------------------------------------------------
(* The end of an analysis.                                                 *)

\* A divisor that is not zero gives a rate, wherever the product has wrapped to.
LEMMA RateIsNumber ==
  ASSUME NEW n \in Nat, NEW duration \in Nat, Divisor(duration) # 0
  PROVE  Rate(n, duration) \in Nat
<1> DEFINE product == (IF duration > 1 THEN duration ELSE 1) * Hz
           d == Divisor(duration)
<1>1. product \in Int /\ U64 \in Nat \ {0}
  BY InspectionAssumption
<1>2. d = product % U64
  BY DEF Divisor
<1> HIDE DEF product
<1>3. d \in Nat \ {0}
  BY <1>1, <1>2
<1> HIDE DEF d
<1>4. n \div d \in Nat
  BY <1>3
<1>5. QED
  BY <1>4 DEF Rate, d

\* The limit is cut to 16 bits, whatever the division of integers gives.
LEMMA LimitIsNumber ==
  ASSUME NEW t \in 0 .. U16 - 1, NEW level \in Int, t # 0
  PROVE  Limit(t, level) \in 0 .. U16 - 1
<1>1. U16 \in Nat \ {0} /\ t \in Nat \ {0}
  BY InspectionAssumption
<1>2. 1 \div t \in Int
  BY <1>1
<1>3. (1 \div t) * level * level \in Int
  BY <1>2
<1>4. t - (1 \div t) * level * level \in Int
  BY <1>1, <1>3
<1>5. QED
  BY <1>1, <1>4 DEF Limit

LEMMA UpdatePreserves == IInv /\ update_stats => IInv'
<1> SUFFICES ASSUME IInv, update_stats PROVE IInv'
  OBVIOUS
<1>1. /\ threshold' = threshold
      /\ polled' = << >> /\ slots' = << >> /\ index' = 1
      /\ packets' = None(Protocols) /\ attacks' = None(Attacks) /\ analyzing' = FALSE
  BY DEF update_stats
<1>2. AttackLevel \in 0 .. U16 - 1
  <2>1. ASSUME NEW a \in Attacks PROVE attacks[a] \in Int /\ Weights[a] \in Int
    <3>1. attacks[a] \in 0 .. BurstSize
      BY DEF IInv, TypeOK
    <3>2. Weights[a] \in 0 .. 255
      BY InspectionAssumption
    <3>3. QED
      BY <3>1, <3>2
  <2>2. \A a \in Attacks : attacks[a] * Weights[a] \in Int
    BY <2>1
  <2>3. QED
    BY <2>2, InspectionAssumption DEF AttackLevel, Attacks
<1>3. ASSUME NEW q \in Protocols, NEW duration \in 0 .. MaxDuration, Divisor(duration) # 0
      PROVE  Rate(packets[q], duration) \in Nat
  <2>1. packets[q] \in Nat /\ duration \in Nat
    BY InspectionAssumption DEF IInv, TypeOK
  <2>2. QED
    BY <1>3, <2>1, RateIsNumber
<1>4. /\ packetrate' \in [Protocols -> Nat] /\ attack_level' \in 0 .. U16 - 1
      /\ current' \in [Protocols -> 0 .. U16 - 1] /\ alive' \in BOOLEAN
  <2>1. CASE UNCHANGED <<packetrate, attack_level, current>> /\ alive' = FALSE
    BY <2>1 DEF IInv, TypeOK
  <2>2. ASSUME NEW duration \in 0 .. MaxDuration, Divisor(duration) # 0,
               \A q \in Protocols : threshold[q] # 0,
               packetrate' = [q \in Protocols |-> Rate(packets[q], duration)],
               attack_level' = AttackLevel,
               current' = [q \in Protocols |-> Limit(threshold[q], attack_level')],
               alive' = alive
        PROVE  /\ packetrate' \in [Protocols -> Nat] /\ attack_level' \in 0 .. U16 - 1
               /\ current' \in [Protocols -> 0 .. U16 - 1] /\ alive' \in BOOLEAN
    <3>1. attack_level' \in 0 .. U16 - 1 /\ attack_level' \in Int
      BY <1>2, <2>2, InspectionAssumption
    <3>2. \A q \in Protocols : threshold[q] \in 0 .. U16 - 1
      BY InspectionAssumption DEF IInv, TypeOK
    <3>3. \A q \in Protocols : Limit(threshold[q], attack_level') \in 0 .. U16 - 1
      BY <2>2, <3>1, <3>2, LimitIsNumber
    <3>4. \A q \in Protocols : Rate(packets[q], duration) \in Nat
      BY <1>3, <2>2
    <3>5. QED
      BY <2>2, <3>1, <3>3, <3>4 DEF IInv, TypeOK
  <2>3. QED
    BY <2>1, <2>2 DEF update_stats
<1>5. BurstInv'
  <2>1. Polled' = {}
    BY <1>1 DEF Polled
  <2>2. Fresh'
    BY <1>1, <2>1 DEF Fresh, None
  <2>3. (Fresh => BurstInv)'
    BY BurstStarts, PTL
  <2>4. QED
    BY <2>2, <2>3
<1>6. TypeOK'
  <2>1. /\ Polled' = {} /\ DOMAIN slots' = {} /\ {} = 1 .. 0 /\ 0 \in 0 .. BurstSize
    BY <1>1, InspectionAssumption DEF Polled
  <2>2. Cardinality(Polled') = 0
    BY <2>1, FS_EmptySet
  <2>3. packets' \in [Protocols -> 0 .. BurstSize] /\ attacks' \in [Attacks -> 0 .. BurstSize]
    BY <1>1, <2>1 DEF None
  <2>4. \E n \in 0 .. BurstSize : Polled' = 1 .. n
    BY <2>1
  <2>5. index' \in 1 .. Cardinality(Polled') + 1
    BY <1>1, <2>2
  <2>6. \A j \in Polled' : {polled'[j], slots'[j]} \subseteq Packet \cup {Null}
    BY <2>1
  <2>7. threshold' \in [Protocols -> Thresholds] /\ analyzing' \in BOOLEAN
    BY <1>1 DEF IInv, TypeOK
  <2>8. QED
    BY <1>4, <2>1, <2>3, <2>4, <2>5, <2>6, <2>7 DEF TypeOK
<1>7. QED
  BY <1>5, <1>6 DEF IInv

------------------------------------------------------------------------------
(* The theorems.                                                           *)

LEMMA StutterPreserves == IInv /\ UNCHANGED vars => IInv'
<1> SUFFICES ASSUME IInv, UNCHANGED vars PROVE IInv'
  OBVIOUS
<1>1. /\ UNCHANGED <<threshold, current, attack_level, packetrate, alive, index, packets, attacks,
                     analyzing, polled, slots>>
      /\ Polled' = Polled /\ Dropped' = Dropped /\ Attacked' = Attacked
      /\ \A k : Illegitimate(k)' <=> Illegitimate(k)
  BY DEF vars, Polled, Dropped, Attacked, Illegitimate, Of
<1>2. TypeOK'
  BY <1>1 DEF IInv, TypeOK
<1>3. \A q \in Protocols : Of(q, index - 1)' = Of(q, index - 1)
  BY <1>1 DEF Of
<1>4. BurstInv'
  BY <1>1, <1>3 DEF IInv, BurstInv, None
<1>5. QED
  BY <1>2, <1>4 DEF IInv

LEMMA NextPreserves == IInv /\ [Next]_vars => IInv'
BY AnalyzePreserves, IgnorePreserves, FloodPreserves, TcpPreserves, UpdatePreserves,
  StutterPreserves
  DEF Next, Gone

\* The inductive invariant holds through any number of bursts.
THEOREM InvariantHolds == Spec => []IInv
BY InitEstablishes, NextPreserves, PTL DEF Spec

\* Type correctness: no counter of a burst leaves its range.
THEOREM TypesHold == Spec => []TypeOK
<1>1. IInv => TypeOK
  BY DEF IInv
<1>2. QED
  BY <1>1, InvariantHolds, PTL

(***************************************************************************)
(* In bursts of every size, under all thresholds, the packets before the   *)
(* loop index that have been dropped are exactly the illegitimate ones,    *)
(* and each has been counted once.                                         *)
(***************************************************************************)
THEOREM DropsExactlyHolds == Spec => []DropsExactly
<1>1. IInv => DropsExactly
  <2> SUFFICES ASSUME IInv, analyzing
               PROVE  Dropped = {j \in 1 .. index - 1 : Illegitimate(j)}
                      /\ Attacked = Cardinality(Dropped)
    BY DEF DropsExactly
  <2>1. /\ Polled = 1 .. Cardinality(Polled) /\ Cardinality(Polled) \in Nat
        /\ index \in Nat /\ index >= 1 /\ index <= Cardinality(Polled) + 1
    BY BurstFinite DEF IInv, TypeOK
  <2>2. ASSUME NEW j \in Polled
        PROVE  j \in Dropped <=> j \in 1 .. index - 1 /\ Illegitimate(j)
    <3>1. slots[j] = IF j < index /\ Illegitimate(j) THEN Null ELSE polled[j]
      BY DEF IInv, BurstInv
    <3>2. j \in 1 .. index - 1 <=> j < index
      BY <2>1, <2>2
    <3>3. QED
      BY <3>1, <3>2, IllegitimateIsPacket DEF Dropped
  <2>3. 1 .. index - 1 \subseteq Polled /\ Dropped \subseteq Polled
    BY <2>1 DEF Dropped
  <2>4. Dropped = {j \in 1 .. index - 1 : Illegitimate(j)}
    BY <2>2, <2>3
  <2>5. QED
    BY <2>4 DEF IInv, BurstInv
<1>2. QED
  BY <1>1, InvariantHolds, PTL

==============================================================================
