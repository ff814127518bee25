-------------------------- MODULE ProxySessionProofs --------------------------
(***************************************************************************)
(* Proofs about ProxySession: a client, a worker and a server, for every   *)
(* number of buffers, every burst size, every timestamp width and every    *)
(* number of lost and duplicated segments.                                 *)
(***************************************************************************)
EXTENDS ProxySession, ConnectionProofs, FiniteSetTheorems, WellFoundedInduction

------------------------------------------------------------------------------
(* What send_packets puts on the wire is what the container holds.         *)

\* Every non-empty set of numbers has a least one.
LEMMA Minimum ==
  ASSUME NEW T, T \subseteq Nat, T # {}
  PROVE  \E n \in T : \A m \in T : n <= m
<1>1. \E x \in T : \A y \in T : ~(<<y, x>> \in OpToRel(<, Nat))
  BY NatLessThanWellFounded, WFMin
<1>2. PICK n \in T : \A y \in T : ~(<<y, n>> \in OpToRel(<, Nat))
  BY <1>1
<1>3. ASSUME NEW m \in T PROVE n <= m
  <2>1. m \in Nat /\ n \in Nat
    OBVIOUS
  <2>2. m < n => <<m, n>> \in OpToRel(<, Nat)
    BY <2>1 DEF OpToRel
  <2>3. ~(m < n)
    BY <1>2, <2>2
  <2>4. QED
    BY <2>1, <2>3
<1>4. QED
  BY <1>3

\* A set of numbers below n can be listed in increasing order.
Increasing(f) == \A a, b \in DOMAIN f : a < b => f[a] < f[b]
Listed(S) ==
  /\ IsFiniteSet(S)
  /\ \E f \in [1 .. Cardinality(S) -> S] : Increasing(f)
AllListed(n) == \A S \in SUBSET (0 .. n - 1) : Listed(S)

\* Sets with one more number can be listed too.
LEMMA ListedNext ==
  ASSUME NEW n \in Nat, AllListed(n), NEW S \in SUBSET (0 .. n)
  PROVE  Listed(S)
<1>1. CASE n \notin S
  <2>1. S \in SUBSET (0 .. n - 1)
    BY <1>1
  <2>2. QED
    BY <2>1 DEF AllListed
<1>2. CASE n \in S
  <2> DEFINE T == S \ {n}
  <2>1. T \in SUBSET (0 .. n - 1) /\ S = T \cup {n} /\ n \notin T
    BY <1>2
  <2>2. Listed(T)
    BY <2>1 DEF AllListed
  <2> HIDE DEF T
  <2>3. /\ IsFiniteSet(S) /\ IsFiniteSet(T)
        /\ Cardinality(S) = Cardinality(T) + 1 /\ Cardinality(T) \in Nat
    BY <2>1, <2>2, FS_AddElement, FS_CardinalityType DEF Listed
  <2>4. PICK c \in Nat : c = Cardinality(T)
    BY <2>3
  <2>5. PICK f \in [1 .. c -> T] : Increasing(f)
    BY <2>2, <2>4 DEF Listed
  <2> DEFINE g == [a \in 1 .. c + 1 |-> IF a = c + 1 THEN n ELSE f[a]]
  <2>6. ASSUME NEW a \in 1 .. c PROVE f[a] \in T /\ f[a] \in Int /\ f[a] < n
    <3>1. f[a] \in T
      BY <2>5
    <3>2. f[a] \in 0 .. n - 1
      BY <2>1, <3>1
    <3>3. QED
      BY <3>1, <3>2
  <2>7. g \in [1 .. c + 1 -> S]
    BY <2>1, <2>4, <2>6
  <2>8. ASSUME NEW a \in 1 .. c + 1, NEW b \in 1 .. c + 1, a < b PROVE g[a] < g[b]
    <3>1. a \in 1 .. c /\ g[a] = f[a]
      BY <2>4, <2>8
    <3>2. CASE b = c + 1
      BY <2>6, <3>1, <3>2
    <3>3. CASE b # c + 1
      <4>1. b \in 1 .. c /\ g[b] = f[b]
        BY <2>4, <3>3
      <4>2. QED
        BY <2>5, <2>8, <3>1, <4>1 DEF Increasing
    <3>4. QED
      BY <3>2, <3>3
  <2>9. Increasing(g)
    BY <2>8 DEF Increasing
  <2>10. QED
    BY <2>3, <2>4, <2>7, <2>9 DEF Listed
<1>3. QED
  BY <1>1, <1>2

\* So can all sets of numbers below n.
LEMMA EverySetListed ==
  ASSUME NEW n \in Nat
  PROVE  AllListed(n)
<1> DEFINE Bad == {k \in Nat : ~AllListed(k)}
<1>1. SUFFICES ASSUME Bad # {} PROVE FALSE
  OBVIOUS
<1>2. PICK k \in Bad : \A j \in Bad : k <= j
  BY <1>1, Minimum
<1>3. k \in Nat /\ ~AllListed(k)
  OBVIOUS
<1>4. CASE k = 0
  <2>1. \A S \in SUBSET (0 .. 0 - 1) : S = {}
    OBVIOUS
  <2>2. Listed({})
    <3> DEFINE f == [a \in 1 .. 0 |-> 0]
    <3>1. f \in [1 .. 0 -> {}] /\ Increasing(f)
      BY DEF Increasing
    <3>2. IsFiniteSet({}) /\ Cardinality({}) = 0
      BY FS_EmptySet
    <3>3. QED
      BY <3>1, <3>2 DEF Listed
  <2>3. QED
    BY <1>3, <1>4, <2>1, <2>2 DEF AllListed
<1>5. CASE k # 0
  <2>1. k - 1 \in Nat /\ ~(k <= k - 1)
    BY <1>3, <1>5
  <2>2. AllListed(k - 1)
    BY <1>2, <2>1
  <2>3. ASSUME NEW S \in SUBSET (0 .. k - 1) PROVE Listed(S)
    BY <2>1, <2>2, ListedNext
  <2>4. QED
    BY <1>3, <2>3 DEF AllListed
<1>6. QED
  BY <1>4, <1>5

\* What is sent is a sequence of what the container holds, and nothing else.
LEMMA ContentsAreWritten ==
  ASSUME NEW k
  PROVE  Contents(k) \in Seq(Written(k, SlotIndex))
<1> DEFINE S == {j \in SlotIndex : j < k.total /\ k.slots[j] # Null}
           f == InOrder(S)
<1>1. Listed(S)
  <2>1. Capacity \in Nat /\ S \in SUBSET (0 .. Capacity - 1)
    BY CapacityFacts DEF SlotIndex
  <2>2. QED
    BY <2>1, EverySetListed DEF AllListed
<1>2. f \in [1 .. Cardinality(S) -> S] /\ Cardinality(S) \in Nat
  <2>1. Cardinality(S) \in Nat
    BY <1>1, FS_CardinalityType DEF Listed
  <2>2. \E g \in [1 .. Cardinality(S) -> S] : \A a, b \in DOMAIN g : a < b => g[a] < g[b]
    BY <1>1 DEF Listed, Increasing
  <2>3. QED
    BY <2>1, <2>2 DEF InOrder
<1>3. Contents(k) = [a \in DOMAIN f |-> buf[k.slots[f[a]]]]
  BY DEF Contents
<1> HIDE DEF f
<1>4. PICK c \in Nat : c = Cardinality(S)
  BY <1>2
<1>5. \A a \in 1 .. c : f[a] \in SlotIndex /\ k.slots[f[a]] # Null
  BY <1>2, <1>4
<1>6. DOMAIN f = 1 .. c
  BY <1>2, <1>4
<1>7. \A a \in 1 .. c : buf[k.slots[f[a]]] \in Written(k, SlotIndex)
  BY <1>5 DEF Written
<1>8. Contents(k) \in [1 .. c -> Written(k, SlotIndex)]
  BY <1>3, <1>6, <1>7
<1>9. QED
  BY <1>8

------------------------------------------------------------------------------
(* What each step of the worker does to the packets in its containers:     *)
(* those that wait for their treatment and those that wait to be sent.     *)

InsideWaiting == Written(toInside, WaitingInside)
InsideDone == Written(toInside, SlotIndex \ WaitingInside)
OutsideWaiting == Written(toOutside, WaitingOutside)
OutsideDone == Written(toOutside, SlotIndex \ WaitingOutside)

NothingNew ==
  /\ InsideWaiting' \subseteq InsideWaiting /\ InsideDone' \subseteq InsideDone
  /\ OutsideWaiting' \subseteq OutsideWaiting /\ OutsideDone' \subseteq OutsideDone

\* Waiting slots are slots.
LEMMA WaitingSlots == WaitingInside \subseteq SlotIndex /\ WaitingOutside \subseteq SlotIndex
BY DEF WaitingInside, WaitingOutside

\* No slot waits in an empty burst or at the end of one.
LEMMA NoSlots ==
  ASSUME NEW c \in Nat, NEW n \in Nat, ~(n > 0) \/ c = n
  PROVE  {j \in SlotIndex : c <= j /\ j < n} = {}
<1>1. \A j \in SlotIndex : j \in Nat
  BY CapacityFacts
<1>2. QED
  BY <1>1

\* What is written in a slot.
LEMMA WrittenIn ==
  ASSUME NEW k, NEW slots, NEW j \in slots, k.slots[j] # Null
  PROVE  buf[k.slots[j]] \in Written(k, slots)
BY DEF Written

\* Steps that change neither containers nor buffers.
LEMMA WaitingUnchanged ==
  ASSUME UNCHANGED <<buf, toInside, toOutside>>,
         WaitingInside' = WaitingInside, WaitingOutside' = WaitingOutside
  PROVE  NothingNew
BY DEF NothingNew, InsideWaiting, InsideDone, OutsideWaiting, OutsideDone, Written

\* Ticks, polls and the steps between bursts move no packet forward.
LEMMA QuietFlow ==
  ASSUME IInv,
         \/ UNCHANGED vars \/ Tick \/ PollToInside \/ PollToOutside
         \/ BurstFromOutside \/ BurstFromInside \/ TreatedInside \/ TreatedOutside
  PROVE  NothingNew
<1>1. CASE UNCHANGED vars \/ Tick
  <2>1. UNCHANGED <<table, buf, pool, toInside, toOutside, cursor, alive, pc>>
    BY <1>1 DEF vars, treatVars, Tick, s_increment_timestamp
  <2>2. WaitingInside' = WaitingInside /\ WaitingOutside' = WaitingOutside
    BY <2>1 DEF WaitingInside, WaitingOutside
  <2>3. QED
    BY <2>1, <2>2, WaitingUnchanged
<1>2. CASE PollToInside \/ PollToOutside
  <2>1. toInside' = EmptyContainer /\ toOutside' = EmptyContainer
    BY <1>2 DEF PollToInside, PollToOutside, Goto, IInv, LoopInv
  <2>2. /\ \A j \in SlotIndex : EmptyContainer.slots[j] = Null
        /\ WaitingInside' \subseteq SlotIndex /\ WaitingOutside' \subseteq SlotIndex
    BY DEF EmptyContainer, WaitingInside, WaitingOutside
  <2>3. QED
    BY <2>1, <2>2 DEF NothingNew, InsideWaiting, InsideDone, OutsideWaiting, OutsideDone,
      Written
<1>3. CASE BurstFromOutside \/ BurstFromInside \/ TreatedInside \/ TreatedOutside
  <2>1. UNCHANGED <<buf, toInside, toOutside, cursor>>
    BY <1>3 DEF BurstFromOutside, BurstFromInside, TreatedInside, TreatedOutside, treatVars
  <2>2. /\ cursor \in Nat /\ toInside.polled \in Nat /\ toOutside.polled \in Nat
        /\ SlotIndex \subseteq Nat
    BY CapacityFacts DEF IInv, TypeOK, Container
  <2>3. WaitingInside' = WaitingInside /\ WaitingOutside' = WaitingOutside
    <3> DEFINE I == {j \in SlotIndex : cursor <= j /\ j < toInside.polled}
               O == {j \in SlotIndex : cursor <= j /\ j < toOutside.polled}
    <3>1. /\ WaitingInside = IF pc \in {"receive_in", "treat_in"} THEN I ELSE {}
          /\ WaitingOutside = IF pc \in {"receive_out", "treat_out"} THEN O ELSE {}
          /\ WaitingInside' = IF pc' \in {"receive_in", "treat_in"} THEN I ELSE {}
          /\ WaitingOutside' = IF pc' \in {"receive_out", "treat_out"} THEN O ELSE {}
      BY <2>1 DEF WaitingInside, WaitingOutside
    <3>2. /\ ~(toInside.polled > 0) \/ cursor = toInside.polled => I = {}
          /\ ~(toOutside.polled > 0) \/ cursor = toOutside.polled => O = {}
      BY <2>2, NoSlots
    <3> HIDE DEF I, O
    <3>3. CASE BurstFromOutside
      BY <3>1, <3>2, <3>3 DEF BurstFromOutside, Goto
    <3>4. CASE BurstFromInside
      BY <3>1, <3>2, <3>4 DEF BurstFromInside, Goto
    <3>5. CASE TreatedInside \/ TreatedOutside
      BY <3>1, <3>2, <3>5 DEF TreatedInside, TreatedOutside, Goto
    <3>6. QED
      BY <1>3, <3>3, <3>4, <3>5
  <2>4. QED
    BY <2>1, <2>3, WaitingUnchanged
<1>4. QED
  BY <1>1, <1>2, <1>3

\* After a transmission nothing is left in the containers.
LEMMA SendFlow ==
  ASSUME IInv, SendAfterInside \/ SendAfterOutside
  PROVE  NothingNew /\ WaitingInside = {} /\ WaitingOutside = {}
<1>1. toInside' = EmptyContainer /\ toOutside' = EmptyContainer
  BY DEF SendAfterInside, SendAfterOutside, SendBoth
<1>2. /\ \A j \in SlotIndex : EmptyContainer.slots[j] = Null
      /\ WaitingInside' \subseteq SlotIndex /\ WaitingOutside' \subseteq SlotIndex
  BY DEF EmptyContainer, WaitingInside, WaitingOutside
<1>3. NothingNew
  BY <1>1, <1>2 DEF NothingNew, InsideWaiting, InsideDone, OutsideWaiting, OutsideDone,
    Written
<1>4. pc \in {"send_in", "send_out"}
  BY DEF SendAfterInside, SendAfterOutside, Goto
<1>5. QED
  BY <1>3, <1>4 DEF WaitingInside, WaitingOutside

\* A received packet takes the next slot.
LEMMA ReceivedSlots ==
  ASSUME NEW k, WellFormed(k), k.total < 2 * BurstSize,
         NEW m \in Mbufs, m \notin Buffers(k)
  PROVE  /\ Received(k, m).polled = k.polled + 1
         /\ Received(k, m).slots[k.total] = m
         /\ \A j \in SlotIndex : j # k.total => Received(k, m).slots[j] = k.slots[j]
         /\ \A j \in SlotIndex : j >= k.total => k.slots[j] = Null
<1> DEFINE a == Added(k, m)
<1>1. /\ a \in Container /\ a.polled = k.polled
      /\ a.slots[k.total] = m
      /\ \A j \in SlotIndex : j # k.total => a.slots[j] = k.slots[j]
  BY AddedFacts DEF WellFormed
<1>2. Received(k, m) = [a EXCEPT !.polled = a.polled + 1]
  BY DEF Received
<1> HIDE DEF a
<1>3. Received(k, m).slots = a.slots /\ Received(k, m).polled = a.polled + 1
  BY <1>1, <1>2 DEF Container
<1>4. QED
  BY <1>1, <1>3 DEF WellFormed, ClearBeyondTotal

\* A received packet waits for its treatment.
LEMMA ReceiveOutsideFlow ==
  ASSUME IInv, NEW p, ReceiveOutside(p)
  PROVE  /\ InsideWaiting' \subseteq InsideWaiting \cup {p}
         /\ InsideDone' \subseteq InsideDone
         /\ OutsideWaiting' \subseteq OutsideWaiting /\ OutsideDone' \subseteq OutsideDone
<1>1. PICK m \in pool : toInside' = Received(toInside, m) /\ buf' = [buf EXCEPT ![m] = p]
  BY DEF ReceiveOutside
<1>2. /\ pc = "receive_in" /\ pc' = "receive_in" /\ UNCHANGED <<cursor, toOutside>>
      /\ toInside.polled < BurstSize
  BY DEF ReceiveOutside, Goto
<1>3. /\ WellFormed(toInside) /\ WellFormed(toOutside) /\ m \in Mbufs
      /\ m \notin Buffers(toInside) /\ m \notin Buffers(toOutside)
      /\ buf \in [Mbufs -> Packet \cup {Opaque}]
  BY ContainersWellFormed DEF IInv, TypeOK, LooseOnce
<1>4. Receiving(toInside, toOutside)
  BY <1>2 DEF IInv, LoopInv
<1>5. PICK n \in Nat : n = toInside.total /\ n = toInside.polled /\ cursor = 0 /\ n \in SlotIndex
  BY <1>2, <1>3, <1>4, CapacityFacts DEF Receiving, WellFormed, Container
<1>6. /\ toInside'.polled = n + 1
      /\ toInside'.slots[n] = m
      /\ \A j \in SlotIndex : j # n => toInside'.slots[j] = toInside.slots[j]
      /\ \A j \in SlotIndex : j >= n => toInside.slots[j] = Null
  <2>1. toInside.total < 2 * BurstSize
    BY <1>2, <1>5, CapacityFacts
  <2>2. /\ Received(toInside, m).polled = toInside.polled + 1
        /\ Received(toInside, m).slots[toInside.total] = m
        /\ \A j \in SlotIndex : j # toInside.total =>
             Received(toInside, m).slots[j] = toInside.slots[j]
        /\ \A j \in SlotIndex : j >= toInside.total => toInside.slots[j] = Null
    BY <1>3, <2>1, ReceivedSlots
  <2>3. QED
    BY <1>1, <1>5, <2>2
<1>7. /\ buf'[m] = p /\ \A b \in Mbufs : b # m => buf'[b] = buf[b]
  BY <1>1, <1>3
<1>8. \A j \in SlotIndex : /\ toInside.slots[j] \in Mbufs \cup {Null}
                           /\ toInside.slots[j] # m
                           /\ toOutside.slots[j] \in Mbufs \cup {Null}
                           /\ toOutside.slots[j] # m
  BY <1>3, NullAssumption DEF WellFormed, Container, Buffers
<1>9. /\ WaitingInside = {j \in SlotIndex : 0 <= j /\ j < n}
      /\ WaitingInside' = {j \in SlotIndex : 0 <= j /\ j < n + 1}
      /\ WaitingOutside = {} /\ WaitingOutside' = {}
  BY <1>2, <1>5, <1>6 DEF WaitingInside, WaitingOutside
<1>10. /\ n \notin WaitingInside /\ n \in WaitingInside'
       /\ \A j \in SlotIndex : j # n => (j \in WaitingInside <=> j \in WaitingInside')
  BY <1>5, <1>9, CapacityFacts
<1> HIDE <1>9
<1>11. InsideWaiting' \subseteq InsideWaiting \cup {p}
  BY <1>6, <1>7, <1>8, <1>10, WaitingSlots, NullAssumption DEF InsideWaiting, Written, WaitingInside
<1>12. InsideDone' \subseteq InsideDone
  BY <1>6, <1>7, <1>8, <1>10, NullAssumption DEF InsideDone, Written
<1>13. OutsideWaiting' \subseteq OutsideWaiting /\ OutsideDone' \subseteq OutsideDone
  BY <1>2, <1>7, <1>8, <1>9 DEF OutsideWaiting, OutsideDone, Written
<1>14. QED
  BY <1>11, <1>12, <1>13

\* The same for a packet from the inside.
LEMMA ReceiveInsideFlow ==
  ASSUME IInv, NEW p, ReceiveInside(p)
  PROVE  /\ OutsideWaiting' \subseteq OutsideWaiting \cup {p}
         /\ OutsideDone' \subseteq OutsideDone
         /\ InsideWaiting' \subseteq InsideWaiting /\ InsideDone' \subseteq InsideDone
<1>1. PICK m \in pool : toOutside' = Received(toOutside, m) /\ buf' = [buf EXCEPT ![m] = p]
  BY DEF ReceiveInside
<1>2. /\ pc = "receive_out" /\ pc' = "receive_out" /\ UNCHANGED <<cursor, toInside>>
      /\ toOutside.polled < BurstSize
  BY DEF ReceiveInside, Goto
<1>3. /\ WellFormed(toOutside) /\ WellFormed(toInside) /\ m \in Mbufs
      /\ m \notin Buffers(toOutside) /\ m \notin Buffers(toInside)
      /\ buf \in [Mbufs -> Packet \cup {Opaque}]
  BY ContainersWellFormed DEF IInv, TypeOK, LooseOnce
<1>4. Receiving(toOutside, toInside)
  BY <1>2 DEF IInv, LoopInv
<1>5. PICK n \in Nat : n = toOutside.total /\ n = toOutside.polled /\ cursor = 0 /\ n \in SlotIndex
  BY <1>2, <1>3, <1>4, CapacityFacts DEF Receiving, WellFormed, Container
<1>6. /\ toOutside'.polled = n + 1
      /\ toOutside'.slots[n] = m
      /\ \A j \in SlotIndex : j # n => toOutside'.slots[j] = toOutside.slots[j]
      /\ \A j \in SlotIndex : j >= n => toOutside.slots[j] = Null
  <2>1. toOutside.total < 2 * BurstSize
    BY <1>2, <1>5, CapacityFacts
  <2>2. /\ Received(toOutside, m).polled = toOutside.polled + 1
        /\ Received(toOutside, m).slots[toOutside.total] = m
        /\ \A j \in SlotIndex : j # toOutside.total =>
             Received(toOutside, m).slots[j] = toOutside.slots[j]
        /\ \A j \in SlotIndex : j >= toOutside.total => toOutside.slots[j] = Null
    BY <1>3, <2>1, ReceivedSlots
  <2>3. QED
    BY <1>1, <1>5, <2>2
<1>7. /\ buf'[m] = p /\ \A b \in Mbufs : b # m => buf'[b] = buf[b]
  BY <1>1, <1>3
<1>8. \A j \in SlotIndex : /\ toOutside.slots[j] \in Mbufs \cup {Null}
                           /\ toOutside.slots[j] # m
                           /\ toInside.slots[j] \in Mbufs \cup {Null}
                           /\ toInside.slots[j] # m
  BY <1>3, NullAssumption DEF WellFormed, Container, Buffers
<1>9. /\ WaitingOutside = {j \in SlotIndex : 0 <= j /\ j < n}
      /\ WaitingOutside' = {j \in SlotIndex : 0 <= j /\ j < n + 1}
      /\ WaitingInside = {} /\ WaitingInside' = {}
  BY <1>2, <1>5, <1>6 DEF WaitingOutside, WaitingInside
<1>10. /\ n \notin WaitingOutside /\ n \in WaitingOutside'
       /\ \A j \in SlotIndex : j # n => (j \in WaitingOutside <=> j \in WaitingOutside')
  BY <1>5, <1>9, CapacityFacts
<1> HIDE <1>9
<1>11. OutsideWaiting' \subseteq OutsideWaiting \cup {p}
  BY <1>6, <1>7, <1>8, <1>10, WaitingSlots, NullAssumption DEF OutsideWaiting, Written, WaitingOutside
<1>12. OutsideDone' \subseteq OutsideDone
  BY <1>6, <1>7, <1>8, <1>10, NullAssumption DEF OutsideDone, Written
<1>13. InsideWaiting' \subseteq InsideWaiting /\ InsideDone' \subseteq InsideDone
  BY <1>2, <1>7, <1>8, <1>9 DEF InsideWaiting, InsideDone, Written
<1>14. QED
  BY <1>11, <1>12, <1>13

\* The packet at the cursor has been treated; Q and R are what was made of
\* it, the other slots keep their packets.
SlotsInside(Q, R) ==
  /\ \A j \in SlotIndex : toInside'.slots[j] # Null =>
       \/ /\ j # cursor /\ toInside'.slots[j] = toInside.slots[j]
          /\ buf'[toInside.slots[j]] = buf[toInside.slots[j]]
       \/ /\ j = cursor \/ ~(j < toInside.polled)
          /\ buf'[toInside'.slots[j]] \in Q
  /\ \A j \in SlotIndex : toOutside'.slots[j] # Null =>
       \/ /\ toOutside'.slots[j] = toOutside.slots[j]
          /\ buf'[toOutside.slots[j]] = buf[toOutside.slots[j]]
       \/ buf'[toOutside'.slots[j]] \in R

SlotsOutside(Q, R) ==
  /\ \A j \in SlotIndex : toOutside'.slots[j] # Null =>
       \/ /\ j # cursor /\ toOutside'.slots[j] = toOutside.slots[j]
          /\ buf'[toOutside.slots[j]] = buf[toOutside.slots[j]]
       \/ /\ j = cursor \/ ~(j < toOutside.polled)
          /\ buf'[toOutside'.slots[j]] \in Q
  /\ \A j \in SlotIndex : toInside'.slots[j] # Null =>
       \/ /\ toInside'.slots[j] = toInside.slots[j]
          /\ buf'[toInside.slots[j]] = buf[toInside.slots[j]]
       \/ buf'[toInside'.slots[j]] \in R

\* What a step makes of the packet at the cursor is no longer waiting.
LEMMA TreatedInsideFlow ==
  ASSUME IInv, pc = "treat_in", UNCHANGED pc, Pending(toInside), cursor' = cursor + 1,
         toInside'.polled = toInside.polled, NEW Q, NEW R,
         SlotsInside(Q, R)
  PROVE  /\ InsideWaiting' \subseteq InsideWaiting
         /\ InsideDone' \subseteq InsideDone \cup Q
         /\ OutsideWaiting' \subseteq OutsideWaiting
         /\ OutsideDone' \subseteq OutsideDone \cup R
<1>1. /\ cursor \in Nat /\ cursor \in SlotIndex /\ toInside.polled \in Nat
      /\ \A j \in SlotIndex : j \in Nat
  BY InsideContext, CapacityFacts
<1>2. /\ \A j \in SlotIndex : j \in WaitingInside <=> cursor <= j /\ j < toInside.polled
      /\ \A j \in SlotIndex : j \in WaitingInside' <=> cursor + 1 <= j /\ j < toInside.polled
      /\ WaitingInside \subseteq SlotIndex /\ WaitingInside' \subseteq SlotIndex
      /\ WaitingOutside = {} /\ WaitingOutside' = {}
  BY DEF WaitingInside, WaitingOutside
<1>3. /\ cursor \notin WaitingInside'
      /\ \A j \in SlotIndex : ~(j < toInside.polled) => j \notin WaitingInside'
      /\ \A j \in SlotIndex : j # cursor => (j \in WaitingInside <=> j \in WaitingInside')
  BY <1>1, <1>2
<1>4. InsideWaiting' \subseteq InsideWaiting
  <2> SUFFICES ASSUME NEW j \in WaitingInside', toInside'.slots[j] # Null
               PROVE  buf'[toInside'.slots[j]] \in InsideWaiting
    BY DEF InsideWaiting, Written
  <2>1. j \in SlotIndex /\ j \in WaitingInside /\ j # cursor /\ j < toInside.polled
    BY <1>2, <1>3
  <2>2. QED
    BY <2>1 DEF InsideWaiting, Written, SlotsInside
<1>5. InsideDone' \subseteq InsideDone \cup Q
  <2> SUFFICES ASSUME NEW j \in SlotIndex, j \notin WaitingInside', toInside'.slots[j] # Null
               PROVE  buf'[toInside'.slots[j]] \in InsideDone \cup Q
    BY DEF InsideDone, Written
  <2>1. j # cursor => j \notin WaitingInside
    BY <1>3
  <2>2. QED
    BY <2>1 DEF InsideDone, Written, SlotsInside
<1>6. OutsideWaiting' \subseteq OutsideWaiting /\ OutsideDone' \subseteq OutsideDone \cup R
  BY <1>2 DEF OutsideWaiting, OutsideDone, Written, SlotsInside
<1>7. QED
  BY <1>4, <1>5, <1>6

\* The same for the container to the outside.
LEMMA TreatedOutsideFlow ==
  ASSUME IInv, pc = "treat_out", UNCHANGED pc, Pending(toOutside), cursor' = cursor + 1,
         toOutside'.polled = toOutside.polled, NEW Q, NEW R,
         SlotsOutside(Q, R)
  PROVE  /\ OutsideWaiting' \subseteq OutsideWaiting
         /\ OutsideDone' \subseteq OutsideDone \cup Q
         /\ InsideWaiting' \subseteq InsideWaiting
         /\ InsideDone' \subseteq InsideDone \cup R
<1>1. /\ cursor \in Nat /\ cursor \in SlotIndex /\ toOutside.polled \in Nat
      /\ \A j \in SlotIndex : j \in Nat
  BY OutsideContext, CapacityFacts
<1>2. /\ \A j \in SlotIndex : j \in WaitingOutside <=> cursor <= j /\ j < toOutside.polled
      /\ \A j \in SlotIndex : j \in WaitingOutside' <=> cursor + 1 <= j /\ j < toOutside.polled
      /\ WaitingOutside \subseteq SlotIndex /\ WaitingOutside' \subseteq SlotIndex
      /\ WaitingInside = {} /\ WaitingInside' = {}
  BY DEF WaitingOutside, WaitingInside
<1>3. /\ cursor \notin WaitingOutside'
      /\ \A j \in SlotIndex : ~(j < toOutside.polled) => j \notin WaitingOutside'
      /\ \A j \in SlotIndex : j # cursor => (j \in WaitingOutside <=> j \in WaitingOutside')
  BY <1>1, <1>2
<1>4. OutsideWaiting' \subseteq OutsideWaiting
  <2> SUFFICES ASSUME NEW j \in WaitingOutside', toOutside'.slots[j] # Null
               PROVE  buf'[toOutside'.slots[j]] \in OutsideWaiting
    BY DEF OutsideWaiting, Written
  <2>1. j \in SlotIndex /\ j \in WaitingOutside /\ j # cursor /\ j < toOutside.polled
    BY <1>2, <1>3
  <2>2. QED
    BY <2>1 DEF OutsideWaiting, Written, SlotsOutside
<1>5. OutsideDone' \subseteq OutsideDone \cup Q
  <2> SUFFICES ASSUME NEW j \in SlotIndex, j \notin WaitingOutside', toOutside'.slots[j] # Null
               PROVE  buf'[toOutside'.slots[j]] \in OutsideDone \cup Q
    BY DEF OutsideDone, Written
  <2>1. j # cursor => j \notin WaitingOutside
    BY <1>3
  <2>2. QED
    BY <2>1 DEF OutsideDone, Written, SlotsOutside
<1>6. InsideWaiting' \subseteq InsideWaiting /\ InsideDone' \subseteq InsideDone \cup R
  BY <1>2 DEF InsideWaiting, InsideDone, Written, SlotsOutside
<1>7. QED
  BY <1>4, <1>5, <1>6

\* The buffer under treatment and those of the pool are in no other slot.
LEMMA SlotsApartInside ==
  ASSUME IInv, pc = "treat_in", Pending(toInside)
  PROVE  /\ Slot(toInside) \in Mbufs /\ Slot(toInside) = toInside.slots[cursor]
         /\ buf \in [Mbufs -> Packet \cup {Opaque}] /\ pool \subseteq Mbufs
         /\ Slot(toInside) \notin pool
         /\ \A j \in SlotIndex :
              /\ toInside.slots[j] \in Mbufs \cup {Null} /\ toInside.slots[j] \notin pool
              /\ toOutside.slots[j] \in Mbufs \cup {Null} /\ toOutside.slots[j] \notin pool
              /\ j # cursor => toInside.slots[j] # Slot(toInside)
              /\ toOutside.slots[j] # Slot(toInside)
<1>1. /\ WellFormed(toInside) /\ WellFormed(toOutside) /\ LooseOnce
      /\ cursor \in SlotIndex /\ Slot(toInside) \in Mbufs
      /\ Slot(toInside) \notin Buffers(toOutside) /\ Slot(toInside) \notin pool
  BY InsideContext
<1>2. buf \in [Mbufs -> Packet \cup {Opaque}] /\ pool \subseteq Mbufs /\ Null \notin pool
  BY NullAssumption DEF IInv, TypeOK
<1>3. \A j \in SlotIndex : /\ toInside.slots[j] \in Mbufs \cup {Null}
                           /\ toOutside.slots[j] \in Mbufs \cup {Null}
  BY <1>1 DEF WellFormed, Container
<1>4. \A j \in SlotIndex : j # cursor => toInside.slots[j] # Slot(toInside)
  BY <1>1, NullAssumption DEF WellFormed, Distinct, Slot
<1>5. \A j \in SlotIndex : /\ toInside.slots[j] \notin pool /\ toOutside.slots[j] \notin pool
                           /\ toOutside.slots[j] # Slot(toInside)
  BY <1>1, <1>2, NullAssumption DEF LooseOnce, Buffers
<1>6. QED
  BY <1>1, <1>2, <1>3, <1>4, <1>5 DEF Slot

\* The same for the container to the outside.
LEMMA SlotsApartOutside ==
  ASSUME IInv, pc = "treat_out", Pending(toOutside)
  PROVE  /\ Slot(toOutside) \in Mbufs /\ Slot(toOutside) = toOutside.slots[cursor]
         /\ buf \in [Mbufs -> Packet \cup {Opaque}] /\ pool \subseteq Mbufs
         /\ Slot(toOutside) \notin pool
         /\ \A j \in SlotIndex :
              /\ toOutside.slots[j] \in Mbufs \cup {Null} /\ toOutside.slots[j] \notin pool
              /\ toInside.slots[j] \in Mbufs \cup {Null} /\ toInside.slots[j] \notin pool
              /\ j # cursor => toOutside.slots[j] # Slot(toOutside)
              /\ toInside.slots[j] # Slot(toOutside)
<1>1. /\ WellFormed(toOutside) /\ WellFormed(toInside) /\ LooseOnce
      /\ cursor \in SlotIndex /\ Slot(toOutside) \in Mbufs
      /\ Slot(toOutside) \notin Buffers(toInside) /\ Slot(toOutside) \notin pool
  BY OutsideContext
<1>2. buf \in [Mbufs -> Packet \cup {Opaque}] /\ pool \subseteq Mbufs /\ Null \notin pool
  BY NullAssumption DEF IInv, TypeOK
<1>3. \A j \in SlotIndex : /\ toOutside.slots[j] \in Mbufs \cup {Null}
                           /\ toInside.slots[j] \in Mbufs \cup {Null}
  BY <1>1 DEF WellFormed, Container
<1>4. \A j \in SlotIndex : j # cursor => toOutside.slots[j] # Slot(toOutside)
  BY <1>1, NullAssumption DEF WellFormed, Distinct, Slot
<1>5. \A j \in SlotIndex : /\ toOutside.slots[j] \notin pool /\ toInside.slots[j] \notin pool
                           /\ toInside.slots[j] # Slot(toOutside)
  BY <1>1, <1>2, NullAssumption DEF LooseOnce, Buffers
<1>6. QED
  BY <1>1, <1>2, <1>3, <1>4, <1>5 DEF Slot

\* What packet p from outside becomes: q goes on to the inside, or r back.
PassedIn(p, q) ==
  \/ q = p /\ ~IsSyn(p.flags) /\ ~IsAck(p.flags)
  \/ /\ HasEntry(p.conn) /\ ~IsSyn(p.flags)
     /\ q = [p EXCEPT !.ack = SeqSub(@, table[p.conn].offset)]
  \/ /\ ~HasEntry(p.conn) /\ IsAck(p.flags)
     /\ check_syn_cookie(SeqSub(p.ack, 1), p.conn, ts)
     /\ q = [conn |-> p.conn, flags |-> {"SYN"}, seq |-> SeqSub(p.seq, 1), ack |-> 123 % SeqMod]
  \/ /\ ~HasEntry(p.conn) /\ IsAck(p.flags)
     /\ q = [conn |-> p.conn, flags |-> {"RST"}, seq |-> p.ack, ack |-> 0]
AnsweredOut(p, r) ==
  /\ IsSyn(p.flags)
  /\ r = [conn |-> p.conn, flags |-> {"SYN", "ACK"},
          seq |-> Cookie(p.conn, ts), ack |-> SeqAdd(p.seq, 1)]

InsideFlow(p) ==
  /\ p \in InsideWaiting /\ p = Current(toInside) /\ Tcp(toInside)
  /\ InsideWaiting' \subseteq InsideWaiting /\ OutsideWaiting' \subseteq OutsideWaiting
  /\ \A q \in InsideDone' : q \in InsideDone \/ PassedIn(p, q)
  /\ \A r \in OutsideDone' : r \in OutsideDone \/ AnsweredOut(p, r)

\* Each branch makes at most one packet Q for the inside and one R for the
\* outside.
LEMMA BranchInside ==
  ASSUME IInv, pc = "treat_in", UNCHANGED pc, Tcp(toInside), NextPacket, NEW Q, NEW R,
         toInside'.polled = toInside.polled,
         \A q \in Q : PassedIn(Current(toInside), q),
         \A r \in R : AnsweredOut(Current(toInside), r),
         SlotsInside(Q, R)
  PROVE  InsideFlow(Current(toInside))
<1>1. Pending(toInside) /\ cursor' = cursor + 1
  BY DEF Tcp, NextPacket
<1>2. Current(toInside) \in InsideWaiting
  <2>1. cursor \in WaitingInside /\ toInside.slots[cursor] # Null
    BY <1>1, InsideContext, NullAssumption DEF WaitingInside, Slot
  <2>2. QED
    BY <2>1 DEF InsideWaiting, Written, Current, Slot
<1>3. /\ InsideWaiting' \subseteq InsideWaiting
      /\ InsideDone' \subseteq InsideDone \cup Q
      /\ OutsideWaiting' \subseteq OutsideWaiting
      /\ OutsideDone' \subseteq OutsideDone \cup R
  BY <1>1, TreatedInsideFlow DEF SlotsInside
<1>4. QED
  BY <1>2, <1>3 DEF InsideFlow

\* The packet stays in its slot, as it is or with another acknowledgement.
LEMMA KeptInsideFlow ==
  ASSUME IInv, pc = "treat_in", UNCHANGED pc, Tcp(toInside), NextPacket,
         \/ LeaveInPlace /\ ~IsSyn(Flags(toInside)) /\ ~IsAck(Flags(toInside))
         \/ RewriteAck /\ Known(toInside) /\ ~IsSyn(Flags(toInside))
  PROVE  InsideFlow(Current(toInside))
<1> DEFINE p == Current(toInside)
           s == Slot(toInside)
<1>1. PICK q : PassedIn(p, q) /\ buf' = [buf EXCEPT ![s] = q]
                /\ UNCHANGED <<toInside, toOutside>>
  <2>1. CASE LeaveInPlace /\ ~IsSyn(Flags(toInside)) /\ ~IsAck(Flags(toInside))
    <3>1. buf' = [buf EXCEPT ![s] = p]
      BY <2>1, SlotsApartInside DEF LeaveInPlace, Current, Tcp
    <3>2. PassedIn(p, p)
      BY <2>1 DEF PassedIn, Flags
    <3>3. QED
      BY <2>1, <3>1, <3>2 DEF LeaveInPlace
  <2>2. CASE RewriteAck /\ Known(toInside) /\ ~IsSyn(Flags(toInside))
    <3>1. PassedIn(p, [p EXCEPT !.ack = SeqSub(@, table[p.conn].offset)])
      BY <2>2 DEF PassedIn, Known, Flags
    <3>2. QED
      BY <2>2, <3>1 DEF RewriteAck, Rewrite, Entry
  <2>3. QED
    BY <2>1, <2>2
<1>2. Pending(toInside)
  BY DEF Tcp
<1>3. /\ \A j \in SlotIndex : j # cursor => toInside.slots[j] = Null \/
           buf'[toInside.slots[j]] = buf[toInside.slots[j]]
      /\ \A j \in SlotIndex : toOutside.slots[j] = Null \/
           buf'[toOutside.slots[j]] = buf[toOutside.slots[j]]
      /\ buf'[s] = q /\ s = toInside.slots[cursor]
  BY <1>1, <1>2, SlotsApartInside
<1> HIDE DEF p, s
<1>4. SlotsInside({q}, {})
  BY <1>1, <1>3 DEF SlotsInside
<1>5. \A r \in {q} : PassedIn(Current(toInside), r)
  BY <1>1 DEF p
<1>6. toInside'.polled = toInside.polled /\ \A r \in {} : AnsweredOut(Current(toInside), r)
  BY <1>1
<1>7. QED
  BY <1>4, <1>5, <1>6, BranchInside

\* The packet leaves its slot and nothing takes its place.
LEMMA TakenInsideFlow ==
  ASSUME IInv, pc = "treat_in", UNCHANGED pc, Tcp(toInside), NextPacket,
         toInside' = Vacated(toInside, cursor), toOutside' = toOutside,
         \A m \in Mbufs : m # Slot(toInside) => buf'[m] = buf[m]
  PROVE  InsideFlow(Current(toInside))
<1>1. Pending(toInside)
  BY DEF Tcp
<1>2. /\ toInside'.polled = toInside.polled /\ toInside'.slots[cursor] = Null
      /\ \A j \in SlotIndex : j # cursor => toInside'.slots[j] = toInside.slots[j]
  <2>1. WellFormed(toInside) /\ cursor \in SlotIndex
    BY <1>1, InsideContext
  <2>2. Vacated(toInside, cursor).slots[cursor] = Null
    BY <2>1 DEF WellFormed, Container, Vacated
  <2>3. QED
    BY <2>1, <2>2, VacatedFacts
<1>3. SlotsInside({}, {})
  BY <1>1, <1>2, SlotsApartInside DEF SlotsInside
<1>4. /\ \A q \in {} : PassedIn(Current(toInside), q)
      /\ \A r \in {} : AnsweredOut(Current(toInside), r)
  OBVIOUS
<1>5. QED
  BY <1>2, <1>3, <1>4, BranchInside

\* A SYN is answered to the outside.
LEMMA SynInsideFlow ==
  ASSUME IInv, pc = "treat_in", UNCHANGED pc, InSyn
  PROVE  InsideFlow(Current(toInside))
<1> DEFINE p == Current(toInside)
           r == [conn |-> p.conn, flags |-> {"SYN", "ACK"},
                 seq |-> Cookie(p.conn, ts), ack |-> SeqAdd(p.seq, 1)]
<1>1. PICK m \in pool :
        /\ buf' = [buf EXCEPT ![m] = r, ![Slot(toInside)] = Opaque]
        /\ toOutside' = Added(toOutside, m) /\ toInside' = Vacated(toInside, cursor)
  BY DEF InSyn
<1>2. Tcp(toInside) /\ IsSyn(Flags(toInside)) /\ Pending(toInside) /\ NextPacket
  BY DEF InSyn, Tcp
<1>3. AnsweredOut(p, r)
  BY <1>2 DEF AnsweredOut, Flags
<1>4. /\ WellFormed(toInside) /\ WellFormed(toOutside) /\ cursor \in SlotIndex
      /\ toOutside.total < 2 * BurstSize /\ m \in Mbufs /\ m \notin Buffers(toOutside)
      /\ m # Slot(toInside) /\ Slot(toInside) \in Mbufs
      /\ buf \in [Mbufs -> Packet \cup {Opaque}]
  BY <1>2, InsideContext DEF LooseOnce, IInv, TypeOK
<1> HIDE DEF p, r
<1>5. buf'[m] = r /\ \A b \in Mbufs : b # m /\ b # Slot(toInside) => buf'[b] = buf[b]
  BY <1>1, <1>4
<1>6. /\ toInside'.polled = toInside.polled /\ toInside'.slots[cursor] = Null
      /\ \A j \in SlotIndex : j # cursor => toInside'.slots[j] = toInside.slots[j]
  <2>1. Vacated(toInside, cursor).slots[cursor] = Null
    BY <1>4 DEF WellFormed, Container, Vacated
  <2>2. QED
    BY <1>1, <1>4, <2>1, VacatedFacts
<1>7. /\ toOutside'.slots[toOutside.total] = m
      /\ \A j \in SlotIndex : j # toOutside.total => toOutside'.slots[j] = toOutside.slots[j]
  BY <1>1, <1>4, AddedFacts
<1>8. SlotsInside({}, {r})
  BY <1>1, <1>2, <1>5, <1>6, <1>7, SlotsApartInside DEF SlotsInside
<1>9. /\ \A q \in {} : PassedIn(Current(toInside), q)
      /\ \A x \in {r} : AnsweredOut(Current(toInside), x)
  BY <1>3 DEF p
<1>10. QED
  BY <1>2, <1>6, <1>8, <1>9, BranchInside

\* An ACK that no entry knows makes a SYN or an RST for the inside.
LEMMA NewInsideFlow ==
  ASSUME IInv, pc = "treat_in", UNCHANGED pc, Tcp(toInside), NextPacket, NEW q,
         PassedIn(Current(toInside), q), UNCHANGED toOutside, NEW m \in pool,
         buf'[m] = q, \A n \in Mbufs : n # m /\ n # Slot(toInside) => buf'[n] = buf[n],
         toInside' = Vacated(Added(toInside, m), cursor)
  PROVE  InsideFlow(Current(toInside))
<1>1. Pending(toInside)
  BY DEF Tcp
<1>2. /\ WellFormed(toInside) /\ cursor \in SlotIndex /\ cursor # toInside.total
      /\ toInside.total < 2 * BurstSize /\ m \in Mbufs /\ m \notin Buffers(toInside)
      /\ m # Slot(toInside) /\ Slot(toInside) \in Mbufs
      /\ toInside.total \in Nat /\ toInside.polled \in Nat
      /\ buf \in [Mbufs -> Packet \cup {Opaque}]
  BY <1>1, InsideContext DEF LooseOnce, IInv, TypeOK
<1>3. buf'[m] = q /\ \A n \in Mbufs : n # m /\ n # Slot(toInside) => buf'[n] = buf[n]
  OBVIOUS
<1>4. ~(toInside.total < toInside.polled)
  BY <1>2 DEF IInv, LoopInv, Treating
<1>5. /\ WellFormed(Added(toInside, m))
      /\ Added(toInside, m).slots[toInside.total] = m
      /\ Added(toInside, m).polled = toInside.polled
      /\ \A j \in SlotIndex : j # toInside.total =>
           Added(toInside, m).slots[j] = toInside.slots[j]
  BY <1>2, AddedFacts
<1>6. /\ Vacated(Added(toInside, m), cursor).slots[cursor] = Null
      /\ Vacated(Added(toInside, m), cursor).polled = toInside.polled
      /\ \A j \in SlotIndex : j # cursor =>
           Vacated(Added(toInside, m), cursor).slots[j] = Added(toInside, m).slots[j]
  <2>1. Vacated(Added(toInside, m), cursor).slots[cursor] = Null
    BY <1>2, <1>5 DEF WellFormed, Container, Vacated
  <2>2. QED
    BY <1>2, <1>5, <2>1, VacatedFacts
<1>7. /\ toInside'.polled = toInside.polled /\ toInside'.slots[cursor] = Null
      /\ \A j \in SlotIndex : j = toInside.total => toInside'.slots[j] = m
      /\ \A j \in SlotIndex : j # cursor /\ j # toInside.total =>
           toInside'.slots[j] = toInside.slots[j]
  BY <1>2, <1>5, <1>6
<1>8. SlotsInside({q}, {})
  <2>1. ASSUME NEW j \in SlotIndex, toInside'.slots[j] # Null
        PROVE  \/ /\ j # cursor /\ toInside'.slots[j] = toInside.slots[j]
                  /\ buf'[toInside.slots[j]] = buf[toInside.slots[j]]
               \/ /\ j = cursor \/ ~(j < toInside.polled)
                  /\ buf'[toInside'.slots[j]] \in {q}
    <3>1. CASE j = toInside.total
      BY <1>3, <1>4, <1>7, <3>1
    <3>2. CASE j # toInside.total
      <4>1. j # cursor /\ toInside'.slots[j] = toInside.slots[j]
        BY <1>7, <2>1, <3>2
      <4>2. QED
        BY <1>1, <1>3, <2>1, <4>1, SlotsApartInside
    <3>3. QED
      BY <3>1, <3>2
  <2>2. ASSUME NEW j \in SlotIndex, toOutside'.slots[j] # Null
        PROVE  /\ toOutside'.slots[j] = toOutside.slots[j]
               /\ buf'[toOutside.slots[j]] = buf[toOutside.slots[j]]
    BY <1>1, <1>3, <2>2, SlotsApartInside
  <2>3. QED
    BY <2>1, <2>2 DEF SlotsInside
<1>9. /\ \A x \in {q} : PassedIn(Current(toInside), x)
      /\ \A r \in {} : AnsweredOut(Current(toInside), r)
  OBVIOUS
<1>10. QED
  BY <1>7, <1>8, <1>9, BranchInside

\* What the treatment of a packet from outside puts into the containers.
LEMMA TreatInsideFlow ==
  ASSUME IInv, TreatInside, Current(toInside) # Opaque
  PROVE  InsideFlow(Current(toInside))
<1>1. pc = "treat_in" /\ UNCHANGED pc /\ TreatToInside
  BY DEF TreatInside
<1>2. CASE InSynAck \/ InRst \/ InFinAnswer \/ InFinFirst \/ InFinRepeated \/ InAckLast
           \/ InAckRegular \/ InUntreated
  <2>1. Tcp(toInside) /\ NextPacket
    BY <1>2 DEF InSynAck, InRst, InFinAnswer, InFinFirst, InFinRepeated, InAckLast,
      InAckRegular, InUntreated, Untreated, Tcp
  <2>2. \/ LeaveInPlace /\ ~IsSyn(Flags(toInside)) /\ ~IsAck(Flags(toInside))
        \/ RewriteAck /\ Known(toInside) /\ ~IsSyn(Flags(toInside))
    BY <1>2 DEF InSynAck, InRst, InFinAnswer, InFinFirst, InFinRepeated, InAckLast,
      InAckRegular, InUntreated, Untreated, IsSynAck, IsSyn, IsRst, IsFin, IsAck
  <2>3. QED
    BY <1>1, <2>1, <2>2, KeptInsideFlow
<1>3. CASE InFinUnknown \/ InAckEarly
  <2>1. Tcp(toInside) /\ NextPacket
    BY <1>3 DEF InFinUnknown, InAckEarly
  <2>2. /\ toInside' = Vacated(toInside, cursor) /\ toOutside' = toOutside
        /\ \A m \in Mbufs : m # Slot(toInside) => buf'[m] = buf[m]
    BY <1>3 DEF InFinUnknown, InAckEarly, DropInside, IInv, TypeOK
  <2>3. QED
    BY <1>1, <2>1, <2>2, TakenInsideFlow
<1>4. CASE InSyn
  BY <1>1, <1>4, SynInsideFlow
<1>5. CASE InAckLegit
  <2> DEFINE p == Current(toInside)
             q == [conn |-> p.conn, flags |-> {"SYN"}, seq |-> SeqSub(p.seq, 1),
                   ack |-> 123 % SeqMod]
  <2>1. PICK m \in pool : /\ buf' = [buf EXCEPT ![m] = q]
                          /\ toInside' = Vacated(Added(toInside, m), cursor)
    BY <1>5 DEF InAckLegit
  <2>2. Tcp(toInside) /\ NextPacket /\ UNCHANGED toOutside /\ PassedIn(p, q)
    BY <1>5 DEF InAckLegit, PassedIn, Known, CookieReturned, Flags
  <2>3. /\ m # Slot(toInside) /\ buf'[m] = q
        /\ \A n \in Mbufs : n # m /\ n # Slot(toInside) => buf'[n] = buf[n]
    BY <1>1, <2>1, <2>2, SlotsApartInside DEF Tcp
  <2> HIDE DEF q
  <2>4. QED
    BY <1>1, <2>1, <2>2, <2>3, NewInsideFlow
<1>6. CASE InAckRefused
  <2> DEFINE p == Current(toInside)
             q == [conn |-> p.conn, flags |-> {"RST"}, seq |-> p.ack, ack |-> 0]
  <2>1. PICK m \in pool : /\ buf' = [buf EXCEPT ![m] = q, ![Slot(toInside)] = Opaque]
                          /\ toInside' = Vacated(Added(toInside, m), cursor)
    BY <1>6 DEF InAckRefused
  <2>2. Tcp(toInside) /\ NextPacket /\ UNCHANGED toOutside /\ PassedIn(p, q)
    BY <1>6 DEF InAckRefused, PassedIn, Known, Flags
  <2>3. /\ m # Slot(toInside) /\ buf'[m] = q
        /\ \A n \in Mbufs : n # m /\ n # Slot(toInside) => buf'[n] = buf[n]
    BY <1>1, <2>1, <2>2, SlotsApartInside DEF Tcp
  <2> HIDE DEF q
  <2>4. QED
    BY <1>1, <2>1, <2>2, <2>3, NewInsideFlow
<1>7. CASE InOutOfBuffers
  <2>1. /\ Tcp(toInside) /\ Pending(toInside)
        /\ UNCHANGED <<buf, toInside, toOutside, cursor, pc>>
    BY <1>1, <1>7 DEF InOutOfBuffers, Crash, Tcp
  <2>2. Current(toInside) \in InsideWaiting
    <3>1. cursor \in WaitingInside /\ toInside.slots[cursor] # Null
      BY <1>1, <2>1, InsideContext, NullAssumption DEF WaitingInside, Slot
    <3>2. QED
      BY <3>1 DEF InsideWaiting, Written, Current, Slot
  <2>3. NothingNew
    <3>1. WaitingInside' = WaitingInside /\ WaitingOutside' = WaitingOutside
      BY <2>1 DEF WaitingInside, WaitingOutside
    <3>2. QED
      BY <2>1, <3>1, WaitingUnchanged
  <2>4. QED
    BY <2>1, <2>2, <2>3 DEF InsideFlow, NothingNew
<1>8. QED
  BY <1>1, <1>2, <1>3, <1>4, <1>5, <1>6, <1>7 DEF TreatToInside

\* What packet p from inside becomes: q goes on to the outside, and r is the
\* held packet that it releases.
PassedOut(p, q) ==
  \/ q = p
  \/ /\ HasEntry(p.conn) /\ ~IsSynAck(p.flags)
     /\ q = [p EXCEPT !.seq = SeqAdd(@, table[p.conn].offset)]
ReleasedIn(p, r) ==
  /\ IsSynAck(p.flags) /\ HasEntry(p.conn)
  /\ Held(p.conn) # <<>> /\ Held(p.conn)[1] # Null
  /\ r = [buf[Held(p.conn)[1]] EXCEPT !.ack = SeqAdd(p.seq, 1)]

OutsideFlow(p) ==
  /\ p \in OutsideWaiting /\ p = Current(toOutside) /\ Tcp(toOutside)
  /\ OutsideWaiting' \subseteq OutsideWaiting /\ InsideWaiting' \subseteq InsideWaiting
  /\ \A q \in OutsideDone' : q \in OutsideDone \/ PassedOut(p, q)
  /\ \A r \in InsideDone' : r \in InsideDone \/ ReleasedIn(p, r)

\* Each branch makes at most one packet Q for the outside and one R for the
\* inside.
LEMMA BranchOutside ==
  ASSUME IInv, pc = "treat_out", UNCHANGED pc, Tcp(toOutside), NextPacket, NEW Q, NEW R,
         toOutside'.polled = toOutside.polled,
         \A q \in Q : PassedOut(Current(toOutside), q),
         \A r \in R : ReleasedIn(Current(toOutside), r),
         SlotsOutside(Q, R)
  PROVE  OutsideFlow(Current(toOutside))
<1>1. Pending(toOutside) /\ cursor' = cursor + 1
  BY DEF Tcp, NextPacket
<1>2. Current(toOutside) \in OutsideWaiting
  <2>1. cursor \in WaitingOutside /\ toOutside.slots[cursor] # Null
    BY <1>1, OutsideContext, NullAssumption DEF WaitingOutside, Slot
  <2>2. QED
    BY <2>1 DEF OutsideWaiting, Written, Current, Slot
<1>3. /\ OutsideWaiting' \subseteq OutsideWaiting
      /\ OutsideDone' \subseteq OutsideDone \cup Q
      /\ InsideWaiting' \subseteq InsideWaiting
      /\ InsideDone' \subseteq InsideDone \cup R
  BY <1>1, TreatedOutsideFlow DEF SlotsOutside
<1>4. QED
  BY <1>2, <1>3 DEF OutsideFlow

\* The packet stays in its slot, as it is or with another sequence number.
LEMMA KeptOutsideFlow ==
  ASSUME IInv, pc = "treat_out", UNCHANGED pc, Tcp(toOutside), NextPacket,
         \/ LeaveInPlace
         \/ RewriteSeq /\ Known(toOutside) /\ ~IsSynAck(Flags(toOutside))
  PROVE  OutsideFlow(Current(toOutside))
<1> DEFINE p == Current(toOutside)
           s == Slot(toOutside)
<1>1. PICK q : PassedOut(p, q) /\ buf' = [buf EXCEPT ![s] = q]
                /\ UNCHANGED <<toOutside, toInside>>
  <2>1. CASE LeaveInPlace
    <3>1. buf' = [buf EXCEPT ![s] = p]
      BY <2>1, SlotsApartOutside DEF LeaveInPlace, Current, Tcp
    <3>2. PassedOut(p, p)
      BY <2>1 DEF PassedOut, Flags
    <3>3. QED
      BY <2>1, <3>1, <3>2 DEF LeaveInPlace
  <2>2. CASE RewriteSeq /\ Known(toOutside) /\ ~IsSynAck(Flags(toOutside))
    <3>1. PassedOut(p, [p EXCEPT !.seq = SeqAdd(@, table[p.conn].offset)])
      BY <2>2 DEF PassedOut, Known, Flags
    <3>2. QED
      BY <2>2, <3>1 DEF RewriteSeq, Rewrite, Entry
  <2>3. QED
    BY <2>1, <2>2
<1>2. Pending(toOutside)
  BY DEF Tcp
<1>3. /\ \A j \in SlotIndex : j # cursor => toOutside.slots[j] = Null \/
           buf'[toOutside.slots[j]] = buf[toOutside.slots[j]]
      /\ \A j \in SlotIndex : toInside.slots[j] = Null \/
           buf'[toInside.slots[j]] = buf[toInside.slots[j]]
      /\ buf'[s] = q /\ s = toOutside.slots[cursor]
  BY <1>1, <1>2, SlotsApartOutside
<1> HIDE DEF p, s
<1>4. SlotsOutside({q}, {})
  BY <1>1, <1>3 DEF SlotsOutside
<1>5. \A r \in {q} : PassedOut(Current(toOutside), r)
  BY <1>1 DEF p
<1>6. toOutside'.polled = toOutside.polled /\ \A r \in {} : ReleasedIn(Current(toOutside), r)
  BY <1>1
<1>7. QED
  BY <1>4, <1>5, <1>6, BranchOutside

\* The packet leaves its slot and nothing takes its place.
LEMMA TakenOutsideFlow ==
  ASSUME IInv, pc = "treat_out", UNCHANGED pc, Tcp(toOutside), NextPacket,
         toOutside' = Vacated(toOutside, cursor), toInside' = toInside,
         \A m \in Mbufs : m # Slot(toOutside) => buf'[m] = buf[m]
  PROVE  OutsideFlow(Current(toOutside))
<1>1. Pending(toOutside)
  BY DEF Tcp
<1>2. /\ toOutside'.polled = toOutside.polled /\ toOutside'.slots[cursor] = Null
      /\ \A j \in SlotIndex : j # cursor => toOutside'.slots[j] = toOutside.slots[j]
  <2>1. WellFormed(toOutside) /\ cursor \in SlotIndex
    BY <1>1, OutsideContext
  <2>2. Vacated(toOutside, cursor).slots[cursor] = Null
    BY <2>1 DEF WellFormed, Container, Vacated
  <2>3. QED
    BY <2>1, <2>2, VacatedFacts
<1>3. SlotsOutside({}, {})
  BY <1>1, <1>2, SlotsApartOutside DEF SlotsOutside
<1>4. /\ \A q \in {} : PassedOut(Current(toOutside), q)
      /\ \A r \in {} : ReleasedIn(Current(toOutside), r)
  OBVIOUS
<1>5. QED
  BY <1>2, <1>3, <1>4, BranchOutside

\* The release writes the first held buffer and none that is not held.
LEMMA ReleaseWrites ==
  ASSUME IInv, pc = "treat_out", OutSynAckRelease, NEW c \in Conns,
         c = Current(toOutside).conn
  PROVE  /\ HasEntry(c) /\ Held(c) # <<>> /\ Held(c)[1] # Null
         /\ Held(c)[1] \in Mbufs \ Loose
         /\ buf'[Held(c)[1]] =
              [buf[Held(c)[1]] EXCEPT !.ack = SeqAdd(Current(toOutside).seq, 1)]
         /\ \A m \in Mbufs \cap Loose : buf'[m] = buf[m]
         /\ toInside' = Added(toInside, Held(c)[1]) /\ toOutside' = toOutside
<1> DEFINE p    == Current(toOutside)
           off  == SeqSub(SeqSub(buf[Held(c)[1]].ack, p.seq), 1)
           late == {Held(c)[k] : k \in 2 .. Len(Held(c))}
<1>1. /\ HasEntry(c) /\ Held(c) # <<>> /\ Held(c)[1] # Null
      /\ buf' = [m \in Mbufs |->
           CASE m = Held(c)[1] -> [buf[m] EXCEPT !.ack = SeqAdd(p.seq, 1)]
             [] m \in late -> [buf[m] EXCEPT !.ack = SeqSub(@, off)]
             [] OTHER -> buf[m]]
      /\ toInside' = Added(toInside, Held(c)[1]) /\ toOutside' = toOutside
  BY DEF OutSynAckRelease, Entry, Held, Known
<1>2. /\ Len(Held(c)) \in Nat /\ 1 \in 1 .. Len(Held(c))
      /\ \A k \in 2 .. Len(Held(c)) : k \in 1 .. Len(Held(c)) /\ k # 1
      /\ \A k \in 1 .. Len(Held(c)) : Held(c)[k] \in Mbufs \cup {Null}
  <2>1. Held(c) \in Seq(Mbufs \cup {Null})
    BY <1>1, HeldTypes DEF IInv
  <2>2. QED
    BY <1>1, <2>1
<1>3. \A k \in 1 .. Len(Held(c)) : Held(c)[k] \notin Loose
  BY <1>1, <1>2 DEF IInv, BufferOwnership, HeldNowhereElse, Loose
<1>4. PICK h \in Mbufs : h = Held(c)[1] /\ h \notin Loose
  BY <1>1, <1>2, <1>3
<1>5. \A k \in 2 .. Len(Held(c)) : Held(c)[k] # h
  BY <1>1, <1>2, <1>4 DEF IInv, BufferOwnership, HeldOnce
<1>6. h \notin late /\ \A m \in Loose : m \notin late /\ m # h
  BY <1>2, <1>3, <1>4, <1>5
<1>7. buf'[h] = [buf[h] EXCEPT !.ack = SeqAdd(p.seq, 1)]
  BY <1>1, <1>4, <1>6
<1> HIDE DEF late, off, p
<1>8. \A m \in Mbufs \cap Loose : buf'[m] = buf[m]
  BY <1>1, <1>4, <1>6
<1>9. QED
  BY <1>1, <1>4, <1>7, <1>8 DEF p

\* A SYN-ACK from the inside releases the first held packet.
LEMMA ReleaseFlow ==
  ASSUME IInv, pc = "treat_out", UNCHANGED pc, OutSynAckRelease
  PROVE  OutsideFlow(Current(toOutside))
<1>1. /\ Tcp(toOutside) /\ Pending(toOutside) /\ NextPacket /\ UNCHANGED toOutside
      /\ IsSynAck(Flags(toOutside))
  BY DEF OutSynAckRelease, Tcp
<1>2. PICK c \in Conns : c = Current(toOutside).conn
  BY <1>1, TcpOutside
<1>3. PICK h \in Mbufs : h = Held(c)[1]
  BY <1>2, ReleaseWrites
<1>4. /\ HasEntry(c) /\ Held(c) # <<>> /\ h # Null /\ h \notin Loose
      /\ buf'[h] = [buf[h] EXCEPT !.ack = SeqAdd(Current(toOutside).seq, 1)]
      /\ \A m \in Mbufs \cap Loose : buf'[m] = buf[m]
      /\ toInside' = Added(toInside, h)
  BY <1>2, <1>3, ReleaseWrites
<1>5. PICK r : r = buf'[h] /\ ReleasedIn(Current(toOutside), r)
  BY <1>1, <1>2, <1>3, <1>4 DEF ReleasedIn, Flags
<1>6. PICK p : p = Current(toOutside) /\ PassedOut(p, p)
  BY DEF PassedOut
<1>7. /\ WellFormed(toInside) /\ toInside.total < 2 * BurstSize /\ h \notin Buffers(toInside)
  BY <1>1, <1>4, OutsideContext DEF Loose
<1>8. /\ toInside'.slots[toInside.total] = h
      /\ \A j \in SlotIndex : j # toInside.total => toInside'.slots[j] = toInside.slots[j]
  BY <1>4, <1>7, AddedFacts
<1>9. \A j \in SlotIndex :
        /\ toInside.slots[j] # Null => buf'[toInside.slots[j]] = buf[toInside.slots[j]]
        /\ toOutside.slots[j] # Null => buf'[toOutside.slots[j]] = buf[toOutside.slots[j]]
  <2>1. \A j \in SlotIndex :
          /\ toInside.slots[j] # Null => toInside.slots[j] \in Mbufs \cap Loose
          /\ toOutside.slots[j] # Null => toOutside.slots[j] \in Mbufs \cap Loose
    BY <1>1, SlotsApartOutside DEF Loose, Buffers
  <2>2. QED
    BY <1>4, <2>1
<1>10. toOutside.slots[cursor] # Null /\ buf[toOutside.slots[cursor]] = p /\ cursor \in SlotIndex
  BY <1>1, <1>6, SlotsApartOutside, OutsideContext, NullAssumption DEF Current
<1>11. SlotsOutside({p}, {r})
  <2>1. ASSUME NEW j \in SlotIndex, toOutside'.slots[j] # Null
        PROVE  \/ /\ j # cursor /\ toOutside'.slots[j] = toOutside.slots[j]
                  /\ buf'[toOutside.slots[j]] = buf[toOutside.slots[j]]
               \/ /\ j = cursor \/ ~(j < toOutside.polled)
                  /\ buf'[toOutside'.slots[j]] \in {p}
    BY <1>1, <1>9, <1>10, <2>1
  <2>2. ASSUME NEW j \in SlotIndex, toInside'.slots[j] # Null
        PROVE  \/ /\ toInside'.slots[j] = toInside.slots[j]
                  /\ buf'[toInside.slots[j]] = buf[toInside.slots[j]]
               \/ buf'[toInside'.slots[j]] \in {r}
    BY <1>5, <1>8, <1>9, <2>2
  <2>3. QED
    BY <2>1, <2>2 DEF SlotsOutside
<1>12. /\ \A x \in {p} : PassedOut(Current(toOutside), x)
       /\ \A x \in {r} : ReleasedIn(Current(toOutside), x)
       /\ toOutside'.polled = toOutside.polled
  BY <1>1, <1>5, <1>6
<1>13. QED
  BY <1>1, <1>11, <1>12, BranchOutside

\* What the treatment of a packet from inside puts into the containers.
LEMMA TreatOutsideFlow ==
  ASSUME IInv, TreatOutside, Current(toOutside) # Opaque
  PROVE  OutsideFlow(Current(toOutside))
<1>1. pc = "treat_out" /\ UNCHANGED pc /\ TreatToOutside
  BY DEF TreatOutside
<1>2. CASE OutSynAckRepeated \/ OutSyn \/ OutRst \/ OutFinAnswer \/ OutFinFirst
           \/ OutFinRepeated \/ OutAckNew \/ OutAckLast \/ OutAckRegular \/ OutUntreated
  <2>1. Tcp(toOutside) /\ NextPacket
    BY <1>2 DEF OutSynAckRepeated, OutSyn, OutRst, OutFinAnswer, OutFinFirst,
      OutFinRepeated, OutAckNew, OutAckLast, OutAckRegular, OutUntreated, Untreated, Tcp
  <2>2. \/ LeaveInPlace
        \/ RewriteSeq /\ Known(toOutside) /\ ~IsSynAck(Flags(toOutside))
    BY <1>2 DEF OutSynAckRepeated, OutSyn, OutRst, OutFinAnswer, OutFinFirst,
      OutFinRepeated, OutAckNew, OutAckLast, OutAckRegular, OutUntreated, Untreated,
      IsSynAck, IsRst, IsFin, IsAck
  <2>3. QED
    BY <1>1, <2>1, <2>2, KeptOutsideFlow
<1>3. CASE OutSynAckUnknown \/ OutRstUnknown \/ OutFinUnknown
  <2>1. Tcp(toOutside) /\ NextPacket
    BY <1>3 DEF OutSynAckUnknown, OutRstUnknown, OutFinUnknown
  <2>2. /\ toOutside' = Vacated(toOutside, cursor) /\ toInside' = toInside
        /\ \A m \in Mbufs : m # Slot(toOutside) => buf'[m] = buf[m]
    BY <1>3 DEF OutSynAckUnknown, OutRstUnknown, OutFinUnknown, DropOutside, IInv, TypeOK
  <2>3. QED
    BY <1>1, <2>1, <2>2, TakenOutsideFlow
<1>4. CASE OutSynAckRelease
  BY <1>1, <1>4, ReleaseFlow
<1>5. CASE OutSynAckNullHeld
  <2>1. /\ Tcp(toOutside) /\ Pending(toOutside)
        /\ UNCHANGED <<buf, toInside, toOutside, cursor, pc>>
    BY <1>1, <1>5 DEF OutSynAckNullHeld, Crash, Tcp
  <2>2. Current(toOutside) \in OutsideWaiting
    <3>1. cursor \in WaitingOutside /\ toOutside.slots[cursor] # Null
      BY <1>1, <2>1, OutsideContext, NullAssumption DEF WaitingOutside, Slot
    <3>2. QED
      BY <3>1 DEF OutsideWaiting, Written, Current, Slot
  <2>3. NothingNew
    <3>1. WaitingInside' = WaitingInside /\ WaitingOutside' = WaitingOutside
      BY <2>1 DEF WaitingInside, WaitingOutside
    <3>2. QED
      BY <2>1, <3>1, WaitingUnchanged
  <2>4. QED
    BY <2>1, <2>2, <2>3 DEF OutsideFlow, NothingNew
<1>6. QED
  BY <1>1, <1>2, <1>3, <1>4, <1>5 DEF TreatToOutside

------------------------------------------------------------------------------
(* The ways of the segments.                                               *)

\* A, B, C and D are what a step adds to the four ways.
Ways(A, B, C, D) ==
  /\ ClientToProxy' \subseteq ClientToProxy \cup A
  /\ ProxyToServer' \subseteq ProxyToServer \cup B
  /\ ServerToProxy' \subseteq ServerToProxy \cup C
  /\ ProxyToClient' \subseteq ProxyToClient \cup D

\* The types of the networks.
Networks ==
  /\ {fromClient, toClient, fromServer, toServer} \subseteq Seq(Segment)
  /\ strays \subseteq {"fromClient", "toClient"} \X Segment

Contained ==
  /\ InsideWaiting \cup InsideDone \subseteq Segment
  /\ OutsideWaiting \cup OutsideDone \subseteq Segment
  /\ HeldFirst \subseteq Segment

\* Each way is the channel, the delayed copies and the slots it goes through.
LEMMA WaysAre ==
  /\ ClientToProxy = Range(fromClient) \cup Strays("fromClient") \cup InsideWaiting
  /\ ProxyToServer = Range(toServer) \cup InsideDone
  /\ ServerToProxy = Range(fromServer) \cup OutsideWaiting
  /\ ProxyToClient = Range(toClient) \cup Strays("toClient") \cup OutsideDone
BY DEF ClientToProxy, ProxyToServer, ServerToProxy, ProxyToClient, InsideWaiting,
  InsideDone, OutsideWaiting, OutsideDone

\* The types, part by part.
LEMMA TypesAre ==
  SessionTypeOK <=>
    /\ client \in Endpoint({"closed", "syn_sent", "established", "reset"})
    /\ server \in Endpoint({"listen", "syn_rcvd", "established", "reset"})
    /\ Networks /\ events \in 0 .. MaxEvents /\ Contained
<1>1. /\ Written(toInside, SlotIndex) = InsideWaiting \cup InsideDone
      /\ Written(toOutside, SlotIndex) = OutsideWaiting \cup OutsideDone
  BY WaitingSlots DEF InsideWaiting, InsideDone, OutsideWaiting, OutsideDone, Written
<1>2. QED
  BY <1>1 DEF SessionTypeOK, Networks, Contained

\* The fields of a segment.
LEMMA SegmentFacts ==
  /\ Segment \subseteq Packet /\ Opaque \notin Segment
  /\ \A p \in Segment : /\ p.conn = Conn /\ p.seq \in Seqs /\ p.ack \in Seqs
                        /\ p.flags \in SUBSET FlagBits
BY OpaqueAssumption, PacketFields DEF Segment

\* Every segment on a way has the type of a segment.
LEMMA WaysTyped ==
  ASSUME SessionTypeOK
  PROVE  ClientToProxy \cup ProxyToServer \cup ServerToProxy \cup ProxyToClient
           \subseteq Segment
<1>1. Networks /\ Contained
  BY TypesAre
<1>2. \A x \in {fromClient, toClient, fromServer, toServer} : Range(x) \subseteq Segment
  BY <1>1 DEF Networks, Range
<1>3. Strays("fromClient") \subseteq Segment /\ Strays("toClient") \subseteq Segment
  BY <1>1 DEF Networks, Strays
<1>4. QED
  BY <1>1, <1>2, <1>3, WaysAre DEF Contained

\* What the operators on sequences do to the elements.
LEMMA SequenceRanges ==
  ASSUME NEW S, NEW s \in Seq(S)
  PROVE  /\ Range(s) \subseteq S
         /\ s # <<>> => /\ Head(s) \in S /\ Head(s) \in Range(s)
                        /\ Tail(s) \in Seq(S) /\ Range(Tail(s)) \subseteq Range(s)
<1>1. Range(s) \subseteq S
  BY DEF Range
<1>2. CASE s # <<>>
  <2>1. /\ Len(s) \in Nat /\ Len(s) > 0 /\ DOMAIN s = 1 .. Len(s)
        /\ Tail(s) \in Seq(S) /\ DOMAIN Tail(s) = 1 .. Len(s) - 1
        /\ \A j \in 1 .. Len(s) - 1 : Tail(s)[j] = s[j + 1] /\ j + 1 \in 1 .. Len(s)
    BY <1>2
  <2>2. Head(s) = s[1] /\ 1 \in 1 .. Len(s)
    BY <2>1
  <2>3. QED
    BY <1>1, <2>1, <2>2 DEF Range
<1>3. QED
  BY <1>1, <1>2

\* The same for a concatenation.
LEMMA ConcatenationRange ==
  ASSUME NEW S, NEW s \in Seq(S), NEW Q, NEW t \in Seq(Q), Q \subseteq S
  PROVE  s \o t \in Seq(S) /\ Range(s \o t) \subseteq Range(s) \cup Q
<1>1. s \o t \in Seq(S) /\ Len(s) \in Nat /\ Len(t) \in Nat
  OBVIOUS
<1>2. DOMAIN (s \o t) = 1 .. Len(s) + Len(t)
  BY <1>1
<1>3. ASSUME NEW j \in 1 .. Len(s) + Len(t) PROVE (s \o t)[j] \in Range(s) \cup Q
  <2>1. CASE j \in 1 .. Len(s)
    BY <2>1 DEF Range
  <2>2. CASE j \notin 1 .. Len(s)
    <3>1. j - Len(s) \in 1 .. Len(t) /\ (s \o t)[j] = t[j - Len(s)]
      BY <1>1, <1>3, <2>2
    <3>2. QED
      BY <3>1
  <2>3. QED
    BY <2>1, <2>2
<1>4. QED
  BY <1>1, <1>2, <1>3 DEF Range

\* The same for a single element.
LEMMA SingleRange ==
  ASSUME NEW S, NEW x \in S
  PROVE  /\ <<x>> \in Seq({x}) /\ <<x>> \in Seq(S) /\ Range(<<x>>) = {x}
         /\ \A s \in Seq(S) : Append(s, x) = s \o <<x>>
         /\ <<>> \in Seq({}) /\ <<>> \in Seq(S)
<1>1. <<x>> \in Seq({x}) /\ <<x>> \in Seq(S) /\ Range(<<x>>) = {x}
  BY DEF Range
<1>2. ASSUME NEW s \in Seq(S) PROVE Append(s, x) = s \o <<x>>
  OBVIOUS
<1>3. QED
  BY <1>1, <1>2

------------------------------------------------------------------------------
(* The segments that the endpoints send.                                   *)

\* What is assumed of the constants.
LEMMA SessionConstants ==
  /\ Conn \in Conns /\ ClientIss \in Seqs /\ ServerIss \in Seqs
  /\ ClientIss \in Int /\ ServerIss \in Int /\ MaxEvents \in Nat
BY SessionAssumption, SeqArithmetic

\* The fields of an endpoint.
Peer(e) ==
  /\ e.snd \in 0 .. 3 /\ e.una \in 0 .. 3 /\ e.irs \in Seqs /\ e.rcv \in Nat
  /\ e.irs \in Int /\ e.snd \in Int /\ e.una \in Int /\ e.rcv \in Int

\* An endpoint has these fields.
LEMMA EndpointIsPeer ==
  ASSUME NEW states, NEW e \in Endpoint(states)
  PROVE  Peer(e) /\ e.st \in states
<1>1. /\ e.snd \in 0 .. 3 /\ e.una \in 0 .. 3 /\ e.irs \in Seqs /\ e.rcv \in Nat
      /\ e.st \in states
  BY DEF Endpoint
<1>2. e.irs \in Int /\ e.snd \in Int /\ e.una \in Int /\ e.rcv \in Int
  <2>1. e.snd \in Int /\ e.una \in Int /\ e.rcv \in Int
    BY <1>1
  <2>2. QED
    BY <1>1, <2>1, SeqArithmetic
<1>3. QED
  BY <1>1, <1>2 DEF Peer

\* The updates of the code keep an endpoint an endpoint.
LEMMA EndpointUpdates ==
  ASSUME NEW states, NEW e \in Endpoint(states)
  PROVE  /\ \A s \in states, n \in 0 .. 3 :
              [e EXCEPT !.st = s, !.snd = n] \in Endpoint(states)
         /\ \A n \in 0 .. 3 : [e EXCEPT !.snd = n] \in Endpoint(states)
         /\ \A s \in states : [e EXCEPT !.st = s] \in Endpoint(states)
         /\ \A n \in 0 .. 3, r \in Nat :
              [e EXCEPT !.una = n, !.rcv = r] \in Endpoint(states)
         /\ \A s \in states, n \in 0 .. 3 :
              [e EXCEPT !.st = s, !.una = n] \in Endpoint(states)
         /\ \A s \in states, n \in 0 .. 3, q \in Seqs, r \in Nat :
              [e EXCEPT !.st = s, !.una = n, !.irs = q, !.rcv = r] \in Endpoint(states)
BY DEF Endpoint

\* What an endpoint numbers is a segment.
LEMMA NumberedIsSegment ==
  ASSUME NEW e, Peer(e), NEW iss \in Seqs, NEW flags \in SUBSET FlagBits, NEW n \in Int
  PROVE  /\ Numbered(e, iss, flags, n) \in Segment
         /\ Numbered(e, iss, flags, n).flags = flags
         /\ Numbered(e, iss, flags, n).seq = SeqAdd(iss, n)
         /\ "ACK" \in flags => Numbered(e, iss, flags, n).ack = SeqAdd(e.irs, e.rcv)
<1>1. SeqAdd(iss, n) \in Seqs
  BY SeqArithmetic
<1>2. (IF "ACK" \in flags THEN SeqAdd(e.irs, e.rcv) ELSE 0) \in Seqs
  BY SeqArithmetic DEF Peer
<1>3. QED
  BY <1>1, <1>2, SessionConstants DEF Numbered, Segment, Packet

\* So is a pure ACK.
LEMMA PureIsSegment ==
  ASSUME NEW e, Peer(e), NEW iss \in Seqs
  PROVE  /\ Pure(e, iss) \in Segment /\ Pure(e, iss).flags = {"ACK"}
         /\ Pure(e, iss).seq = SeqAdd(iss, e.snd)
         /\ Pure(e, iss).ack = SeqAdd(e.irs, e.rcv)
<1>1. {"ACK"} \in SUBSET FlagBits /\ "ACK" \in {"ACK"} /\ e.snd \in Int
  BY DEF FlagBits, Peer
<1>2. QED
  BY <1>1, NumberedIsSegment DEF Pure

\* So is a refusal.
LEMMA RefusalIsSegment ==
  ASSUME NEW p \in Segment
  PROVE  /\ Refusal(p) \in Segment /\ Refusal(p).flags = {"RST"}
         /\ Refusal(p).seq = p.ack
BY SegmentFacts, SessionConstants, SeqArithmetic DEF Refusal, Segment, Packet, FlagBits

\* What a unit of the stream carries.
UnitFlags(e, n) ==
  CASE n = 0 -> IF e.st = "syn_sent" THEN {"SYN"} ELSE {"SYN", "ACK"}
    [] n = 1 -> {"PSH", "ACK"}
    [] n = 2 -> {"FIN", "ACK"}

\* So is a unit.
LEMMA UnitIsSegment ==
  ASSUME NEW e, Peer(e), NEW iss \in Seqs, NEW n \in 0 .. 2
  PROVE  /\ Unit(e, iss, n) \in Segment
         /\ Unit(e, iss, n).flags = UnitFlags(e, n)
         /\ Unit(e, iss, n).seq = SeqAdd(iss, n)
         /\ "ACK" \in UnitFlags(e, n) => Unit(e, iss, n).ack = SeqAdd(e.irs, e.rcv)
<1>1. UnitFlags(e, n) \in SUBSET FlagBits /\ n \in Int
  BY DEF UnitFlags, FlagBits
<1>2. QED
  BY <1>1, NumberedIsSegment DEF Unit, UnitFlags

\* An endpoint that advances stays an endpoint.
LEMMA AdvancedIsEndpoint ==
  ASSUME NEW states, NEW e \in Endpoint(states), NEW iss \in Seqs, NEW p, "reset" \in states
  PROVE  /\ Advanced(e, iss, p) \in Endpoint(states)
         /\ Advanced(e, iss, p).snd = e.snd /\ Advanced(e, iss, p).irs = e.irs
         /\ Advanced(e, iss, p).st \in {e.st, "reset"}
<1>0. Peer(e) /\ e.st \in states
  BY EndpointIsPeer
<1>1. CASE ~Acknowledges(p, e, iss)
  <2>1. PICK s \in {e.st, "reset"} : Advanced(e, iss, p) = [e EXCEPT !.st = s]
    BY <1>1 DEF Advanced
  <2>2. [e EXCEPT !.st = s] \in Endpoint(states)
    BY <1>0, <2>1, EndpointUpdates
  <2>3. [e EXCEPT !.st = s].snd = e.snd /\ [e EXCEPT !.st = s].irs = e.irs
        /\ [e EXCEPT !.st = s].st = s
    BY DEF Endpoint
  <2>4. QED
    BY <2>1, <2>2, <2>3
<1>2. CASE Acknowledges(p, e, iss)
  <2>1. AckNo(p, iss) \in 0 .. 3
    BY <1>0, <1>2 DEF Acknowledges, Peer
  <2>2. PICK n \in 0 .. 3, r \in Nat : Advanced(e, iss, p) = [e EXCEPT !.una = n, !.rcv = r]
    <3>1. PICK n \in 0 .. 3 : n = IF AckNo(p, iss) > e.una THEN AckNo(p, iss) ELSE e.una
      BY <1>0, <2>1 DEF Peer
    <3>2. PICK r \in Nat : r = IF Carries(p) /\ SeqNo(p, e) = e.rcv THEN e.rcv + 1 ELSE e.rcv
      BY <1>0 DEF Peer
    <3>3. Advanced(e, iss, p) = [e EXCEPT !.una = n, !.rcv = r]
      BY <1>2, <3>1, <3>2 DEF Advanced
    <3>4. QED
      BY <3>3
  <2>3. [e EXCEPT !.una = n, !.rcv = r] \in Endpoint(states)
    BY <1>0, EndpointUpdates
  <2>4. /\ [e EXCEPT !.una = n, !.rcv = r].snd = e.snd
        /\ [e EXCEPT !.una = n, !.rcv = r].irs = e.irs
        /\ [e EXCEPT !.una = n, !.rcv = r].st = e.st
    BY DEF Endpoint
  <2>5. QED
    BY <2>2, <2>3, <2>4
<1>3. QED
  BY <1>1, <1>2

------------------------------------------------------------------------------
(* What the steps of the session send.                                     *)

\* The steps that touch no container: what they add to each network.
OnNetworks(A, B, C, D) ==
  /\ UNCHANGED vars
  /\ Range(fromClient') \subseteq Range(fromClient) \cup A
  /\ Range(toServer') \subseteq Range(toServer) \cup B
  /\ Range(fromServer') \subseteq Range(fromServer) \cup C
  /\ Range(toClient') \subseteq Range(toClient) \cup D

\* What is added to the networks is added to the ways.
LEMMA NetworkWays ==
  ASSUME IInv, UNCHANGED strays, NEW A, NEW B, NEW C, NEW D, OnNetworks(A, B, C, D)
  PROVE  Ways(A, B, C, D)
<1>1. NothingNew
  BY QuietFlow DEF OnNetworks
<1>2. /\ Strays("fromClient")' = Strays("fromClient")
      /\ Strays("toClient")' = Strays("toClient")
  BY DEF Strays
<1>3. /\ ClientToProxy' = Range(fromClient') \cup Strays("fromClient")' \cup InsideWaiting'
      /\ ProxyToServer' = Range(toServer') \cup InsideDone'
      /\ ServerToProxy' = Range(fromServer') \cup OutsideWaiting'
      /\ ProxyToClient' = Range(toClient') \cup Strays("toClient")' \cup OutsideDone'
  BY DEF ClientToProxy, ProxyToServer, ServerToProxy, ProxyToClient, InsideWaiting,
    InsideDone, OutsideWaiting, OutsideDone
<1>4. QED
  BY <1>1, <1>2, <1>3, WaysAre DEF OnNetworks, NothingNew, Ways

\* The steps of the client, and what they send.
ClientDoes(Q) ==
  \/ /\ client.st = "closed" /\ client' = [client EXCEPT !.st = "syn_sent", !.snd = 1]
     /\ Q = {Unit(client', ClientIss, 0)}
  \/ /\ Ready(client) /\ client' = [client EXCEPT !.snd = @ + 1]
     /\ Q = {Unit(client, ClientIss, client.snd)}
  \/ /\ client.st = "syn_sent"
     /\ \E p \in ProxyToClient :
          /\ Acknowledges(p, client, ClientIss) /\ IsSynAck(p.flags)
          /\ client' = [client EXCEPT !.st = "established", !.una = 1, !.irs = p.seq, !.rcv = 1]
     /\ Q = {Pure(client', ClientIss)}
  \/ /\ client.st = "syn_sent" /\ client' = client
     /\ \E p \in ProxyToClient :
          /\ ~Acknowledges(p, client, ClientIss) /\ (IsAck(p.flags) \/ IsSynAck(p.flags))
          /\ Q = {Refusal(p)}
  \/ client' = client /\ Q = {}
  \/ /\ client.st = "established"
     /\ \E p \in ProxyToClient : client' = Advanced(client, ClientIss, p)
     /\ Q \subseteq {Pure(client', ClientIss)}

ClientStates == {"closed", "syn_sent", "established", "reset"}
ClientEndpoints == Endpoint(ClientStates)

\* The client stays an endpoint and sends segments.
LEMMA ClientTypes ==
  ASSUME SessionTypeOK, NEW Q, ClientDoes(Q)
  PROVE  client' \in ClientEndpoints /\ Q \subseteq Segment
<1>1. client \in ClientEndpoints /\ Peer(client)
  BY EndpointIsPeer DEF SessionTypeOK, ClientEndpoints, ClientStates
<1> "syn_sent" \in ClientStates /\ "established" \in ClientStates /\ "reset" \in ClientStates
  BY DEF ClientStates
<1>2. ClientIss \in Seqs
  BY SessionConstants
<1>3. \A p \in ProxyToClient : p \in Segment
  BY WaysTyped
<1>4. CASE client.st = "closed" /\ client' = [client EXCEPT !.st = "syn_sent", !.snd = 1]
           /\ Q = {Unit(client', ClientIss, 0)}
  <2>1. client' \in ClientEndpoints
    <3>1. PICK s \in ClientStates, n \in 0 .. 3 : s = "syn_sent" /\ n = 1
      OBVIOUS
    <3>2. [client EXCEPT !.st = s, !.snd = n] \in ClientEndpoints
      BY <1>1, EndpointUpdates DEF ClientEndpoints
    <3>3. QED
      BY <1>4, <3>1, <3>2
  <2>2. Peer(client') /\ 0 \in 0 .. 2
    BY <2>1, EndpointIsPeer DEF ClientEndpoints
  <2>3. QED
    BY <1>2, <1>4, <2>1, <2>2, UnitIsSegment
<1>5. CASE Ready(client) /\ client' = [client EXCEPT !.snd = @ + 1]
           /\ Q = {Unit(client, ClientIss, client.snd)}
  <2>1. client.snd \in 0 .. 2
    BY <1>1, <1>5 DEF Ready, Peer
  <2>2. client' \in ClientEndpoints
    <3>1. client.snd + 1 \in 0 .. 3
      BY <2>1
    <3>2. QED
      BY <1>1, <1>5, <3>1, EndpointUpdates DEF ClientEndpoints
  <2>3. QED
    BY <1>1, <1>2, <1>5, <2>1, <2>2, UnitIsSegment
<1>6. ASSUME NEW p \in ProxyToClient, Q = {Pure(client', ClientIss)},
             client' = [client EXCEPT !.st = "established", !.una = 1, !.irs = p.seq, !.rcv = 1]
      PROVE  client' \in ClientEndpoints /\ Q \subseteq Segment
  <2>1. p.seq \in Seqs
    BY <1>3, <1>6, SegmentFacts
  <2>2. client' \in ClientEndpoints
    <3>1. PICK s \in ClientStates, n \in 0 .. 3, r \in Nat : s = "established" /\ n = 1 /\ r = 1
      OBVIOUS
    <3>2. [client EXCEPT !.st = s, !.una = n, !.irs = p.seq, !.rcv = r] \in ClientEndpoints
      BY <1>1, <2>1, EndpointUpdates DEF ClientEndpoints
    <3>3. QED
      BY <1>6, <3>1, <3>2
  <2>3. QED
    BY <1>2, <1>6, <2>2, EndpointIsPeer, PureIsSegment DEF ClientEndpoints
<1>7. ASSUME client' = client, Q = {} \/ \E p \in ProxyToClient : Q = {Refusal(p)}
      PROVE  client' \in ClientEndpoints /\ Q \subseteq Segment
  BY <1>1, <1>3, <1>7, RefusalIsSegment
<1>8. ASSUME NEW p \in ProxyToClient, client' = Advanced(client, ClientIss, p),
             Q \subseteq {Pure(client', ClientIss)}
      PROVE  client' \in ClientEndpoints /\ Q \subseteq Segment
  <2>1. client' \in ClientEndpoints
    BY <1>1, <1>2, <1>8, AdvancedIsEndpoint DEF ClientEndpoints
  <2>2. QED
    BY <1>2, <1>8, <2>1, EndpointIsPeer, PureIsSegment DEF ClientEndpoints
<1>9. QED
  BY <1>4, <1>5, <1>6, <1>7, <1>8 DEF ClientDoes

\* A host takes the first segment of its channel and appends an answer.
LEMMA TakesFirst ==
  ASSUME NEW S, NEW s \in Seq(S), s # <<>>, NEW t \in Seq(S), NEW Q, NEW a \in Seq(Q),
         Q \subseteq S
  PROVE  /\ Head(s) \in Range(s) /\ Head(s) \in S
         /\ Tail(s) \in Seq(S) /\ Range(Tail(s)) \subseteq Range(s)
         /\ t \o a \in Seq(S) /\ Range(t \o a) \subseteq Range(t) \cup Q
<1>1. /\ Head(s) \in Range(s) /\ Head(s) \in S
      /\ Tail(s) \in Seq(S) /\ Range(Tail(s)) \subseteq Range(s)
  BY SequenceRanges
<1>2. t \o a \in Seq(S) /\ Range(t \o a) \subseteq Range(t) \cup Q
  BY ConcatenationRange
<1>3. QED
  BY <1>1, <1>2

\* What the client takes leaves its way, what it answers goes on the other.
LEMMA ClientTakesWays ==
  ASSUME IInv, SessionTypeOK, toClient # <<>>, NEW Q, Q \subseteq Segment,
         NEW answer \in Seq(Q), NEW e, ClientTakes(e, answer)
  PROVE  Ways(Q, {}, {}, {}) /\ Networks'
<1>1. Networks
  BY TypesAre
<1>2. /\ Tail(toClient) \in Seq(Segment) /\ Range(Tail(toClient)) \subseteq Range(toClient)
      /\ fromClient \o answer \in Seq(Segment)
      /\ Range(fromClient \o answer) \subseteq Range(fromClient) \cup Q
  <2>1. toClient \in Seq(Segment) /\ fromClient \in Seq(Segment)
    BY <1>1 DEF Networks
  <2>2. QED
    BY <2>1, TakesFirst
<1>3. OnNetworks(Q, {}, {}, {}) /\ UNCHANGED <<strays, fromServer, toServer>>
  BY <1>2 DEF ClientTakes, OnNetworks
<1>4. Networks'
  BY <1>1, <1>2, <1>3 DEF ClientTakes, Networks
<1>5. QED
  BY <1>3, <1>4, NetworkWays

\* One segment, or none, is sent.
LEMMA SentTypes ==
  ASSUME NEW x \in Segment
  PROVE  <<x>> \in Seq({x}) /\ {x} \subseteq Segment /\ <<>> \in Seq({})
BY SingleRange

\* What the client takes was on its way to it.
LEMMA ClientTaking ==
  ASSUME SessionTypeOK, toClient # <<>>
  PROVE  Head(toClient) \in ProxyToClient /\ Head(toClient) \in Segment
<1>1. toClient \in Seq(Segment)
  BY TypesAre DEF Networks
<1>2. QED
  BY <1>1, SequenceRanges, WaysAre

\* What the client does it puts on its way to the proxy.
ClientSays == \E Q : ClientDoes(Q) /\ Ways(Q, {}, {}, {}) /\ Networks'

\* The four actions of the client, one by one.
LEMMA ConnectSays ==
  ASSUME IInv, SessionTypeOK, Connect
  PROVE  ClientSays
<1> DEFINE x == Unit(client', ClientIss, 0)
<1>1. ClientDoes({x})
  BY DEF Connect, ClientDoes
<1>2. x \in Segment
  BY <1>1, ClientTypes
<1> HIDE DEF x
<1>3. Range(fromClient') = {x} /\ fromClient' \in Seq(Segment)
  BY <1>2, SingleRange DEF Connect, x
<1>4. OnNetworks({x}, {}, {}, {}) /\ UNCHANGED <<strays, toClient, fromServer, toServer>>
  BY <1>3 DEF OnNetworks, Connect
<1>5. Ways({x}, {}, {}, {})
  BY <1>4, NetworkWays
<1>6. Networks'
  BY <1>3, <1>4, TypesAre DEF Networks
<1>7. QED
  BY <1>1, <1>5, <1>6 DEF ClientSays

\* A unit.
LEMMA ClientSendsSays ==
  ASSUME IInv, SessionTypeOK, ClientSends
  PROVE  ClientSays
<1> DEFINE x == Unit(client, ClientIss, client.snd)
<1>1. ClientDoes({x})
  BY DEF ClientSends, ClientDoes
<1>2. x \in Segment
  BY <1>1, ClientTypes
<1> HIDE DEF x
<1>3. fromClient' \in Seq(Segment) /\ Range(fromClient') \subseteq Range(fromClient) \cup {x}
  <2>1. fromClient \in Seq(Segment)
    BY TypesAre DEF Networks
  <2>2. <<x>> \in Seq({x}) /\ fromClient' = fromClient \o <<x>> /\ {x} \subseteq Segment
    BY <1>2, <2>1, SingleRange DEF ClientSends, x
  <2>3. fromClient \o <<x>> \in Seq(Segment)
        /\ Range(fromClient \o <<x>>) \subseteq Range(fromClient) \cup {x}
    BY <2>1, <2>2, ConcatenationRange
  <2>4. QED
    BY <2>2, <2>3
<1>4. OnNetworks({x}, {}, {}, {}) /\ UNCHANGED <<strays, toClient, fromServer, toServer>>
  BY <1>3 DEF OnNetworks, ClientSends
<1>5. Ways({x}, {}, {}, {})
  BY <1>4, NetworkWays
<1>6. Networks'
  BY <1>3, <1>4, TypesAre DEF Networks
<1>7. QED
  BY <1>1, <1>5, <1>6 DEF ClientSays

\* The answer to a SYN-ACK.
LEMMA ClientOpensSays ==
  ASSUME IInv, SessionTypeOK, ClientOpens
  PROVE  ClientSays
<1> DEFINE p == Head(toClient)
           e == [client EXCEPT !.st = "established", !.una = 1, !.irs = p.seq, !.rcv = 1]
<1>1. /\ p \in ProxyToClient /\ p \in Segment /\ toClient # <<>>
      /\ client.st = "syn_sent"
  BY ClientTaking DEF ClientOpens
<1>2. CASE ClientTakes(client, <<>>)
  <2>1. ClientDoes({})
    BY <1>2 DEF ClientDoes, ClientTakes
  <2>2. <<>> \in Seq({})
    BY <1>1, SentTypes
  <2>3. QED
    BY <1>1, <1>2, <2>1, <2>2, ClientTakesWays DEF ClientSays
<1>3. CASE /\ Acknowledges(p, client, ClientIss) /\ IsSynAck(p.flags)
           /\ ClientTakes(e, <<Pure(e, ClientIss)>>)
  <2> DEFINE x == Pure(client', ClientIss)
  <2>1. ClientDoes({x}) /\ ClientTakes(e, <<x>>)
    BY <1>1, <1>3 DEF ClientDoes, ClientTakes
  <2>2. x \in Segment
    BY <2>1, ClientTypes
  <2> HIDE DEF x, e
  <2>3. QED
    BY <1>1, <2>1, <2>2, SentTypes, ClientTakesWays DEF ClientSays
<1>4. CASE /\ ~Acknowledges(p, client, ClientIss) /\ (IsAck(p.flags) \/ IsSynAck(p.flags))
           /\ ClientTakes(client, <<Refusal(p)>>)
  <2> DEFINE x == Refusal(p)
  <2>1. ClientDoes({x})
    BY <1>1, <1>4 DEF ClientDoes, ClientTakes
  <2>2. x \in Segment
    BY <2>1, ClientTypes
  <2> HIDE DEF x
  <2>3. QED
    BY <1>1, <1>4, <2>1, <2>2, SentTypes, ClientTakesWays DEF ClientSays, x
<1>5. QED
  BY <1>2, <1>3, <1>4 DEF ClientOpens

\* The answer to a later segment.
LEMMA ClientReceivesSays ==
  ASSUME IInv, SessionTypeOK, ClientReceives
  PROVE  ClientSays
<1> DEFINE p == Head(toClient)
           e == Advanced(client, ClientIss, p)
           x == Pure(client', ClientIss)
<1>1. /\ p \in ProxyToClient /\ p \in Segment /\ toClient # <<>>
      /\ client.st = "established"
  BY ClientTaking DEF ClientReceives
<1>2. PICK answer \in {<<>>, <<x>>} : ClientTakes(e, answer)
  BY DEF ClientReceives, ClientTakes
<1>3. client' = e
  BY <1>2 DEF ClientTakes
<1>4. ClientDoes({x}) /\ ClientDoes({})
  BY <1>1, <1>3 DEF ClientDoes
<1>5. x \in Segment
  BY <1>4, ClientTypes
<1> HIDE DEF x, e, p
<1>6. CASE answer = <<>>
  BY <1>1, <1>2, <1>4, <1>5, <1>6, SentTypes, ClientTakesWays DEF ClientSays
<1>7. CASE answer = <<x>>
  BY <1>1, <1>2, <1>4, <1>5, <1>7, SentTypes, ClientTakesWays DEF ClientSays
<1>8. QED
  BY <1>6, <1>7

\* Every action of the client.
LEMMA ClientSpeaks ==
  ASSUME IInv, SessionTypeOK, Client
  PROVE  ClientSays /\ UNCHANGED <<vars, server, events>>
<1>1. ClientSays
  BY ConnectSays, ClientSendsSays, ClientOpensSays, ClientReceivesSays DEF Client
<1>2. UNCHANGED <<vars, server, events>>
  BY DEF Client, Connect, ClientSends, ClientOpens, ClientReceives, ClientTakes
<1>3. QED
  BY <1>1, <1>2

ServerDoes(Q) ==
  \/ server' = server /\ Q = {}
  \/ /\ Ready(server) /\ server' = [server EXCEPT !.snd = @ + 1]
     /\ Q = {Unit(server, ServerIss, server.snd)}
  \/ /\ server.st = "listen"
     /\ \E p \in ProxyToServer :
          /\ IsSyn(p.flags)
          /\ server' = [st |-> "syn_rcvd", snd |-> 1, una |-> 0, irs |-> p.seq, rcv |-> 1]
     /\ Q = {Unit(server', ServerIss, 0)}
  \/ /\ server.st \in {"listen", "syn_rcvd"} /\ server' = server
     /\ \E p \in ProxyToServer : Q = {Refusal(p)}
  \/ /\ server.st = "syn_rcvd" /\ server' = Fresh("listen")
     /\ \E p \in ProxyToServer : "RST" \in p.flags /\ SeqNo(p, server) = 1
     /\ Q = {}
  \/ /\ server.st = "syn_rcvd" /\ server' = server
     /\ Q = {Unit(server, ServerIss, 0)}
  \/ /\ server.st = "syn_rcvd"
     /\ \E p \in ProxyToServer :
          /\ "RST" \notin p.flags /\ Acknowledges(p, server, ServerIss)
          /\ server' = Advanced([server EXCEPT !.st = "established", !.una = 1], ServerIss, p)
     /\ Q \subseteq {Pure(server', ServerIss)}
  \/ /\ server.st = "established"
     /\ \E p \in ProxyToServer : server' = Advanced(server, ServerIss, p)
     /\ Q \subseteq {Pure(server', ServerIss)}

ServerStates == {"listen", "syn_rcvd", "established", "reset"}
ServerEndpoints == Endpoint(ServerStates)

\* The server stays an endpoint and sends segments.
LEMMA ServerTypes ==
  ASSUME SessionTypeOK, NEW Q, ServerDoes(Q)
  PROVE  server' \in ServerEndpoints /\ Q \subseteq Segment
<1>1. server \in ServerEndpoints /\ Peer(server)
  BY EndpointIsPeer DEF SessionTypeOK, ServerEndpoints, ServerStates
<1> /\ "listen" \in ServerStates /\ "syn_rcvd" \in ServerStates
    /\ "established" \in ServerStates /\ "reset" \in ServerStates
  BY DEF ServerStates
<1>2. ServerIss \in Seqs
  BY SessionConstants
<1>3. \A p \in ProxyToServer : p \in Segment
  BY WaysTyped
<1>4. CASE Ready(server) /\ server' = [server EXCEPT !.snd = @ + 1]
           /\ Q = {Unit(server, ServerIss, server.snd)}
  <2>1. server.snd \in 0 .. 2
    BY <1>1, <1>4 DEF Ready, Peer
  <2>2. server' \in ServerEndpoints
    <3>1. server.snd + 1 \in 0 .. 3
      BY <2>1
    <3>2. QED
      BY <1>1, <1>4, <3>1, EndpointUpdates DEF ServerEndpoints
  <2>3. QED
    BY <1>1, <1>2, <1>4, <2>1, <2>2, UnitIsSegment
<1>5. ASSUME NEW p \in ProxyToServer, Q = {Unit(server', ServerIss, 0)},
             server' = [st |-> "syn_rcvd", snd |-> 1, una |-> 0, irs |-> p.seq, rcv |-> 1]
      PROVE  server' \in ServerEndpoints /\ Q \subseteq Segment
  <2>1. p.seq \in Seqs
    BY <1>3, <1>5, SegmentFacts
  <2>2. server' \in ServerEndpoints
    BY <1>5, <2>1 DEF ServerEndpoints, Endpoint
  <2>3. Peer(server') /\ 0 \in 0 .. 2
    BY <2>2, EndpointIsPeer DEF ServerEndpoints
  <2>4. QED
    BY <1>2, <1>5, <2>2, <2>3, UnitIsSegment
<1>6. ASSUME server' = server, Q = {} \/ \E p \in ProxyToServer : Q = {Refusal(p)}
      PROVE  server' \in ServerEndpoints /\ Q \subseteq Segment
  BY <1>1, <1>3, <1>6, RefusalIsSegment
<1>7. ASSUME server' = Fresh("listen"), Q = {}
      PROVE  server' \in ServerEndpoints /\ Q \subseteq Segment
  BY <1>7, SeqArithmetic DEF Fresh, ServerEndpoints, Endpoint
<1>8. ASSUME server' = server, Q = {Unit(server, ServerIss, 0)}
      PROVE  server' \in ServerEndpoints /\ Q \subseteq Segment
  BY <1>1, <1>2, <1>8, UnitIsSegment
<1>9. ASSUME NEW p \in ProxyToServer, NEW e \in ServerEndpoints,
             server' = Advanced(e, ServerIss, p), Q \subseteq {Pure(server', ServerIss)}
      PROVE  server' \in ServerEndpoints /\ Q \subseteq Segment
  <2>1. server' \in ServerEndpoints
    BY <1>2, <1>9, AdvancedIsEndpoint DEF ServerEndpoints
  <2>2. QED
    BY <1>2, <1>9, <2>1, EndpointIsPeer, PureIsSegment DEF ServerEndpoints
<1>10. [server EXCEPT !.st = "established", !.una = 1] \in ServerEndpoints
  <2>1. PICK s \in ServerStates, n \in 0 .. 3 : s = "established" /\ n = 1
    OBVIOUS
  <2>2. [server EXCEPT !.st = s, !.una = n] \in ServerEndpoints
    BY <1>1, EndpointUpdates DEF ServerEndpoints
  <2>3. QED
    BY <2>1, <2>2
<1>11. QED
  BY <1>1, <1>4, <1>5, <1>6, <1>7, <1>8, <1>9, <1>10 DEF ServerDoes

\* What the server takes leaves its way, what it answers goes on the other.
LEMMA ServerTakesWays ==
  ASSUME IInv, SessionTypeOK, toServer # <<>>, NEW Q, Q \subseteq Segment,
         NEW answer \in Seq(Q), NEW e, ServerTakes(e, answer)
  PROVE  Ways({}, {}, Q, {}) /\ Networks'
<1>1. Networks
  BY TypesAre
<1>2. /\ Tail(toServer) \in Seq(Segment) /\ Range(Tail(toServer)) \subseteq Range(toServer)
      /\ fromServer \o answer \in Seq(Segment)
      /\ Range(fromServer \o answer) \subseteq Range(fromServer) \cup Q
  <2>1. toServer \in Seq(Segment) /\ fromServer \in Seq(Segment)
    BY <1>1 DEF Networks
  <2>2. QED
    BY <2>1, TakesFirst
<1>3. OnNetworks({}, {}, Q, {}) /\ UNCHANGED <<strays, fromClient, toClient>>
  BY <1>2 DEF ServerTakes, OnNetworks
<1>4. Networks'
  BY <1>1, <1>2, <1>3 DEF ServerTakes, Networks
<1>5. QED
  BY <1>3, <1>4, NetworkWays

\* What the server takes was on its way to it.
LEMMA ServerTaking ==
  ASSUME SessionTypeOK, toServer # <<>>
  PROVE  Head(toServer) \in ProxyToServer /\ Head(toServer) \in Segment
<1>1. toServer \in Seq(Segment)
  BY TypesAre DEF Networks
<1>2. QED
  BY <1>1, SequenceRanges, WaysAre

\* What the server does it puts on its way to the proxy.
ServerSays == \E Q : ServerDoes(Q) /\ Ways({}, {}, Q, {}) /\ Networks'

\* The server takes a segment and answers it.
LEMMA ServerAnswers ==
  ASSUME IInv, SessionTypeOK, toServer # <<>>, NEW e, NEW x, ServerDoes({x}),
         ServerTakes(e, <<x>>)
  PROVE  ServerSays
<1>1. x \in Segment
  BY ServerTypes
<1>2. <<x>> \in Seq({x}) /\ {x} \subseteq Segment
  BY <1>1, SentTypes
<1>3. Ways({}, {}, {x}, {}) /\ Networks'
  BY <1>2, ServerTakesWays
<1>4. QED
  BY <1>3 DEF ServerSays

\* The server takes a segment and keeps silent.
LEMMA ServerSilent ==
  ASSUME IInv, SessionTypeOK, toServer # <<>>, NEW e, ServerDoes({}),
         ServerTakes(e, <<>>)
  PROVE  ServerSays
<1>1. <<>> \in Seq({}) /\ {} \subseteq Segment
  OBVIOUS
<1>2. Ways({}, {}, {}, {}) /\ Networks'
  BY <1>1, ServerTakesWays
<1>3. QED
  BY <1>2 DEF ServerSays

\* The four actions of the server, one by one.
LEMMA ServerSendsSays ==
  ASSUME IInv, SessionTypeOK, ServerSends
  PROVE  ServerSays
<1> DEFINE x == Unit(server, ServerIss, server.snd)
<1>1. ServerDoes({x})
  BY DEF ServerSends, ServerDoes
<1>2. x \in Segment
  BY <1>1, ServerTypes
<1> HIDE DEF x
<1>3. fromServer' \in Seq(Segment) /\ Range(fromServer') \subseteq Range(fromServer) \cup {x}
  <2>1. fromServer \in Seq(Segment)
    BY TypesAre DEF Networks
  <2>2. <<x>> \in Seq({x}) /\ fromServer' = fromServer \o <<x>> /\ {x} \subseteq Segment
    BY <1>2, <2>1, SingleRange DEF ServerSends, x
  <2>3. fromServer \o <<x>> \in Seq(Segment)
        /\ Range(fromServer \o <<x>>) \subseteq Range(fromServer) \cup {x}
    BY <2>1, <2>2, ConcatenationRange
  <2>4. QED
    BY <2>2, <2>3
<1>4. OnNetworks({}, {}, {x}, {}) /\ UNCHANGED <<strays, toClient, fromClient, toServer>>
  BY <1>3 DEF OnNetworks, ServerSends
<1>5. Ways({}, {}, {x}, {})
  BY <1>4, NetworkWays
<1>6. Networks'
  BY <1>3, <1>4, TypesAre DEF Networks
<1>7. QED
  BY <1>1, <1>5, <1>6 DEF ServerSays

\* The answer to a SYN.
LEMMA ServerListensSays ==
  ASSUME IInv, SessionTypeOK, ServerListens
  PROVE  ServerSays
<1> DEFINE p == Head(toServer)
           e == [st |-> "syn_rcvd", snd |-> 1, una |-> 0, irs |-> p.seq, rcv |-> 1]
<1>1. p \in ProxyToServer /\ toServer # <<>> /\ server.st = "listen"
  BY ServerTaking DEF ServerListens
<1>2. CASE IsSyn(p.flags) /\ ServerTakes(e, <<Unit(e, ServerIss, 0)>>)
  <2>1. server' = e
    BY <1>2 DEF ServerTakes
  <2>2. ServerDoes({Unit(e, ServerIss, 0)})
    BY <1>1, <1>2, <2>1 DEF ServerDoes
  <2>3. QED
    BY <1>1, <1>2, <2>2, ServerAnswers
<1>3. CASE ServerTakes(server, <<Refusal(p)>>)
  <2>1. ServerDoes({Refusal(p)})
    BY <1>1, <1>3 DEF ServerDoes, ServerTakes
  <2>2. QED
    BY <1>1, <1>3, <2>1, ServerAnswers
<1>4. CASE ServerTakes(server, <<>>)
  <2>1. ServerDoes({})
    BY <1>4 DEF ServerDoes, ServerTakes
  <2>2. QED
    BY <1>1, <1>4, <2>1, ServerSilent
<1>5. QED
  BY <1>2, <1>3, <1>4 DEF ServerListens

\* The answer to what completes the handshake, or does not.
LEMMA ServerOpensSays ==
  ASSUME IInv, SessionTypeOK, ServerOpens
  PROVE  ServerSays
<1> DEFINE p == Head(toServer)
           open == [server EXCEPT !.st = "established", !.una = 1]
           e == Advanced(open, ServerIss, p)
<1>1. p \in ProxyToServer /\ toServer # <<>> /\ server.st = "syn_rcvd"
  BY ServerTaking DEF ServerOpens
<1>2. CASE /\ "RST" \in p.flags
           /\ ServerTakes(IF SeqNo(p, server) = 1 THEN Fresh("listen") ELSE server, <<>>)
  <2>1. ServerDoes({})
    BY <1>1, <1>2 DEF ServerDoes, ServerTakes
  <2>2. QED
    BY <1>1, <1>2, <2>1, ServerSilent
<1>3. CASE ServerTakes(server, <<Unit(server, ServerIss, 0)>>)
  <2>1. ServerDoes({Unit(server, ServerIss, 0)})
    BY <1>1, <1>3 DEF ServerDoes, ServerTakes
  <2>2. QED
    BY <1>1, <1>3, <2>1, ServerAnswers
<1>4. CASE /\ "RST" \notin p.flags /\ Acknowledges(p, server, ServerIss)
           /\ ServerTakes(e, IF Answers(open, ServerIss, p) THEN <<Pure(e, ServerIss)>> ELSE <<>>)
  <2>1. server' = e
    BY <1>4 DEF ServerTakes
  <2>2. ServerDoes({}) /\ ServerDoes({Pure(e, ServerIss)})
    BY <1>1, <1>4, <2>1 DEF ServerDoes
  <2> HIDE DEF e
  <2>3. ServerTakes(e, <<Pure(e, ServerIss)>>) \/ ServerTakes(e, <<>>)
    BY <1>4
  <2>4. QED
    BY <1>1, <2>2, <2>3, ServerSilent, ServerAnswers
<1>5. CASE ServerTakes(server, <<Refusal(p)>>)
  <2>1. ServerDoes({Refusal(p)})
    BY <1>1, <1>5 DEF ServerDoes, ServerTakes
  <2>2. QED
    BY <1>1, <1>5, <2>1, ServerAnswers
<1>6. QED
  BY <1>2, <1>3, <1>4, <1>5 DEF ServerOpens

\* The answer to a later segment.
LEMMA ServerReceivesSays ==
  ASSUME IInv, SessionTypeOK, ServerReceives
  PROVE  ServerSays
<1> DEFINE p == Head(toServer)
           e == Advanced(server, ServerIss, p)
<1>1. p \in ProxyToServer /\ toServer # <<>> /\ server.st = "established"
  BY ServerTaking DEF ServerReceives
<1>2. ServerTakes(e, IF Answers(server, ServerIss, p) THEN <<Pure(e, ServerIss)>> ELSE <<>>)
  BY DEF ServerReceives
<1>3. server' = e
  BY <1>2 DEF ServerTakes
<1>4. ServerDoes({}) /\ ServerDoes({Pure(e, ServerIss)})
  BY <1>1, <1>3 DEF ServerDoes
<1> HIDE DEF e
<1>5. ServerTakes(e, <<Pure(e, ServerIss)>>) \/ ServerTakes(e, <<>>)
  BY <1>2
<1>6. QED
  BY <1>1, <1>4, <1>5, ServerSilent, ServerAnswers

\* Every action of the server.
LEMMA ServerSpeaks ==
  ASSUME IInv, SessionTypeOK, Server
  PROVE  ServerSays /\ UNCHANGED <<vars, client, events>>
<1>1. ServerSays
  BY ServerSendsSays, ServerListensSays, ServerOpensSays, ServerReceivesSays DEF Server
<1>2. UNCHANGED <<vars, client, events>>
  BY DEF Server, ServerSends, ServerListens, ServerOpens, ServerReceives, ServerTakes
<1>3. QED
  BY <1>1, <1>2

\* Both hosts send again what is outstanding.
TimeoutSays(A, C) ==
  /\ A = {} \/ (Outstanding(client) /\ A = {Unit(client, ClientIss, client.una)})
  /\ C = {} \/ (Outstanding(server) /\ C = {Unit(server, ServerIss, server.una)})

\* What is outstanding is a unit.
LEMMA OutstandingUnit ==
  ASSUME NEW e, Peer(e), Outstanding(e), NEW iss \in Seqs
  PROVE  e.una \in 0 .. 2 /\ Unit(e, iss, e.una) \in Segment
<1>1. e.una \in 0 .. 2
  BY DEF Peer, Outstanding
<1>2. QED
  BY <1>1, UnitIsSegment

\* At most one unit is sent again.
LEMMA SentAgain ==
  ASSUME NEW e, Peer(e), NEW iss \in Seqs
  PROVE  /\ Again(e, iss) \in Seq(Segment)
         /\ \/ Range(Again(e, iss)) = {}
            \/ Outstanding(e) /\ Range(Again(e, iss)) = {Unit(e, iss, e.una)}
<1>1. CASE Outstanding(e)
  <2> DEFINE x == Unit(e, iss, e.una)
  <2>1. x \in Segment
    BY <1>1, OutstandingUnit
  <2>2. Again(e, iss) = <<x>>
    BY <1>1 DEF Again
  <2> HIDE DEF x
  <2>3. <<x>> \in Seq(Segment) /\ Range(<<x>>) = {x}
    BY <2>1, SingleRange
  <2>4. QED
    BY <1>1, <2>2, <2>3 DEF x
<1>2. CASE ~Outstanding(e)
  BY <1>2 DEF Again, Range
<1>3. QED
  BY <1>1, <1>2

\* A timeout sends what is outstanding on both sides and nothing else.
LEMMA TimeoutSpeaks ==
  ASSUME IInv, SessionTypeOK, Timeout
  PROVE  /\ \E A, C : TimeoutSays(A, C) /\ Ways(A, {}, C, {}) /\ A \cup C \subseteq Segment
         /\ Networks' /\ UNCHANGED <<vars, client, server, events>>
<1>1. Peer(client) /\ Peer(server) /\ ClientIss \in Seqs /\ ServerIss \in Seqs
  BY EndpointIsPeer, SessionConstants DEF SessionTypeOK
<1>2. /\ fromClient' = Again(client, ClientIss) /\ fromServer' = Again(server, ServerIss)
      /\ UNCHANGED <<vars, endpoints, toClient, toServer, strays, events>>
  BY DEF Timeout
<1>3. PICK A, C : /\ A = Range(Again(client, ClientIss)) /\ C = Range(Again(server, ServerIss))
  OBVIOUS
<1>4. TimeoutSays(A, C) /\ fromClient' \in Seq(Segment) /\ fromServer' \in Seq(Segment)
  BY <1>1, <1>2, <1>3, SentAgain DEF TimeoutSays
<1>5. A \cup C \subseteq Segment
  BY <1>1, <1>4, OutstandingUnit DEF TimeoutSays
<1>6. OnNetworks(A, {}, C, {}) /\ UNCHANGED strays
  BY <1>2, <1>3 DEF OnNetworks
<1>7. Ways(A, {}, C, {})
  BY <1>6, NetworkWays
<1>8. Networks'
  BY <1>2, <1>4, TypesAre DEF Networks
<1>9. QED
  BY <1>2, <1>4, <1>5, <1>7, <1>8 DEF endpoints

------------------------------------------------------------------------------
(* Steps that only carry segments along their ways.                        *)

Moves ==
  /\ Ways({}, {}, {}, {}) /\ Networks'
  /\ UNCHANGED <<client, server, table>> /\ HeldFirst' = HeldFirst
  /\ ts' = ts \/ (ts = 0 /\ ts' = TsNext(0))

\* What is held is not touched by who writes to no held buffer.
LEMMA HeldFirstKept ==
  ASSUME IInv, UNCHANGED table, \A m \in Mbufs : m \in Loose \/ buf'[m] = buf[m]
  PROVE  HeldFirst' = HeldFirst
<1>1. HeldFirst' = IF HasEntry(Conn) /\ Held(Conn) # <<>> /\ Held(Conn)[1] # Null
                   THEN {buf'[Held(Conn)[1]]} ELSE {}
  BY DEF HeldFirst, HasEntry, Held
<1>2. HasEntry(Conn) /\ Held(Conn) # <<>> /\ Held(Conn)[1] # Null =>
        Held(Conn)[1] \in Mbufs /\ Held(Conn)[1] \notin Loose
  <2> SUFFICES ASSUME HasEntry(Conn), Held(Conn) # <<>>, Held(Conn)[1] # Null
               PROVE  Held(Conn)[1] \in Mbufs /\ Held(Conn)[1] \notin Loose
    OBVIOUS
  <2>1. Held(Conn) \in Seq(Mbufs \cup {Null}) /\ Conn \in Conns
    BY HeldTypes, SessionConstants DEF IInv
  <2>2. 1 \in 1 .. Len(Held(Conn)) /\ Held(Conn)[1] \in Mbufs \cup {Null}
    BY <2>1
  <2>3. QED
    BY <2>1, <2>2 DEF IInv, BufferOwnership, HeldNowhereElse, Loose
<1>3. QED
  BY <1>1, <1>2 DEF HeldFirst

\* Losses, duplicates and late copies say nothing new.
LEMMA NetworkMoves ==
  ASSUME IInv, SessionTypeOK, Network
  PROVE  Moves /\ UNCHANGED vars
<1>1. UNCHANGED <<vars, endpoints, fromServer, toServer>>
  BY DEF Network, Lose, Duplicate, StrayArrives
<1>2. NothingNew
  BY <1>1, QuietFlow
<1>3. HeldFirst' = HeldFirst /\ UNCHANGED <<client, server, table, ts>>
  BY <1>1 DEF endpoints, HeldFirst, HasEntry, Held, vars, treatVars
<1>4. Networks
  BY TypesAre
<1>5. /\ fromClient # <<>> =>
           /\ Head(fromClient) \in Segment /\ Head(fromClient) \in Range(fromClient)
           /\ Tail(fromClient) \in Seq(Segment)
           /\ Range(Tail(fromClient)) \subseteq Range(fromClient)
      /\ toClient # <<>> =>
           /\ Head(toClient) \in Segment /\ Head(toClient) \in Range(toClient)
           /\ Tail(toClient) \in Seq(Segment)
           /\ Range(Tail(toClient)) \subseteq Range(toClient)
  <2>1. fromClient \in Seq(Segment) /\ toClient \in Seq(Segment)
    BY <1>4 DEF Networks
  <2>2. QED
    BY <2>1, SequenceRanges
<1>6. /\ ClientToProxy' = Range(fromClient') \cup Strays("fromClient")' \cup InsideWaiting'
      /\ ProxyToServer' = Range(toServer') \cup InsideDone'
      /\ ServerToProxy' = Range(fromServer') \cup OutsideWaiting'
      /\ ProxyToClient' = Range(toClient') \cup Strays("toClient")' \cup OutsideDone'
  BY DEF ClientToProxy, ProxyToServer, ServerToProxy, ProxyToClient, InsideWaiting,
    InsideDone, OutsideWaiting, OutsideDone
<1>7. ASSUME /\ Range(fromClient') \cup Strays("fromClient")'
                  \subseteq Range(fromClient) \cup Strays("fromClient")
             /\ Range(toClient') \cup Strays("toClient")'
                  \subseteq Range(toClient) \cup Strays("toClient")
      PROVE  Ways({}, {}, {}, {})
  BY <1>1, <1>2, <1>6, <1>7, WaysAre DEF Ways, NothingNew
<1>8. CASE Lose
  <2>1. strays' = strays
    BY <1>8 DEF Lose
  <2>2. Strays("fromClient")' = Strays("fromClient") /\ Strays("toClient")' = Strays("toClient")
    BY <2>1 DEF Strays
  <2>3. /\ Range(fromClient') \subseteq Range(fromClient) /\ fromClient' \in Seq(Segment)
        /\ Range(toClient') \subseteq Range(toClient) /\ toClient' \in Seq(Segment)
    BY <1>4, <1>5, <1>8 DEF Lose, Networks
  <2>4. Networks'
    BY <1>1, <1>4, <2>1, <2>3 DEF Networks
  <2>5. QED
    BY <1>1, <1>3, <1>7, <2>2, <2>3, <2>4 DEF Moves
<1>9. CASE Duplicate
  <2>1. PICK way \in {"fromClient", "toClient"}, p \in Segment :
          /\ strays' = strays \cup {<<way, p>>}
          /\ way = "fromClient" => p \in Range(fromClient)
          /\ way = "toClient" => p \in Range(toClient)
    BY <1>5, <1>9 DEF Duplicate
  <2>2. UNCHANGED <<fromClient, toClient>>
    BY <1>9 DEF Duplicate
  <2>3. \A w : \A x \in Strays(w)' : x \in Strays(w) \/ (w = way /\ x = p)
    BY <2>1 DEF Strays
  <2>4. Networks'
    BY <1>1, <1>4, <2>1, <2>2 DEF Networks
  <2>5. /\ Range(fromClient') \cup Strays("fromClient")'
             \subseteq Range(fromClient) \cup Strays("fromClient")
        /\ Range(toClient') \cup Strays("toClient")'
             \subseteq Range(toClient) \cup Strays("toClient")
    BY <2>1, <2>2, <2>3
  <2>6. QED
    BY <1>1, <1>3, <1>7, <2>4, <2>5 DEF Moves
<1>10. CASE StrayArrives
  <2>1. PICK s \in strays :
          /\ strays' = strays \ {s}
          /\ \/ s[1] = "fromClient" /\ fromClient' = <<s[2]>> /\ UNCHANGED toClient
             \/ s[1] = "toClient" /\ toClient' = <<s[2]>> /\ UNCHANGED fromClient
    BY <1>10 DEF StrayArrives
  <2>2. PICK x : x = s[2] /\ x \in Segment
    BY <1>4 DEF Networks
  <2>3. <<x>> \in Seq(Segment) /\ Range(<<x>>) = {x}
    BY <2>2, SingleRange
  <2>4. \A w : Strays(w)' \subseteq Strays(w) /\ (s[1] = w => x \in Strays(w))
    BY <2>1, <2>2 DEF Strays
  <2>5. Networks'
    BY <1>1, <1>4, <2>1, <2>2, <2>3 DEF Networks
  <2>6. /\ Range(fromClient') \cup Strays("fromClient")'
             \subseteq Range(fromClient) \cup Strays("fromClient")
        /\ Range(toClient') \cup Strays("toClient")'
             \subseteq Range(toClient) \cup Strays("toClient")
    BY <2>1, <2>2, <2>3, <2>4
  <2>7. QED
    BY <1>1, <1>3, <1>7, <2>5, <2>6 DEF Moves
<1>11. QED
  BY <1>1, <1>8, <1>9, <1>10 DEF Network

\* A packet that the worker receives stays on its way.
LEMMA ReceivesMove ==
  ASSUME IInv, SessionTypeOK, ProxyReceivesOutside \/ ProxyReceivesInside
  PROVE  Moves /\ IInv'
<1>1. Networks
  BY TypesAre
<1>2. UNCHANGED <<client, server, table, ts, strays, toClient, toServer>>
  BY DEF ProxyReceivesOutside, ProxyReceivesInside, ReceiveOutside, ReceiveInside, endpoints
<1>3. Strays("fromClient")' = Strays("fromClient") /\ Strays("toClient")' = Strays("toClient")
  BY <1>2 DEF Strays
<1>4. HeldFirst' = HeldFirst
  <2>1. pool \subseteq Loose
    BY DEF Loose
  <2>2. \A m \in Mbufs : m \in Loose \/ buf'[m] = buf[m]
    <3>1. \E m \in pool : \E p : buf' = [buf EXCEPT ![m] = p]
      BY DEF ProxyReceivesOutside, ProxyReceivesInside, ReceiveOutside, ReceiveInside
    <3>2. PICK m \in pool : \E p : buf' = [buf EXCEPT ![m] = p]
      BY <3>1
    <3>3. PICK p : buf' = [buf EXCEPT ![m] = p]
      BY <3>2
    <3>4. QED
      BY <2>1, <3>2, <3>3 DEF IInv, TypeOK
  <2>3. QED
    BY <1>2, <2>2, HeldFirstKept
<1>5. CASE ProxyReceivesOutside
  <2>1. fromClient \in Seq(Segment) /\ fromClient # <<>>
    BY <1>1, <1>5 DEF Networks, ProxyReceivesOutside
  <2>2. PICK p \in Segment : p = Head(fromClient) /\ p \in Range(fromClient)
    BY <2>1, SequenceRanges
  <2>3. fromClient' = Tail(fromClient) /\ fromServer' = fromServer /\ ReceiveOutside(p)
    BY <1>5, <2>2 DEF ProxyReceivesOutside
  <2>4. fromClient' \in Seq(Segment) /\ Range(fromClient') \subseteq Range(fromClient)
    BY <2>1, <2>3, SequenceRanges
  <2>5. /\ InsideWaiting' \subseteq InsideWaiting \cup {p}
        /\ InsideDone' \subseteq InsideDone
        /\ OutsideWaiting' \subseteq OutsideWaiting /\ OutsideDone' \subseteq OutsideDone
    BY <2>3, ReceiveOutsideFlow
  <2>6. Ways({}, {}, {}, {})
    <3>1. /\ ClientToProxy' = Range(fromClient') \cup Strays("fromClient")' \cup InsideWaiting'
          /\ ProxyToServer' = Range(toServer') \cup InsideDone'
          /\ ServerToProxy' = Range(fromServer') \cup OutsideWaiting'
          /\ ProxyToClient' = Range(toClient') \cup Strays("toClient")' \cup OutsideDone'
      BY DEF ClientToProxy, ProxyToServer, ServerToProxy, ProxyToClient, InsideWaiting,
        InsideDone, OutsideWaiting, OutsideDone
    <3>2. QED
      BY <1>2, <1>3, <2>2, <2>3, <2>4, <2>5, <3>1, WaysAre DEF Ways
  <2>7. Networks'
    BY <1>1, <1>2, <2>3, <2>4 DEF Networks
  <2>8. p \in Packet \cup {Opaque}
    BY <2>2, SegmentFacts
  <2>9. IInv'
    BY <2>3, <2>8, ReceiveOutsidePreserves
  <2>10. QED
    BY <1>2, <1>4, <2>6, <2>7, <2>9 DEF Moves
<1>6. CASE ProxyReceivesInside
  <2>1. fromServer \in Seq(Segment) /\ fromServer # <<>>
    BY <1>1, <1>6 DEF Networks, ProxyReceivesInside
  <2>2. PICK p \in Segment : p = Head(fromServer) /\ p \in Range(fromServer)
    BY <2>1, SequenceRanges
  <2>3. fromServer' = Tail(fromServer) /\ fromClient' = fromClient /\ ReceiveInside(p)
    BY <1>6, <2>2 DEF ProxyReceivesInside
  <2>4. fromServer' \in Seq(Segment) /\ Range(fromServer') \subseteq Range(fromServer)
    BY <2>1, <2>3, SequenceRanges
  <2>5. /\ OutsideWaiting' \subseteq OutsideWaiting \cup {p}
        /\ OutsideDone' \subseteq OutsideDone
        /\ InsideWaiting' \subseteq InsideWaiting /\ InsideDone' \subseteq InsideDone
    BY <2>3, ReceiveInsideFlow
  <2>6. Ways({}, {}, {}, {})
    <3>1. /\ ClientToProxy' = Range(fromClient') \cup Strays("fromClient")' \cup InsideWaiting'
          /\ ProxyToServer' = Range(toServer') \cup InsideDone'
          /\ ServerToProxy' = Range(fromServer') \cup OutsideWaiting'
          /\ ProxyToClient' = Range(toClient') \cup Strays("toClient")' \cup OutsideDone'
      BY DEF ClientToProxy, ProxyToServer, ServerToProxy, ProxyToClient, InsideWaiting,
        InsideDone, OutsideWaiting, OutsideDone
    <3>2. QED
      BY <1>2, <1>3, <2>2, <2>3, <2>4, <2>5, <3>1, WaysAre DEF Ways
  <2>7. Networks'
    BY <1>1, <1>2, <2>3, <2>4 DEF Networks
  <2>8. p \in Packet \cup {Opaque}
    BY <2>2, SegmentFacts
  <2>9. IInv'
    BY <2>3, <2>8, ReceiveInsidePreserves
  <2>10. QED
    BY <1>2, <1>4, <2>6, <2>7, <2>9 DEF Moves
<1>7. QED
  BY <1>5, <1>6

\* A packet that the worker sends stays on its way.
LEMMA SendMoves ==
  ASSUME IInv, SessionTypeOK, ProxySends
  PROVE  Moves /\ IInv'
<1>1. SendAfterInside \/ SendAfterOutside
  BY DEF ProxySends
<1>2. NothingNew /\ WaitingInside = {} /\ WaitingOutside = {}
  BY <1>1, SendFlow
<1>3. InsideDone = Written(toInside, SlotIndex) /\ OutsideDone = Written(toOutside, SlotIndex)
  BY <1>2 DEF InsideDone, OutsideDone
<1>4. /\ Contents(toInside) \in Seq(InsideDone) /\ Contents(toOutside) \in Seq(OutsideDone)
  BY <1>3, ContentsAreWritten
<1>5. Networks /\ InsideDone \subseteq Segment /\ OutsideDone \subseteq Segment
  BY TypesAre DEF Contained
<1>6. /\ toServer \in Seq(Segment) /\ toClient \in Seq(Segment)
      /\ toServer' = toServer \o Contents(toInside)
      /\ toClient' = toClient \o Contents(toOutside)
      /\ UNCHANGED <<client, server, fromClient, fromServer, strays>>
  BY <1>5 DEF ProxySends, Networks, endpoints
<1>7. /\ toServer' \in Seq(Segment) /\ Range(toServer') \subseteq Range(toServer) \cup InsideDone
      /\ toClient' \in Seq(Segment) /\ Range(toClient') \subseteq Range(toClient) \cup OutsideDone
  BY <1>4, <1>5, <1>6, ConcatenationRange
<1>8. Strays("fromClient")' = Strays("fromClient") /\ Strays("toClient")' = Strays("toClient")
  BY <1>6 DEF Strays
<1>9. Ways({}, {}, {}, {})
  <2>1. /\ ClientToProxy' = Range(fromClient') \cup Strays("fromClient")' \cup InsideWaiting'
        /\ ProxyToServer' = Range(toServer') \cup InsideDone'
        /\ ServerToProxy' = Range(fromServer') \cup OutsideWaiting'
        /\ ProxyToClient' = Range(toClient') \cup Strays("toClient")' \cup OutsideDone'
    BY DEF ClientToProxy, ProxyToServer, ServerToProxy, ProxyToClient, InsideWaiting,
      InsideDone, OutsideWaiting, OutsideDone
  <2>2. QED
    BY <1>2, <1>6, <1>7, <1>8, <2>1, WaysAre DEF Ways, NothingNew
<1>10. Networks'
  BY <1>5, <1>6, <1>7 DEF Networks
<1>11. UNCHANGED <<table, ts>>
  BY <1>1 DEF SendAfterInside, SendAfterOutside, SendBoth
<1>12. HeldFirst' = HeldFirst
  <2>1. \A m \in Mbufs : m \in Loose \/ buf'[m] = buf[m]
    BY <1>1 DEF SendAfterInside, SendAfterOutside, SendBoth, Loose
  <2>2. QED
    BY <1>11, <2>1, HeldFirstKept
<1>13. IInv'
  BY <1>1, SendPreserves
<1>14. QED
  BY <1>6, <1>9, <1>10, <1>11, <1>12, <1>13 DEF Moves

\* Steps of the worker that treat nothing, ticks and stuttering.
LEMMA QuietMoves ==
  ASSUME IInv, SessionTypeOK, UNCHANGED <<client, server, channels>>,
         \/ UNCHANGED vars \/ Tick \/ PollToInside \/ PollToOutside
         \/ BurstFromOutside \/ BurstFromInside \/ TreatedInside \/ TreatedOutside,
         Tick => ts = 0
  PROVE  Moves /\ IInv'
<1>1. NothingNew
  BY QuietFlow
<1>2. UNCHANGED <<fromClient, toClient, fromServer, toServer, strays>>
  BY DEF channels
<1>3. Networks
  BY TypesAre
<1>4. Networks'
  BY <1>2, <1>3 DEF Networks
<1>5. Strays("fromClient")' = Strays("fromClient") /\ Strays("toClient")' = Strays("toClient")
  BY <1>2 DEF Strays
<1>6. Ways({}, {}, {}, {})
  <2>1. /\ ClientToProxy' = Range(fromClient') \cup Strays("fromClient")' \cup InsideWaiting'
        /\ ProxyToServer' = Range(toServer') \cup InsideDone'
        /\ ServerToProxy' = Range(fromServer') \cup OutsideWaiting'
        /\ ProxyToClient' = Range(toClient') \cup Strays("toClient")' \cup OutsideDone'
    BY DEF ClientToProxy, ProxyToServer, ServerToProxy, ProxyToClient, InsideWaiting,
      InsideDone, OutsideWaiting, OutsideDone
  <2>2. QED
    BY <1>1, <1>2, <1>5, <2>1, WaysAre DEF Ways, NothingNew
<1>7. UNCHANGED <<table, buf>> /\ (ts' = ts \/ (ts = 0 /\ ts' = TsNext(0)))
  BY DEF vars, treatVars, Tick, s_increment_timestamp, PollToInside, PollToOutside,
    BurstFromOutside, BurstFromInside, TreatedInside, TreatedOutside
<1>8. HeldFirst' = HeldFirst
  BY <1>7 DEF HeldFirst, HasEntry, Held
<1>9. IInv'
  BY StutterPreserves, TickPreserves, PollPreserves, GotoPreserves
<1>10. QED
  BY <1>4, <1>6, <1>7, <1>8, <1>9 DEF Moves

------------------------------------------------------------------------------
(* Steps of the worker that treat a segment.                               *)

\* What becomes of the entry when p from outside is treated.
SameEntry ==
  /\ HasEntry(Conn)' => /\ HasEntry(Conn) /\ table'[Conn].offset = table[Conn].offset
                        /\ Held(Conn)' = <<>> <=> Held(Conn) = <<>>
  /\ HeldFirst' \subseteq HeldFirst

NewEntry ==
  /\ ~HasEntry(Conn)
  /\ table'[Conn].offset = 0 /\ Held(Conn)' # <<>>

EntryFromOutside(p) ==
  \/ SameEntry
  \/ NewEntry /\ IsSynAck(p.flags) /\ HeldFirst' = {}
  \/ /\ NewEntry /\ IsAck(p.flags) /\ HeldFirst' = {p}
     /\ check_syn_cookie(SeqSub(p.ack, 1), p.conn, ts)

EntryFromInside(p) ==
  \/ SameEntry
  \/ NewEntry /\ IsAck(p.flags) /\ HeldFirst' = {}
  \/ /\ IsSynAck(p.flags) /\ HasEntry(Conn)
     /\ \E h \in HeldFirst : table'[Conn].offset = SeqSub(SeqSub(h.ack, p.seq), 1)
     /\ Held(Conn)' = <<>> /\ HeldFirst' = {}

ConnEntry ==
  /\ table \in [Conns -> Info \cup {NoEntry}] /\ Conn \in Conns
  /\ HasEntry(Conn) => /\ table[Conn] \in Info
                       /\ Held(Conn) \in Seq(Mbufs \cup {Null})
                       /\ Held(Conn) # <<>> => /\ 1 \in 1 .. Len(Held(Conn))
                                               /\ Held(Conn)[1] \in Mbufs \cup {Null}

\* The entry of the connection has its types.
LEMMA ConnEntryTyped ==
  ASSUME IInv
  PROVE  ConnEntry
<1>1. TypeOK /\ Conn \in Conns
  BY SessionConstants DEF IInv
<1>2. ASSUME HasEntry(Conn), Held(Conn) \in Seq(Mbufs \cup {Null}), Held(Conn) # <<>>
      PROVE  1 \in 1 .. Len(Held(Conn)) /\ Held(Conn)[1] \in Mbufs \cup {Null}
  BY <1>2
<1>3. QED
  BY <1>1, <1>2, HeldTypes DEF ConnEntry, TypeOK

\* The entry goes on with the packets it holds.
LEMMA EntryContinues ==
  ASSUME IInv, TreatInside \/ TreatOutside,
         HasEntry(Conn)' =>
           /\ HasEntry(Conn) /\ table'[Conn].offset = table[Conn].offset
           /\ \/ Held(Conn)' = Held(Conn)
              \/ Held(Conn) # <<>> /\ \E m \in Mbufs : Held(Conn)' = Append(Held(Conn), m)
  PROVE  SameEntry
<1>1. ConnEntry
  BY ConnEntryTyped
<1>2. ASSUME HasEntry(Conn)', HasEntry(Conn), Held(Conn)' # <<>>
      PROVE  Held(Conn) # <<>> /\ Held(Conn)'[1] = Held(Conn)[1]
  <2>1. ASSUME NEW m \in Mbufs, Held(Conn) # <<>>, Held(Conn)' = Append(Held(Conn), m)
        PROVE  Held(Conn)'[1] = Held(Conn)[1]
    BY <1>1, <1>2, <2>1 DEF ConnEntry
  <2>2. QED
    BY <1>2, <2>1
<1>3. ASSUME HasEntry(Conn)' PROVE Held(Conn)' = <<>> <=> Held(Conn) = <<>>
  <2>1. ASSUME NEW m \in Mbufs, Held(Conn) # <<>>, Held(Conn)' = Append(Held(Conn), m)
        PROVE  Held(Conn)' # <<>>
    BY <1>1, <1>3, <2>1 DEF ConnEntry
  <2>2. QED
    BY <1>3, <2>1
<1>4. HeldFirst' \subseteq HeldFirst
  <2>1. HeldFirst' = IF HasEntry(Conn)' /\ Held(Conn)' # <<>> /\ Held(Conn)'[1] # Null
                     THEN {buf'[Held(Conn)'[1]]} ELSE {}
    BY DEF HeldFirst
  <2>2. ASSUME HasEntry(Conn)', Held(Conn)' # <<>>, Held(Conn)'[1] # Null
        PROVE  buf'[Held(Conn)'[1]] \in HeldFirst
    <3>1. HasEntry(Conn) /\ Held(Conn) # <<>> /\ Held(Conn)'[1] = Held(Conn)[1]
      BY <1>2, <2>2
    <3>2. /\ 1 \in 1 .. Len(Held(Conn)) /\ Held(Conn)[1] \in Mbufs /\ Conn \in Conns
      BY <1>1, <2>2, <3>1 DEF ConnEntry
    <3>3. [Next]_vars
      BY DEF Next
    <3>4. buf'[Held(Conn)[1]] = buf[Held(Conn)[1]]
      BY <2>2, <3>1, <3>2, <3>3, HeldContentKept
    <3>5. QED
      BY <2>2, <3>1, <3>4 DEF HeldFirst
  <2>3. QED
    BY <2>1, <2>2
<1>5. QED
  BY <1>3, <1>4 DEF SameEntry

\* A new entry with no packet, and one that holds a packet.
LEMMA EntryStarts ==
  ASSUME IInv, ~HasEntry(Conn), NEW m \in Mbufs \cup {Null},
         table' = Insert(Conn, NewInfo(m))
  PROVE  /\ NewEntry /\ Held(Conn)' = <<m>> /\ HasEntry(Conn)'
         /\ HeldFirst' = IF m # Null THEN {buf'[m]} ELSE {}
<1>1. ConnEntry
  BY ConnEntryTyped
<1>2. table'[Conn] = NewInfo(m)
  BY <1>1 DEF Insert, ConnEntry
<1>3. /\ NewInfo(m).offset = 0 /\ NewInfo(m).pkt_inf_list = <<m>>
      /\ NewInfo(m) # NoEntry
  BY NewInfoIsInfo, NoEntryAssumption DEF NewInfo
<1>4. Held(Conn)' = <<m>> /\ HasEntry(Conn)' /\ table'[Conn].offset = 0
  BY <1>2, <1>3 DEF Held, HasEntry
<1>5. <<m>> # <<>> /\ <<m>>[1] = m
  OBVIOUS
<1>6. QED
  BY <1>4, <1>5 DEF NewEntry, HeldFirst

\* What a segment from the client does to the entry.
LEMMA InsideEntry ==
  ASSUME IInv, TreatInside, NEW p \in Segment, p = Current(toInside), Tcp(toInside)
  PROVE  EntryFromOutside(p)
<1>1. pc = "treat_in" /\ UNCHANGED pc /\ TreatToInside
  BY DEF TreatInside
<1>2. ConnEntry /\ p.conn = Conn
  BY ConnEntryTyped, SegmentFacts
<1>3. /\ Known(toInside) <=> HasEntry(Conn)
      /\ Entry(toInside) = table[Conn] /\ Flags(toInside) = p.flags
      /\ Current(toInside).conn = Conn
  BY <1>2 DEF Known, Entry, Flags
<1>4. CASE table' = table
  <2>1. SameEntry
    BY <1>4, EntryContinues DEF HasEntry, Held
  <2>2. QED
    BY <2>1 DEF EntryFromOutside
<1>5. CASE table' = Erase(Conn)
  <2>1. ~HasEntry(Conn)'
    BY <1>2, <1>5 DEF Erase, HasEntry, ConnEntry
  <2>2. SameEntry
    BY <2>1, EntryContinues
  <2>3. QED
    BY <2>2 DEF EntryFromOutside
<1>6. CASE InSynAck
  <2>1. table' = Insert(Conn, NewInfo(Null)) /\ IsSynAck(p.flags)
    BY <1>3, <1>6 DEF InSynAck
  <2>2. CASE HasEntry(Conn)
    BY <1>2, <1>4, <2>1, <2>2 DEF Insert, ConnEntry
  <2>3. CASE ~HasEntry(Conn)
    <3>1. NewEntry /\ HeldFirst' = {}
      BY <2>1, <2>3, EntryStarts
    <3>2. QED
      BY <2>1, <3>1 DEF EntryFromOutside
  <2>4. QED
    BY <2>2, <2>3
<1>7. CASE InFinAnswer \/ InFinFirst
  <2>1. HasEntry(Conn) /\ table[Conn] \in Info
    BY <1>2, <1>3, <1>7 DEF InFinAnswer, InFinFirst, ConnEntry
  <2>2. table'[Conn] \in {FinAnsweredInside(table[Conn]),
                          [table[Conn] EXCEPT !.finseen_to_inside = TRUE]}
    BY <1>2, <1>3, <1>7 DEF InFinAnswer, InFinFirst, ConnEntry
  <2>3. table'[Conn].offset = table[Conn].offset
        /\ table'[Conn].pkt_inf_list = table[Conn].pkt_inf_list
    BY <2>1, <2>2 DEF Info, FinAnsweredInside
  <2>4. SameEntry
    BY <2>1, <2>3, EntryContinues DEF Held
  <2>5. QED
    BY <2>4 DEF EntryFromOutside
<1>8. CASE InAckLegit
  <2>1. PICK s \in Mbufs : s = Slot(toInside) /\ buf[s] = p /\ s \notin pool
    BY <1>1, InsideContext DEF Tcp, Current
  <2>2. \E m \in pool : \E q : buf' = [buf EXCEPT ![m] = q]
    BY <1>8 DEF InAckLegit
  <2>3. buf'[s] = p /\ s # Null
    BY <2>1, <2>2, NullAssumption DEF IInv, TypeOK
  <2>4. table' = Insert(Conn, NewInfo(s)) /\ ~HasEntry(Conn) /\ IsAck(p.flags)
        /\ check_syn_cookie(SeqSub(p.ack, 1), p.conn, ts)
    BY <1>3, <1>8, <2>1 DEF InAckLegit, CookieReturned
  <2>5. NewEntry /\ HeldFirst' = {buf'[s]}
    BY <2>3, <2>4, EntryStarts
  <2>6. QED
    BY <2>3, <2>4, <2>5 DEF EntryFromOutside
<1>9. CASE InAckEarly
  <2>1. PICK s \in Mbufs : s = Slot(toInside)
    BY <1>1, InsideContext DEF Tcp
  <2>2. /\ HasEntry(Conn) /\ Held(Conn) # <<>> /\ table[Conn] \in Info
        /\ table'[Conn] = Queued(table[Conn], s)
    BY <1>2, <1>3, <1>9, <2>1 DEF InAckEarly, Held, ConnEntry
  <2>3. table'[Conn].offset = table[Conn].offset /\ Held(Conn)' = Append(Held(Conn), s)
    BY <2>2 DEF Queued, Info, Held
  <2>4. SameEntry
    BY <2>2, <2>3, EntryContinues
  <2>5. QED
    BY <2>4 DEF EntryFromOutside
<1>10. CASE InSyn \/ InFinUnknown \/ InFinRepeated \/ InAckRefused \/ InAckRegular
            \/ InUntreated \/ InOutOfBuffers
  BY <1>4, <1>10 DEF InSyn, InFinUnknown, InFinRepeated, InAckRefused, InAckRegular,
    InUntreated, Untreated, InOutOfBuffers, Crash
<1>11. CASE InRst \/ InAckLast
  BY <1>3, <1>5, <1>11 DEF InRst, InAckLast
<1>12. QED
  BY <1>1, <1>6, <1>7, <1>8, <1>9, <1>10, <1>11 DEF TreatToInside

\* What a segment from the server does to the entry.
LEMMA OutsideEntry ==
  ASSUME IInv, TreatOutside, NEW p \in Segment, p = Current(toOutside), Tcp(toOutside)
  PROVE  EntryFromInside(p)
<1>1. pc = "treat_out" /\ UNCHANGED pc /\ TreatToOutside
  BY DEF TreatOutside
<1>2. ConnEntry /\ p.conn = Conn
  BY ConnEntryTyped, SegmentFacts
<1>3. /\ Known(toOutside) <=> HasEntry(Conn)
      /\ Entry(toOutside) = table[Conn] /\ Flags(toOutside) = p.flags
      /\ Current(toOutside).conn = Conn
  BY <1>2 DEF Known, Entry, Flags
<1>4. CASE table' = table
  <2>1. SameEntry
    BY <1>4, EntryContinues DEF HasEntry, Held
  <2>2. QED
    BY <2>1 DEF EntryFromInside
<1>5. CASE table' = Erase(Conn)
  <2>1. ~HasEntry(Conn)'
    BY <1>2, <1>5 DEF Erase, HasEntry, ConnEntry
  <2>2. SameEntry
    BY <2>1, EntryContinues
  <2>3. QED
    BY <2>2 DEF EntryFromInside
<1>6. CASE OutAckNew
  <2>1. table' = Insert(Conn, NewInfo(Null)) /\ IsAck(p.flags) /\ ~HasEntry(Conn)
    BY <1>3, <1>6 DEF OutAckNew
  <2>2. NewEntry /\ HeldFirst' = {}
    BY <2>1, EntryStarts
  <2>3. QED
    BY <2>1, <2>2 DEF EntryFromInside
<1>7. CASE OutFinAnswer \/ OutFinFirst
  <2>1. HasEntry(Conn) /\ table[Conn] \in Info
    BY <1>2, <1>3, <1>7 DEF OutFinAnswer, OutFinFirst, ConnEntry
  <2>2. table'[Conn] \in {FinAnsweredOutside(table[Conn]),
                          [table[Conn] EXCEPT !.finseen_to_outside = TRUE]}
    BY <1>2, <1>3, <1>7 DEF OutFinAnswer, OutFinFirst, ConnEntry
  <2>3. table'[Conn].offset = table[Conn].offset
        /\ table'[Conn].pkt_inf_list = table[Conn].pkt_inf_list
    BY <2>1, <2>2 DEF Info, FinAnsweredOutside
  <2>4. SameEntry
    BY <2>1, <2>3, EntryContinues DEF Held
  <2>5. QED
    BY <2>4 DEF EntryFromInside
<1>8. CASE OutSynAckRelease
  <2>1. /\ HasEntry(Conn) /\ Held(Conn) # <<>> /\ Held(Conn)[1] # Null
        /\ IsSynAck(p.flags) /\ table[Conn] \in Info
    BY <1>2, <1>3, <1>8 DEF OutSynAckRelease, Held, ConnEntry
  <2>2. PICK h : h = buf[Held(Conn)[1]] /\ h \in HeldFirst
    BY <2>1 DEF HeldFirst
  <2>3. PICK off : off = SeqSub(SeqSub(h.ack, p.seq), 1)
    OBVIOUS
  <2>4. table'[Conn] = Released(table[Conn], off)
    BY <1>2, <1>3, <1>8, <2>2, <2>3 DEF OutSynAckRelease, Held, ConnEntry
  <2>5. table'[Conn].offset = off /\ Held(Conn)' = <<>>
    BY <2>1, <2>4 DEF Released, Info, Held
  <2>6. HeldFirst' = {}
    BY <2>5 DEF HeldFirst
  <2>7. QED
    BY <2>1, <2>2, <2>3, <2>5, <2>6 DEF EntryFromInside
<1>9. CASE OutSynAckUnknown \/ OutSynAckNullHeld \/ OutSynAckRepeated \/ OutSyn
           \/ OutRstUnknown \/ OutFinUnknown \/ OutFinRepeated \/ OutAckRegular \/ OutUntreated
  BY <1>4, <1>9 DEF OutSynAckUnknown, OutSynAckNullHeld, OutSynAckRepeated, OutSyn,
    OutRstUnknown, OutFinUnknown, OutFinRepeated, OutAckRegular, OutUntreated, Untreated, Crash
<1>10. CASE OutRst \/ OutAckLast
  BY <1>3, <1>5, <1>10 DEF OutRst, OutAckLast
<1>11. QED
  BY <1>1, <1>6, <1>7, <1>8, <1>9, <1>10 DEF TreatToOutside

\* The treatment of p, a segment from the client or from the server.
TreatsOutside(p) ==
  /\ p \in ClientToProxy /\ p \in Segment /\ p = Current(toInside) /\ Tcp(toInside)
  /\ ClientToProxy' \subseteq ClientToProxy /\ ServerToProxy' \subseteq ServerToProxy
  /\ \A q \in ProxyToServer' : q \in ProxyToServer \/ PassedIn(p, q)
  /\ \A r \in ProxyToClient' : r \in ProxyToClient \/ AnsweredOut(p, r)
  /\ EntryFromOutside(p)

TreatsInside(p) ==
  /\ p \in ServerToProxy /\ p \in Segment /\ p = Current(toOutside) /\ Tcp(toOutside)
  /\ ClientToProxy' \subseteq ClientToProxy /\ ServerToProxy' \subseteq ServerToProxy
  /\ \A q \in ProxyToClient' : q \in ProxyToClient \/ PassedOut(p, q)
  /\ \A r \in ProxyToServer' : r \in ProxyToServer \/ ReleasedIn(p, r)
  /\ EntryFromInside(p)

Treats ==
  /\ Networks' /\ IInv' /\ UNCHANGED <<client, server, events, ts>>
  /\ \/ TreatInside /\ \E p \in Segment : TreatsOutside(p)
     \/ TreatOutside /\ \E p \in Segment : TreatsInside(p)

\* The packet under treatment is a segment of the session.
LEMMA TreatedIsInSession ==
  ASSUME IInv, SessionTypeOK
  PROVE  /\ TreatInside => Current(toInside) \in InsideWaiting /\ Current(toInside) \in Segment
         /\ TreatOutside => Current(toOutside) \in OutsideWaiting /\ Current(toOutside) \in Segment
<1>1. ASSUME TreatInside
      PROVE  Current(toInside) \in InsideWaiting
  <2>1. pc = "treat_in" /\ Pending(toInside)
    BY <1>1 DEF TreatInside, TreatToInside, InSynAck, InSyn, InRst, InFinUnknown,
      InFinAnswer, InFinFirst, InFinRepeated, InAckLegit, InAckRefused, InAckLast,
      InAckEarly, InAckRegular, InUntreated, Untreated, InOutOfBuffers, Tcp
  <2>2. cursor \in WaitingInside /\ toInside.slots[cursor] # Null
    BY <2>1, InsideContext, NullAssumption DEF WaitingInside, Slot
  <2>3. QED
    BY <2>2 DEF InsideWaiting, Written, Current, Slot
<1>2. ASSUME TreatOutside
      PROVE  Current(toOutside) \in OutsideWaiting
  <2>1. pc = "treat_out" /\ Pending(toOutside)
    BY <1>2 DEF TreatOutside, TreatToOutside, OutSynAckUnknown, OutSynAckRelease,
      OutSynAckNullHeld, OutSynAckRepeated, OutSyn, OutRstUnknown, OutRst, OutFinUnknown,
      OutFinAnswer, OutFinFirst, OutFinRepeated, OutAckNew, OutAckLast, OutAckRegular,
      OutUntreated, Untreated, Tcp
  <2>2. cursor \in WaitingOutside /\ toOutside.slots[cursor] # Null
    BY <2>1, OutsideContext, NullAssumption DEF WaitingOutside, Slot
  <2>3. QED
    BY <2>2 DEF OutsideWaiting, Written, Current, Slot
<1>3. InsideWaiting \subseteq Segment /\ OutsideWaiting \subseteq Segment
  BY TypesAre DEF Contained
<1>4. QED
  BY <1>1, <1>2, <1>3

\* Every treatment is the treatment of a segment of the session.
LEMMA TreatmentTreats ==
  ASSUME IInv, SessionTypeOK, TreatInside \/ TreatOutside,
         UNCHANGED <<endpoints, channels, events>>
  PROVE  Treats
<1>1. UNCHANGED <<client, server, fromClient, toClient, fromServer, toServer, strays, events>>
  BY DEF endpoints, channels
<1>2. Networks
  BY TypesAre
<1>3. Networks'
  BY <1>1, <1>2 DEF Networks
<1>4. Strays("fromClient")' = Strays("fromClient") /\ Strays("toClient")' = Strays("toClient")
  BY <1>1 DEF Strays
<1>5. /\ ClientToProxy' = Range(fromClient) \cup Strays("fromClient") \cup InsideWaiting'
      /\ ProxyToServer' = Range(toServer) \cup InsideDone'
      /\ ServerToProxy' = Range(fromServer) \cup OutsideWaiting'
      /\ ProxyToClient' = Range(toClient) \cup Strays("toClient") \cup OutsideDone'
  BY <1>1, <1>4 DEF ClientToProxy, ProxyToServer, ServerToProxy, ProxyToClient,
    InsideWaiting, InsideDone, OutsideWaiting, OutsideDone
<1>6. IInv'
  BY TreatInsidePreserves, TreatOutsidePreserves
<1>7. Opaque \notin Segment
  BY SegmentFacts
<1>8. CASE TreatInside
  <2>1. PICK p \in Segment : p = Current(toInside) /\ p \in InsideWaiting /\ p # Opaque
    BY <1>7, <1>8, TreatedIsInSession
  <2>2. InsideFlow(p)
    BY <1>8, <2>1, TreatInsideFlow
  <2>3. EntryFromOutside(p)
    BY <1>8, <2>1, <2>2, InsideEntry DEF InsideFlow
  <2>4. TreatsOutside(p)
    BY <1>5, <2>1, <2>2, <2>3, WaysAre DEF InsideFlow, TreatsOutside
  <2>5. ts' = ts
    BY <1>8 DEF TreatInside, TreatToInside, InSynAck, InSyn, InRst, InFinUnknown,
      InFinAnswer, InFinFirst, InFinRepeated, InAckLegit, InAckRefused, InAckLast,
      InAckEarly, InAckRegular, InUntreated, Untreated, InOutOfBuffers, NextPacket, Crash
  <2>6. QED
    BY <1>1, <1>3, <1>6, <1>8, <2>1, <2>4, <2>5 DEF Treats
<1>9. CASE TreatOutside
  <2>1. PICK p \in Segment : p = Current(toOutside) /\ p \in OutsideWaiting /\ p # Opaque
    BY <1>7, <1>9, TreatedIsInSession
  <2>2. OutsideFlow(p)
    BY <1>9, <2>1, TreatOutsideFlow
  <2>3. EntryFromInside(p)
    BY <1>9, <2>1, <2>2, OutsideEntry DEF OutsideFlow
  <2>4. TreatsInside(p)
    BY <1>5, <2>1, <2>2, <2>3, WaysAre DEF OutsideFlow, TreatsInside
  <2>5. ts' = ts
    BY <1>9 DEF TreatOutside, TreatToOutside, OutSynAckUnknown, OutSynAckRelease,
      OutSynAckNullHeld, OutSynAckRepeated, OutSyn, OutRstUnknown, OutRst, OutFinUnknown,
      OutFinAnswer, OutFinFirst, OutFinRepeated, OutAckNew, OutAckLast, OutAckRegular,
      OutUntreated, Untreated, NextPacket, Crash
  <2>6. QED
    BY <1>1, <1>3, <1>6, <1>9, <2>1, <2>4, <2>5 DEF Treats
<1>10. QED
  BY <1>8, <1>9

------------------------------------------------------------------------------
(* Every step of the session.                                              *)

\* There are no others.
LEMMA SessionSteps ==
  ASSUME IInv, SessionTypeOK, [SessionNext]_sessionVars
  PROVE  /\ IInv' /\ events' \in 0 .. MaxEvents
         /\ \/ ClientSays /\ UNCHANGED <<vars, server>>
            \/ ServerSays /\ UNCHANGED <<vars, client>>
            \/ Timeout
            \/ Moves
            \/ Treats
<1>1. events \in 0 .. MaxEvents /\ MaxEvents \in Nat
  BY TypesAre, SessionConstants
<1>2. CASE Client \/ Server \/ Timeout
  <2>1. UNCHANGED <<vars, events>>
    BY <1>2, ClientSpeaks, ServerSpeaks DEF Timeout
  <2>2. IInv'
    BY <2>1, StutterPreserves
  <2>3. QED
    BY <1>1, <1>2, <2>1, <2>2, ClientSpeaks, ServerSpeaks
<1>3. CASE Network
  <2>1. Moves /\ UNCHANGED vars
    BY <1>3, NetworkMoves
  <2>2. IInv'
    BY <2>1, StutterPreserves
  <2>3. events' \in 0 .. MaxEvents
    BY <1>1, <1>3 DEF Network, Lose, Duplicate, StrayArrives, Happens
  <2>4. QED
    BY <2>1, <2>2, <2>3
<1>4. CASE ProxyReceivesOutside \/ ProxyReceivesInside \/ ProxySends
  <2>1. events' = events
    BY <1>4 DEF ProxyReceivesOutside, ProxyReceivesInside, ProxySends
  <2>2. QED
    BY <1>1, <1>4, <2>1, ReceivesMove, SendMoves
<1>5. CASE ProxyWorks /\ (TreatInside \/ TreatOutside)
  <2>1. Treats
    BY <1>5, TreatmentTreats DEF ProxyWorks
  <2>2. QED
    BY <1>1, <2>1 DEF Treats
<1>6. CASE \/ ProxyWorks /\ ~(TreatInside \/ TreatOutside)
           \/ ProxyBurst \/ SessionTick \/ SessionGone \/ UNCHANGED sessionVars
  <2>1. UNCHANGED <<client, server, channels>>
    BY <1>6 DEF ProxyWorks, ProxyBurst, SessionTick, SessionGone, sessionVars, endpoints, channels
  <2>2. \/ UNCHANGED vars \/ Tick \/ PollToInside \/ PollToOutside
        \/ BurstFromOutside \/ BurstFromInside \/ TreatedInside \/ TreatedOutside
    BY <1>6 DEF ProxyWorks, ProxyBurst, SessionTick, SessionGone, Gone, sessionVars
  <2>3. Tick => ts = 0
    <3>1. CASE SessionTick
      BY <3>1 DEF SessionTick
    <3>2. CASE ~SessionTick
      <4>1. \/ PollToInside \/ PollToOutside \/ TreatedInside \/ TreatedOutside
            \/ BurstFromOutside \/ BurstFromInside \/ UNCHANGED vars
        BY <1>6, <3>2 DEF ProxyWorks, ProxyBurst, SessionGone, Gone, sessionVars
      <4>2. ts' = ts
        BY <4>1 DEF PollToInside, PollToOutside, TreatedInside, TreatedOutside,
          BurstFromOutside, BurstFromInside, vars, treatVars
      <4>3. ts \in 0 .. TsMod - 1 /\ TsMod \in Nat /\ TsMod >= 2
        BY TsModAssumption DEF IInv, TypeOK, Ts
      <4>4. TsNext(ts) # ts
        <5>1. CASE ts + 1 = TsMod
          BY <4>3, <5>1 DEF TsNext
        <5>2. CASE ts + 1 # TsMod
          BY <4>3, <5>2 DEF TsNext
        <5>3. QED
          BY <5>1, <5>2
      <4>5. QED
        BY <4>2, <4>4 DEF Tick, s_increment_timestamp
    <3>3. QED
      BY <3>1, <3>2
  <2>4. events' \in 0 .. MaxEvents
    BY <1>1, <1>6 DEF ProxyWorks, ProxyBurst, SessionTick, SessionGone, sessionVars, Happens
  <2>5. QED
    BY <2>1, <2>2, <2>3, <2>4, QuietMoves
<1>7. QED
  BY <1>2, <1>3, <1>4, <1>5, <1>6 DEF SessionNext, Proxy

\* What the treatment makes of a segment is a segment.
LEMMA TreatedSegments ==
  ASSUME IInv, SessionTypeOK, NEW p \in Segment, NEW q,
         PassedIn(p, q) \/ AnsweredOut(p, q) \/ PassedOut(p, q) \/ ReleasedIn(p, q)
  PROVE  q \in Segment
<1>1. /\ p \in Packet /\ p.conn = Conn /\ p.seq \in Seqs /\ p.ack \in Seqs
      /\ p.seq \in Int /\ p.ack \in Int /\ Conn \in Conns
  BY SegmentFacts, SeqArithmetic, SessionConstants
<1>2. HasEntry(Conn) => table[Conn].offset \in Int
  BY ConnEntryTyped, SeqArithmetic DEF ConnEntry, Info
<1>3. \A n \in Seqs : [p EXCEPT !.ack = n] \in Segment /\ [p EXCEPT !.seq = n] \in Segment
  BY <1>1, PacketFields DEF Segment, Packet
<1>4. HeldFirst \subseteq Segment
  BY TypesAre DEF Contained
<1>5. \A flags \in SUBSET FlagBits, s \in Seqs, a \in Seqs :
        [conn |-> p.conn, flags |-> flags, seq |-> s, ack |-> a] \in Segment
  BY <1>1 DEF Segment, Packet
<1>6. {"SYN"} \in SUBSET FlagBits /\ {"RST"} \in SUBSET FlagBits /\ {"SYN", "ACK"} \in SUBSET FlagBits
  BY DEF FlagBits
<1>7. CASE PassedIn(p, q)
  <2>1. SeqSub(p.seq, 1) \in Seqs /\ 123 % SeqMod \in Seqs /\ 0 \in Seqs
    BY <1>1, SeqArithmetic
  <2>2. HasEntry(Conn) => SeqSub(p.ack, table[Conn].offset) \in Seqs
    BY <1>1, <1>2, SeqArithmetic
  <2>3. PICK n \in Seqs : n = 123 % SeqMod
    BY <2>1
  <2>4. CASE q = [conn |-> p.conn, flags |-> {"SYN"}, seq |-> SeqSub(p.seq, 1), ack |-> 123 % SeqMod]
    BY <1>5, <1>6, <2>1, <2>3, <2>4
  <2>5. CASE q = [conn |-> p.conn, flags |-> {"RST"}, seq |-> p.ack, ack |-> 0]
    BY <1>1, <1>5, <1>6, <2>1, <2>5
  <2>6. CASE HasEntry(p.conn) /\ q = [p EXCEPT !.ack = SeqSub(@, table[p.conn].offset)]
    BY <1>1, <1>3, <2>2, <2>6
  <2>7. QED
    BY <1>7, <2>4, <2>5, <2>6 DEF PassedIn
<1>8. CASE AnsweredOut(p, q)
  <2>1. Cookie(p.conn, ts) \in Seqs /\ SeqAdd(p.seq, 1) \in Seqs
    BY <1>1, CookieIsSeq, SeqArithmetic DEF IInv, TypeOK, Cookie
  <2>2. QED
    BY <1>5, <1>6, <1>8, <2>1 DEF AnsweredOut
<1>9. CASE PassedOut(p, q)
  <2>1. HasEntry(Conn) => SeqAdd(p.seq, table[Conn].offset) \in Seqs
    BY <1>1, <1>2, SeqArithmetic
  <2>2. QED
    BY <1>1, <1>3, <1>9, <2>1 DEF PassedOut
<1>10. CASE ReleasedIn(p, q)
  <2>1. PICK h \in HeldFirst : q = [h EXCEPT !.ack = SeqAdd(p.seq, 1)]
    BY <1>1, <1>10 DEF ReleasedIn, HeldFirst
  <2>2. h \in Segment /\ SeqAdd(p.seq, 1) \in Seqs
    BY <1>1, <1>4, SeqArithmetic
  <2>3. QED
    BY <2>1, <2>2, PacketFields DEF Segment, Packet
<1>11. QED
  BY <1>7, <1>8, <1>9, <1>10

\* Every step keeps the types.
LEMMA TypesStep ==
  ASSUME IInv, SessionTypeOK, [SessionNext]_sessionVars
  PROVE  SessionTypeOK'
<1>1. events' \in 0 .. MaxEvents
  BY SessionSteps
<1>2. /\ client \in ClientEndpoints /\ server \in ServerEndpoints /\ HeldFirst \subseteq Segment
  BY TypesAre DEF ClientEndpoints, ServerEndpoints, ClientStates, ServerStates, Contained
<1>3. \A p \in ClientToProxy \cup ProxyToServer \cup ServerToProxy \cup ProxyToClient :
        p \in Segment
  BY WaysTyped
<1>4. SUFFICES /\ client' \in ClientEndpoints /\ server' \in ServerEndpoints
               /\ Networks' /\ HeldFirst' \subseteq Segment
               /\ ClientToProxy' \cup ProxyToServer' \cup ServerToProxy' \cup ProxyToClient'
                    \subseteq Segment
  <2>1. ASSUME ClientToProxy' \cup ProxyToServer' \cup ServerToProxy' \cup ProxyToClient'
                 \subseteq Segment,
               HeldFirst' \subseteq Segment
        PROVE  Contained'
    <3>1. /\ InsideWaiting' \subseteq ClientToProxy' /\ InsideDone' \subseteq ProxyToServer'
          /\ OutsideWaiting' \subseteq ServerToProxy' /\ OutsideDone' \subseteq ProxyToClient'
      BY DEF ClientToProxy, ProxyToServer, ServerToProxy, ProxyToClient, InsideWaiting,
        InsideDone, OutsideWaiting, OutsideDone
    <3>2. QED
      BY <2>1, <3>1 DEF Contained
  <2>2. SessionTypeOK' <=>
          (/\ client \in Endpoint({"closed", "syn_sent", "established", "reset"})
           /\ server \in Endpoint({"listen", "syn_rcvd", "established", "reset"})
           /\ Networks /\ events \in 0 .. MaxEvents /\ Contained)'
    BY TypesAre, PTL
  <2>3. QED
    BY <1>1, <2>1, <2>2 DEF ClientEndpoints, ServerEndpoints, ClientStates, ServerStates
<1>5. UNCHANGED vars => HeldFirst' = HeldFirst
  BY DEF vars, treatVars, HeldFirst, HasEntry, Held
<1>6. CASE ClientSays /\ UNCHANGED <<vars, server>>
  <2>1. PICK Q : ClientDoes(Q) /\ Ways(Q, {}, {}, {}) /\ Networks'
    BY <1>6 DEF ClientSays
  <2>2. client' \in ClientEndpoints /\ Q \subseteq Segment
    BY <2>1, ClientTypes
  <2>3. QED
    BY <1>2, <1>3, <1>5, <1>6, <2>1, <2>2 DEF Ways
<1>7. CASE ServerSays /\ UNCHANGED <<vars, client>>
  <2>1. PICK Q : ServerDoes(Q) /\ Ways({}, {}, Q, {}) /\ Networks'
    BY <1>7 DEF ServerSays
  <2>2. server' \in ServerEndpoints /\ Q \subseteq Segment
    BY <2>1, ServerTypes
  <2>3. QED
    BY <1>2, <1>3, <1>5, <1>7, <2>1, <2>2 DEF Ways
<1>8. CASE Timeout
  BY <1>2, <1>3, <1>5, <1>8, TimeoutSpeaks DEF Ways
<1>9. CASE Moves
  BY <1>2, <1>3, <1>9 DEF Moves, Ways
<1>10. CASE Treats
  <2>1. /\ client' = client /\ server' = server /\ Networks'
    BY <1>10 DEF Treats
  <2>2. CASE \E p \in Segment : TreatsOutside(p)
    <3>1. PICK p \in Segment : TreatsOutside(p)
      BY <2>2
    <3>2. ClientToProxy' \cup ProxyToServer' \cup ServerToProxy' \cup ProxyToClient' \subseteq Segment
      BY <1>3, <3>1, TreatedSegments DEF TreatsOutside
    <3>3. HeldFirst' \subseteq Segment
      BY <1>2, <3>1 DEF TreatsOutside, EntryFromOutside, SameEntry
    <3>4. QED
      BY <1>2, <2>1, <3>2, <3>3
  <2>3. CASE \E p \in Segment : TreatsInside(p)
    <3>1. PICK p \in Segment : TreatsInside(p)
      BY <2>3
    <3>2. ClientToProxy' \cup ProxyToServer' \cup ServerToProxy' \cup ProxyToClient' \subseteq Segment
      BY <1>3, <3>1, TreatedSegments DEF TreatsInside
    <3>3. HeldFirst' \subseteq Segment
      BY <1>2, <3>1 DEF TreatsInside, EntryFromInside, SameEntry
    <3>4. QED
      BY <1>2, <2>1, <3>2, <3>3
  <2>4. QED
    BY <1>10, <2>2, <2>3 DEF Treats
<1>11. QED
  BY <1>6, <1>7, <1>8, <1>9, <1>10, SessionSteps

------------------------------------------------------------------------------
(* A FIN seen has been sent, and no entry goes before both have been.      *)

\* What is treated as a FIN or an RST carries that flag.
LEMMA KindsOnly ==
  ASSUME NEW f
  PROVE  /\ Kind(f) = "FIN" => "FIN" \in f
         /\ Kind(f) = "RST" => IsRst(f)
<1>1. CASE IsSynAck(f) \/ IsSyn(f) \/ IsRst(f) \/ IsFin(f) \/ IsAck(f)
  <2>1. /\ Kind(f) = "FIN" => IsFin(f)
        /\ Kind(f) = "RST" => IsRst(f)
    BY <1>1, Kinds
  <2>2. QED
    BY <2>1 DEF IsFin
<1>2. CASE ~(IsSynAck(f) \/ IsSyn(f) \/ IsRst(f) \/ IsFin(f) \/ IsAck(f))
  BY <1>2 DEF Kind
<1>3. QED
  BY <1>1, <1>2

\* Which segment a step of the worker treats.
LEMMA TreatedKind ==
  ASSUME IInv, NEW p, NEW side, NEW kind, NEW c, Treated(side, kind, c)
  PROVE  /\ TreatInside /\ TreatsOutside(p) =>
              /\ side = "outside" /\ c = p.conn
              /\ kind = "FIN" => "FIN" \in p.flags
              /\ kind = "RST" => TreatsRst
         /\ TreatOutside /\ TreatsInside(p) =>
              /\ side = "inside" /\ c = p.conn
              /\ kind = "FIN" => "FIN" \in p.flags
              /\ kind = "RST" => TreatsRst
<1>1. ASSUME TreatInside, TreatsOutside(p)
      PROVE  /\ side = "outside" /\ c = p.conn
             /\ kind = "FIN" => "FIN" \in p.flags
             /\ kind = "RST" => TreatsRst
  <2>1. pc = "treat_in" /\ Tcp(toInside) /\ p = Current(toInside)
    BY <1>1 DEF TreatInside, TreatsOutside
  <2>2. Treated("outside", Kind(Flags(toInside)), Current(toInside).conn)
    BY <2>1, TreatedInsideSegment
  <2>3. [from |-> side, conn |-> c, kind |-> kind] =
          [from |-> "outside", conn |-> Current(toInside).conn, kind |-> Kind(Flags(toInside))]
    BY <2>2 DEF Treated
  <2>4. side = "outside" /\ c = Current(toInside).conn /\ kind = Kind(Flags(toInside))
    BY <2>3
  <2>5. QED
    BY <2>1, <2>4, KindsOnly DEF TreatsRst, Flags
<1>2. ASSUME TreatOutside, TreatsInside(p)
      PROVE  /\ side = "inside" /\ c = p.conn
             /\ kind = "FIN" => "FIN" \in p.flags
             /\ kind = "RST" => TreatsRst
  <2>1. pc = "treat_out" /\ Tcp(toOutside) /\ p = Current(toOutside)
    BY <1>2 DEF TreatOutside, TreatsInside
  <2>2. Treated("inside", Kind(Flags(toOutside)), Current(toOutside).conn)
    BY <2>1, TreatedOutsideSegment
  <2>3. [from |-> side, conn |-> c, kind |-> kind] =
          [from |-> "inside", conn |-> Current(toOutside).conn, kind |-> Kind(Flags(toOutside))]
    BY <2>2 DEF Treated
  <2>4. side = "inside" /\ c = Current(toOutside).conn /\ kind = Kind(Flags(toOutside))
    BY <2>3
  <2>5. QED
    BY <2>1, <2>4, KindsOnly DEF TreatsRst, Flags
<1>3. QED
  BY <1>1, <1>2

\* What a change of an entry does to the FINs seen, and when it ends it.
LEMMA ChangeOfEntry ==
  ASSUME IInv, NEW c \in Conns, ChangesEntry(c)
  PROVE  /\ HasEntry(Conn)' =>
              /\ table'[Conn].finseen_to_inside =>
                   \/ HasEntry(Conn) /\ table[Conn].finseen_to_inside
                   \/ Treated("outside", "FIN", Conn)
              /\ table'[Conn].finseen_to_outside =>
                   \/ HasEntry(Conn) /\ table[Conn].finseen_to_outside
                   \/ Treated("inside", "FIN", Conn)
         /\ HasEntry(Conn) /\ ~HasEntry(Conn)' => Erases(Conn)
<1>1. ConnEntry
  BY ConnEntryTyped
<1>2. CASE c # Conn
  <2>1. table'[Conn] = table[Conn]
    BY <1>1, <1>2 DEF ConnEntry, ChangesEntry, MakesPending, MakesLocal, Insert, Erases,
      Erase, SeesFin, Queues, Opens
  <2>2. QED
    BY <2>1 DEF HasEntry
<1>3. CASE c = Conn
  <2>1. CASE MakesPending(c) \/ MakesLocal(c)
    <3>1. PICK m \in Mbufs \cup {Null} :
            (table'[Conn] = table[Conn] /\ HasEntry(Conn)) \/ table'[Conn] = NewInfo(m)
      BY <1>1, <1>3, <2>1 DEF ConnEntry, MakesPending, MakesLocal, Insert
    <3>2. /\ NewInfo(m) # NoEntry
          /\ ~NewInfo(m).finseen_to_inside /\ ~NewInfo(m).finseen_to_outside
      BY NewInfoIsInfo, NoEntryAssumption DEF NewInfo
    <3>3. QED
      BY <3>1, <3>2 DEF HasEntry
  <2>2. CASE Erases(c)
    BY <1>1, <1>3, <2>2 DEF Erases, Erase, HasEntry, ConnEntry
  <2>3. CASE SeesFin(c)
    <3>1. HasEntry(Conn) /\ table[Conn] \in Info
      BY <1>1, <1>3, <2>3 DEF SeesFin, ConnEntry
    <3>2. /\ Treated("outside", "FIN", Conn) =>
               table'[Conn] \in {FinAnsweredInside(table[Conn]),
                                 [table[Conn] EXCEPT !.finseen_to_inside = TRUE]}
                 \/ Treated("inside", "FIN", Conn)
          /\ ~Treated("outside", "FIN", Conn) => Treated("inside", "FIN", Conn) /\
               table'[Conn] \in {FinAnsweredOutside(table[Conn]),
                                 [table[Conn] EXCEPT !.finseen_to_outside = TRUE]}
      BY <1>1, <1>3, <2>3 DEF SeesFin, ConnEntry
    <3>3. /\ FinAnsweredInside(table[Conn]) \in Info
          /\ [table[Conn] EXCEPT !.finseen_to_inside = TRUE] \in Info
          /\ FinAnsweredOutside(table[Conn]) \in Info
          /\ [table[Conn] EXCEPT !.finseen_to_outside = TRUE] \in Info
      BY <3>1 DEF Info, FinAnsweredInside, FinAnsweredOutside
    <3>4. /\ FinAnsweredInside(table[Conn]).finseen_to_outside = table[Conn].finseen_to_outside
          /\ [table[Conn] EXCEPT !.finseen_to_inside = TRUE].finseen_to_outside =
               table[Conn].finseen_to_outside
          /\ FinAnsweredOutside(table[Conn]).finseen_to_inside = table[Conn].finseen_to_inside
          /\ [table[Conn] EXCEPT !.finseen_to_outside = TRUE].finseen_to_inside =
               table[Conn].finseen_to_inside
      BY <3>1 DEF Info, FinAnsweredInside, FinAnsweredOutside
    <3>5. table'[Conn] \in {FinAnsweredInside(table[Conn]), FinAnsweredOutside(table[Conn]),
                            [table[Conn] EXCEPT !.finseen_to_inside = TRUE],
                            [table[Conn] EXCEPT !.finseen_to_outside = TRUE]}
      BY <1>1, <1>3, <2>3 DEF SeesFin, ConnEntry
    <3>6. HasEntry(Conn)'
      BY <3>3, <3>5, NoEntryAssumption DEF HasEntry
    <3>7. QED
      BY <3>1, <3>2, <3>4, <3>6
  <2>4. CASE Queues(c)
    <3>1. HasEntry(Conn) /\ table[Conn] \in Info
      BY <1>1, <1>3, <2>4 DEF Queues, ConnEntry
    <3>2. PICK m \in Mbufs : table'[Conn] = Queued(table[Conn], m)
      BY <1>1, <1>3, <2>4 DEF Queues, ConnEntry
    <3>3. /\ Queued(table[Conn], m) \in Info
          /\ Queued(table[Conn], m).finseen_to_inside = table[Conn].finseen_to_inside
          /\ Queued(table[Conn], m).finseen_to_outside = table[Conn].finseen_to_outside
      BY <3>1, InfoUpdates DEF Info, Queued
    <3>4. QED
      BY <3>1, <3>2, <3>3, NoEntryAssumption DEF HasEntry
  <2>5. CASE Opens(c)
    <3>1. HasEntry(Conn) /\ table[Conn] \in Info
      BY <1>1, <1>3, <2>5 DEF Opens, ConnEntry
    <3>2. PICK n \in Seqs : table'[Conn] = Released(table[Conn], n)
      BY <1>1, <1>3, <2>5 DEF Opens, ConnEntry
    <3>3. /\ Released(table[Conn], n) \in Info
          /\ Released(table[Conn], n).finseen_to_inside = table[Conn].finseen_to_inside
          /\ Released(table[Conn], n).finseen_to_outside = table[Conn].finseen_to_outside
      BY <3>1, InfoUpdates DEF Info, Released
    <3>4. QED
      BY <3>1, <3>2, <3>3, NoEntryAssumption DEF HasEntry
  <2>6. QED
    BY <2>1, <2>2, <2>3, <2>4, <2>5 DEF ChangesEntry
<1>4. QED
  BY <1>2, <1>3

\* The fields of an endpoint after the updates of the code.
LEMMA UpdatedFields ==
  ASSUME NEW states, NEW e \in Endpoint(states)
  PROVE  /\ \A s, n : /\ [e EXCEPT !.st = s, !.snd = n].st = s
                      /\ [e EXCEPT !.st = s, !.snd = n].snd = n
         /\ \A n : /\ [e EXCEPT !.snd = n].st = e.st /\ [e EXCEPT !.snd = n].snd = n
                   /\ [e EXCEPT !.snd = n].una = e.una /\ [e EXCEPT !.snd = n].irs = e.irs
                   /\ [e EXCEPT !.snd = n].rcv = e.rcv
         /\ \A s, n, q, r :
              /\ [e EXCEPT !.st = s, !.una = n, !.irs = q, !.rcv = r].st = s
              /\ [e EXCEPT !.st = s, !.una = n, !.irs = q, !.rcv = r].snd = e.snd
              /\ [e EXCEPT !.st = s, !.una = n, !.irs = q, !.rcv = r].una = n
              /\ [e EXCEPT !.st = s, !.una = n, !.irs = q, !.rcv = r].irs = q
              /\ [e EXCEPT !.st = s, !.una = n, !.irs = q, !.rcv = r].rcv = r
         /\ \A s, n : /\ [e EXCEPT !.st = s, !.una = n].st = s
                      /\ [e EXCEPT !.st = s, !.una = n].snd = e.snd
                      /\ [e EXCEPT !.st = s, !.una = n].una = n
                      /\ [e EXCEPT !.st = s, !.una = n].irs = e.irs
                      /\ [e EXCEPT !.st = s, !.una = n].rcv = e.rcv
BY DEF Endpoint

\* A pure ACK, a refusal and the first two units carry no FIN.
LEMMA FinUnits ==
  /\ \A e, n : n \in 0 .. 2 /\ n # 2 => "FIN" \notin UnitFlags(e, n)
  /\ "FIN" \notin {"ACK"} /\ "FIN" \notin {"RST"}
BY DEF UnitFlags

\* The client sends a FIN as its last unit and takes none back.
LEMMA ClientFins ==
  ASSUME SessionTypeOK, FinInv, NEW Q, ClientDoes(Q)
  PROVE  /\ client.snd = 3 => client'.snd = 3
         /\ client'.st \in {"closed", "syn_sent"} => client'.snd <= 1
         /\ \A p \in Q : "FIN" \in p.flags => client'.snd = 3
<1>1. /\ client \in ClientEndpoints /\ Peer(client) /\ client.st \in ClientStates
      /\ client.st \in {"closed", "syn_sent"} => client.snd <= 1
  BY TypesAre, EndpointIsPeer DEF ClientEndpoints, ClientStates, FinInv
<1>2. client' \in ClientEndpoints /\ Peer(client') /\ ClientIss \in Seqs
  BY ClientTypes, EndpointIsPeer, SessionConstants DEF ClientEndpoints
<1>3. Pure(client', ClientIss).flags = {"ACK"}
  BY <1>2, PureIsSegment
<1>4. \A p \in ProxyToClient : Refusal(p).flags = {"RST"}
  BY DEF Refusal
<1>5. "reset" \in ClientStates
  BY DEF ClientStates
<1>6. CASE client.st = "closed" /\ client' = [client EXCEPT !.st = "syn_sent", !.snd = 1]
           /\ Q = {Unit(client', ClientIss, 0)}
  <2>1. client'.st = "syn_sent" /\ client'.snd = 1
    BY <1>1, <1>6, UpdatedFields DEF ClientEndpoints
  <2>2. Unit(client', ClientIss, 0).flags = UnitFlags(client', 0) /\ 0 \in 0 .. 2
    BY <1>2, UnitIsSegment
  <2>3. QED
    BY <1>1, <1>6, <2>1, <2>2, FinUnits
<1>7. CASE Ready(client) /\ client' = [client EXCEPT !.snd = @ + 1]
           /\ Q = {Unit(client, ClientIss, client.snd)}
  <2>1. client'.st = client.st /\ client'.snd = client.snd + 1 /\ client.snd \in 0 .. 2
        /\ client.st = "established"
    BY <1>1, <1>7, UpdatedFields DEF Ready, ClientEndpoints, Peer
  <2>2. Unit(client, ClientIss, client.snd).flags = UnitFlags(client, client.snd)
    BY <1>1, <1>2, <2>1, UnitIsSegment
  <2>3. QED
    BY <1>1, <1>7, <2>1, <2>2, FinUnits
<1>8. CASE /\ client.st = "syn_sent"
           /\ \E p \in ProxyToClient :
                /\ Acknowledges(p, client, ClientIss) /\ IsSynAck(p.flags)
                /\ client' = [client EXCEPT !.st = "established", !.una = 1, !.irs = p.seq, !.rcv = 1]
           /\ Q = {Pure(client', ClientIss)}
  <2>1. client'.st = "established" /\ client'.snd = client.snd
    BY <1>1, <1>8, UpdatedFields DEF ClientEndpoints
  <2>2. QED
    BY <1>3, <1>8, <2>1
<1>9. CASE client' = client /\ (Q = {} \/ \E p \in ProxyToClient : Q = {Refusal(p)})
  BY <1>1, <1>4, <1>9
<1>10. CASE /\ client.st = "established"
            /\ \E p \in ProxyToClient : client' = Advanced(client, ClientIss, p)
            /\ Q \subseteq {Pure(client', ClientIss)}
  <2>1. client'.snd = client.snd /\ client'.st \in {"established", "reset"}
    BY <1>1, <1>2, <1>5, <1>10, AdvancedIsEndpoint DEF ClientEndpoints
  <2>2. QED
    BY <1>3, <1>10, <2>1
<1>11. QED
  BY <1>6, <1>7, <1>8, <1>9, <1>10 DEF ClientDoes

\* So does the server.
LEMMA ServerFins ==
  ASSUME SessionTypeOK, FinInv, NEW Q, ServerDoes(Q)
  PROVE  /\ server.snd = 3 => server'.snd = 3
         /\ server'.st \in {"listen", "syn_rcvd"} => server'.snd <= 1
         /\ \A p \in Q : "FIN" \in p.flags => server'.snd = 3
<1>1. /\ server \in ServerEndpoints /\ Peer(server) /\ server.st \in ServerStates
      /\ server.st \in {"listen", "syn_rcvd"} => server.snd <= 1
  BY TypesAre, EndpointIsPeer DEF ServerEndpoints, ServerStates, FinInv
<1>2. server' \in ServerEndpoints /\ Peer(server') /\ ServerIss \in Seqs
  BY ServerTypes, EndpointIsPeer, SessionConstants DEF ServerEndpoints
<1>3. Pure(server', ServerIss).flags = {"ACK"}
  BY <1>2, PureIsSegment
<1>4. \A p \in ProxyToServer : Refusal(p).flags = {"RST"}
  BY DEF Refusal
<1>5. "reset" \in ServerStates /\ "established" \in ServerStates /\ 1 \in 0 .. 3 /\ 0 \in 0 .. 2
  BY DEF ServerStates
<1>6. CASE server' = server /\ (Q = {} \/ \E p \in ProxyToServer : Q = {Refusal(p)})
  BY <1>1, <1>4, <1>6
<1>7. CASE Ready(server) /\ server' = [server EXCEPT !.snd = @ + 1]
           /\ Q = {Unit(server, ServerIss, server.snd)}
  <2>1. server'.st = server.st /\ server'.snd = server.snd + 1 /\ server.snd \in 0 .. 2
        /\ server.st = "established"
    BY <1>1, <1>7, UpdatedFields DEF Ready, ServerEndpoints, Peer
  <2>2. Unit(server, ServerIss, server.snd).flags = UnitFlags(server, server.snd)
    BY <1>1, <1>2, <2>1, UnitIsSegment
  <2>3. QED
    BY <1>1, <1>7, <2>1, <2>2, FinUnits
<1>8. CASE /\ server.st = "listen" /\ Q = {Unit(server', ServerIss, 0)}
           /\ server'.st = "syn_rcvd" /\ server'.snd = 1
  <2>1. Unit(server', ServerIss, 0).flags = UnitFlags(server', 0)
    BY <1>2, <1>5, UnitIsSegment
  <2>2. QED
    BY <1>1, <1>5, <1>8, <2>1, FinUnits
<1>9. CASE server.st = "syn_rcvd" /\ server' = Fresh("listen") /\ Q = {}
  BY <1>1, <1>9 DEF Fresh
<1>10. CASE server.st = "syn_rcvd" /\ server' = server /\ Q = {Unit(server, ServerIss, 0)}
  <2>1. Unit(server, ServerIss, 0).flags = UnitFlags(server, 0)
    BY <1>1, <1>2, <1>5, UnitIsSegment
  <2>2. QED
    BY <1>1, <1>5, <1>10, <2>1, FinUnits
<1>11. CASE /\ \E p \in ProxyToServer :
                \/ server' = Advanced([server EXCEPT !.st = "established", !.una = 1], ServerIss, p)
                \/ server.st = "established" /\ server' = Advanced(server, ServerIss, p)
            /\ Q \subseteq {Pure(server', ServerIss)}
  <2> DEFINE open == [server EXCEPT !.st = "established", !.una = 1]
  <2>1. PICK p \in ProxyToServer :
          \/ server' = Advanced(open, ServerIss, p)
          \/ server.st = "established" /\ server' = Advanced(server, ServerIss, p)
    BY <1>11
  <2>2. open \in ServerEndpoints /\ open.st = "established" /\ open.snd = server.snd
    <3>1. PICK s \in ServerStates, n \in 0 .. 3 : s = "established" /\ n = 1
      BY <1>5
    <3>2. [server EXCEPT !.st = s, !.una = n] \in ServerEndpoints
      BY <1>1, EndpointUpdates DEF ServerEndpoints
    <3>3. QED
      BY <1>1, <3>1, <3>2, UpdatedFields DEF ServerEndpoints
  <2> HIDE DEF open
  <2>3. server'.snd = server.snd /\ server'.st \in {"established", "reset"}
    BY <1>1, <1>2, <1>5, <2>1, <2>2, AdvancedIsEndpoint DEF ServerEndpoints
  <2>4. QED
    BY <1>3, <1>11, <2>3
<1>12. QED
  BY <1>6, <1>7, <1>8, <1>9, <1>10, <1>11 DEF ServerDoes

\* What is sent again with a FIN is the third unit.
LEMMA TimeoutFins ==
  ASSUME SessionTypeOK, NEW A, NEW C, TimeoutSays(A, C)
  PROVE  /\ \A p \in A : "FIN" \in p.flags => client.snd = 3
         /\ \A p \in C : "FIN" \in p.flags => server.snd = 3
<1>1. /\ Peer(client) /\ Peer(server) /\ ClientIss \in Seqs /\ ServerIss \in Seqs
  BY TypesAre, EndpointIsPeer, SessionConstants
<1>2. ASSUME NEW e, Peer(e), NEW iss \in Seqs, Outstanding(e), "FIN" \in Unit(e, iss, e.una).flags
      PROVE  e.snd = 3
  <2>1. e.una \in 0 .. 2 /\ e.una < e.snd /\ e.snd \in 0 .. 3
    BY <1>2, OutstandingUnit DEF Peer, Outstanding
  <2>2. Unit(e, iss, e.una).flags = UnitFlags(e, e.una)
    BY <1>2, <2>1, UnitIsSegment
  <2>3. e.una = 2
    BY <1>2, <2>1, <2>2, FinUnits
  <2>4. QED
    BY <2>1, <2>3
<1>3. QED
  BY <1>1, <1>2 DEF TimeoutSays

\* Every step keeps what is said of the FINs.
LEMMA FinStep ==
  ASSUME IInv, SessionTypeOK, FinInv, [SessionNext]_sessionVars
  PROVE  FinInv'
<1>1. UNCHANGED vars => UNCHANGED table
  BY DEF vars, treatVars
<1>2. UNCHANGED table => HasEntry(Conn)' = HasEntry(Conn)
  BY DEF HasEntry
<1>3. CASE ClientSays /\ UNCHANGED <<vars, server>>
  <2>1. PICK Q : ClientDoes(Q) /\ Ways(Q, {}, {}, {})
    BY <1>3 DEF ClientSays
  <2>2. /\ client.snd = 3 => client'.snd = 3
        /\ client'.st \in {"closed", "syn_sent"} => client'.snd <= 1
        /\ \A p \in Q : "FIN" \in p.flags => client'.snd = 3
    BY <2>1, ClientFins
  <2>3. QED
    BY <1>1, <1>2, <1>3, <2>1, <2>2 DEF FinInv, Ways
<1>4. CASE ServerSays /\ UNCHANGED <<vars, client>>
  <2>1. PICK Q : ServerDoes(Q) /\ Ways({}, {}, Q, {})
    BY <1>4 DEF ServerSays
  <2>2. /\ server.snd = 3 => server'.snd = 3
        /\ server'.st \in {"listen", "syn_rcvd"} => server'.snd <= 1
        /\ \A p \in Q : "FIN" \in p.flags => server'.snd = 3
    BY <2>1, ServerFins
  <2>3. QED
    BY <1>1, <1>2, <1>4, <2>1, <2>2 DEF FinInv, Ways
<1>5. CASE Timeout
  <2>1. PICK A, C : TimeoutSays(A, C) /\ Ways(A, {}, C, {})
    BY <1>5, TimeoutSpeaks
  <2>2. UNCHANGED <<vars, client, server>>
    BY <1>5, TimeoutSpeaks
  <2>3. /\ \A p \in A : "FIN" \in p.flags => client.snd = 3
        /\ \A p \in C : "FIN" \in p.flags => server.snd = 3
    BY <2>1, TimeoutFins
  <2>4. QED
    BY <1>1, <1>2, <2>1, <2>2, <2>3 DEF FinInv, Ways
<1>6. CASE Moves
  BY <1>2, <1>6 DEF Moves, Ways, FinInv
<1>7. CASE Treats
  <2>1. client' = client /\ server' = server
    BY <1>7 DEF Treats
  <2>2. ClientToProxy' \subseteq ClientToProxy /\ ServerToProxy' \subseteq ServerToProxy
    BY <1>7 DEF Treats, TreatsOutside, TreatsInside
  <2>3. /\ Treated("outside", "FIN", Conn) => client.snd = 3
        /\ Treated("inside", "FIN", Conn) => server.snd = 3
    <3>1. CASE TreatInside /\ \E p \in Segment : TreatsOutside(p)
      <4>1. PICK p \in Segment : TreatsOutside(p)
        BY <3>1
      <4>2. p \in ClientToProxy
        BY <4>1 DEF TreatsOutside
      <4>3. Treated("outside", "FIN", Conn) => "FIN" \in p.flags
        BY <3>1, <4>1, TreatedKind
      <4>4. ~Treated("inside", "FIN", Conn)
        BY <3>1, <4>1, TreatedKind
      <4>5. QED
        BY <4>2, <4>3, <4>4 DEF FinInv
    <3>2. CASE TreatOutside /\ \E p \in Segment : TreatsInside(p)
      <4>1. PICK p \in Segment : TreatsInside(p)
        BY <3>2
      <4>2. p \in ServerToProxy
        BY <4>1 DEF TreatsInside
      <4>3. Treated("inside", "FIN", Conn) => "FIN" \in p.flags
        BY <3>2, <4>1, TreatedKind
      <4>4. ~Treated("outside", "FIN", Conn)
        BY <3>2, <4>1, TreatedKind
      <4>5. QED
        BY <4>2, <4>3, <4>4 DEF FinInv
    <3>3. QED
      BY <1>7, <3>1, <3>2 DEF Treats
  <2>4. table' = table \/ \E c \in Conns : ChangesEntry(c)
    BY <1>7, TableStepInside, TableStepOutside DEF Treats
  <2>5. HasEntry(Conn)' =>
          /\ table'[Conn].finseen_to_inside => client.snd = 3
          /\ table'[Conn].finseen_to_outside => server.snd = 3
    BY <1>2, <2>3, <2>4, ChangeOfEntry DEF FinInv
  <2>6. QED
    BY <2>1, <2>2, <2>5 DEF FinInv
<1>8. QED
  BY <1>3, <1>4, <1>5, <1>6, <1>7, SessionSteps

\* Nothing is under way at the start.
LEMMA NothingAtStart ==
  ASSUME SessionInit
  PROVE  /\ ClientToProxy = {} /\ ProxyToServer = {} /\ ServerToProxy = {}
         /\ ProxyToClient = {} /\ HeldFirst = {} /\ ~HasEntry(Conn)
         /\ Contained
<1>1. /\ toInside = EmptyContainer /\ toOutside = EmptyContainer
      /\ table = [c \in Conns |-> NoEntry] /\ Conn \in Conns
  BY SessionConstants DEF SessionInit, Init, TreatmentInit
<1>2. ~HasEntry(Conn)
  BY <1>1 DEF HasEntry
<1>3. \A slots \in SUBSET SlotIndex :
        Written(toInside, slots) = {} /\ Written(toOutside, slots) = {}
  BY <1>1 DEF Written, EmptyContainer
<1>4. InsideWaiting = {} /\ InsideDone = {} /\ OutsideWaiting = {} /\ OutsideDone = {}
  BY <1>3, WaitingSlots DEF InsideWaiting, InsideDone, OutsideWaiting, OutsideDone
<1>5. Range(<<>>) = {} /\ Strays("fromClient") = {} /\ Strays("toClient") = {}
  BY DEF Range, Strays, SessionInit
<1>6. /\ ClientToProxy = {} /\ ProxyToServer = {} /\ ServerToProxy = {} /\ ProxyToClient = {}
  BY <1>4, <1>5, WaysAre DEF SessionInit
<1>7. HeldFirst = {}
  BY <1>2 DEF HeldFirst
<1>8. QED
  BY <1>2, <1>4, <1>6, <1>7 DEF Contained

\* The inductive invariant holds at the start.
LEMMA CloseAtStart == SessionInit => CloseInv
<1> SUFFICES ASSUME SessionInit
             PROVE  CloseInv
  OBVIOUS
<1>1. IInv
  BY InitEstablishes DEF SessionInit
<1>2. SessionTypeOK
  <2>1. client \in Endpoint({"closed", "syn_sent", "established", "reset"})
    BY SeqArithmetic DEF SessionInit, Fresh, Endpoint
  <2>2. server \in Endpoint({"listen", "syn_rcvd", "established", "reset"})
    BY SeqArithmetic DEF SessionInit, Fresh, Endpoint
  <2>3. Networks
    <3>1. <<>> \in Seq(Segment)
      OBVIOUS
    <3>2. QED
      BY <3>1 DEF SessionInit, Networks
  <2>4. events \in 0 .. MaxEvents
    BY SessionConstants DEF SessionInit
  <2>5. QED
    BY <2>1, <2>2, <2>3, <2>4, NothingAtStart, TypesAre
<1>3. FinInv
  BY NothingAtStart DEF FinInv, SessionInit, Fresh
<1>4. QED
  BY <1>1, <1>2, <1>3 DEF CloseInv

\* Every step keeps it.
LEMMA CloseStep == CloseInv /\ [SessionNext]_sessionVars => CloseInv'
BY SessionSteps, TypesStep, FinStep DEF CloseInv

(***************************************************************************)
(* A FIN that the worker has seen was sent by a host that has sent all it  *)
(* had, whatever is lost, duplicated or sent again around the worker, and  *)
(* no other packet than those of the session is ever in its containers.    *)
(***************************************************************************)
THEOREM CloseInvHolds == SessionSpec => []CloseInv
BY CloseAtStart, CloseStep, PTL DEF SessionSpec

\* The entry goes with an RST or after both FINs.
LEMMA EntryEnds ==
  ASSUME CloseInv, [SessionNext]_sessionVars, HasEntry(Conn), ~HasEntry(Conn)'
  PROVE  TreatsRst \/ (client.snd = 3 /\ server.snd = 3)
<1>1. IInv /\ SessionTypeOK /\ FinInv
  BY DEF CloseInv
<1>2. UNCHANGED table => HasEntry(Conn)' = HasEntry(Conn)
  BY DEF HasEntry
<1>3. UNCHANGED vars => UNCHANGED table
  BY DEF vars, treatVars
<1>4. Treats
  <2>1. Timeout => UNCHANGED vars
    BY DEF Timeout
  <2>2. Moves => UNCHANGED table
    BY DEF Moves
  <2>3. QED
    BY <1>1, <1>2, <1>3, <2>1, <2>2, SessionSteps
<1>5. PICK c \in Conns : ChangesEntry(c)
  BY <1>1, <1>2, <1>4, TableStepInside, TableStepOutside DEF Treats
<1>6. Erases(Conn)
  BY <1>1, <1>5, ChangeOfEntry
<1>7. CASE table[Conn].finseen_to_inside /\ table[Conn].finseen_to_outside
  BY <1>1, <1>7 DEF FinInv
<1>8. CASE \E side \in {"inside", "outside"} : Treated(side, "RST", Conn)
  BY <1>1, <1>4, <1>8, TreatedKind DEF Treats
<1>9. QED
  BY <1>6, <1>7, <1>8 DEF Erases

(***************************************************************************)
(* Without an RST the entry of a connection stays in _info until both      *)
(* hosts have sent their FIN, for every number of losses, duplicates and   *)
(* retransmissions.                                                        *)
(***************************************************************************)
THEOREM EntryLastsHolds == SessionSpec => EntryLastsUntilBothClose
<1>1. CloseInv /\ [SessionNext]_sessionVars =>
        [HasEntry(Conn) /\ ~HasEntry(Conn)' =>
           TreatsRst \/ (client.snd = 3 /\ server.snd = 3)]_sessionVars
  BY EntryEnds
<1>2. QED
  BY <1>1, CloseInvHolds, PTL DEF SessionSpec, EntryLastsUntilBothClose

------------------------------------------------------------------------------
(* Sequence numbers that wrap around.                                      *)

\* Division with remainder.
LEMMA DivMod ==
  ASSUME NEW a \in Int, NEW m \in Nat \ {0}
  PROVE  a = m * (a \div m) + (a % m) /\ a % m \in 0 .. m - 1 /\ a \div m \in Int
OBVIOUS

\* The remainder is the only one.
LEMMA ModUnique ==
  ASSUME NEW m \in Nat \ {0}, NEW q \in Int, NEW r \in 0 .. m - 1
  PROVE  (m * q + r) % m = r
OBVIOUS

\* A sum may be reduced early.
LEMMA ModSum ==
  ASSUME NEW m \in Nat \ {0}, NEW a \in Int, NEW b \in Int
  PROVE  ((a % m) + b) % m = (a + b) % m
<1>1. PICK q \in Int : a = m * q + (a % m)
  BY DivMod
<1> DEFINE s == (a % m) + b
<1>2. s \in Int /\ a % m \in Int
  BY DivMod
<1>3. PICK p \in Int : s = m * p + (s % m)
  BY DivMod, <1>2
<1>4. a + b = m * (q + p) + (s % m)
  BY <1>1, <1>2, <1>3
<1>5. s % m \in 0 .. m - 1 /\ q + p \in Int
  BY <1>2, DivMod
<1>6. (m * (q + p) + (s % m)) % m = s % m
  BY <1>5, ModUnique
<1>7. QED
  BY <1>4, <1>6

\* So may a difference.
LEMMA ModDifference ==
  ASSUME NEW m \in Nat \ {0}, NEW a \in Int, NEW b \in Int
  PROVE  (b - (a % m)) % m = (b - a) % m
<1>1. PICK q \in Int : a = m * q + (a % m)
  BY DivMod
<1> DEFINE s == b - (a % m)
<1>2. s \in Int /\ a % m \in Int
  BY DivMod
<1>3. PICK p \in Int : s = m * p + (s % m)
  BY DivMod, <1>2
<1>4. b - a = m * (p - q) + (s % m)
  <2>1. m * (p - q) = m * p - m * q /\ m * p \in Int /\ m * q \in Int
    BY <1>1, <1>3
  <2>2. PICK mp \in Int, mq \in Int, am \in Int, sm \in Int :
          mp = m * p /\ mq = m * q /\ am = a % m /\ sm = s % m
    <3>1. s % m \in Int
      BY <1>2, DivMod
    <3>2. QED
      BY <1>2, <2>1, <3>1
  <2>3. a = mq + am /\ b - am = mp + sm
    BY <1>1, <1>3, <2>2
  <2>4. b - a = (mp - mq) + sm
    BY <2>3
  <2>5. QED
    BY <2>1, <2>2, <2>4
<1>5. s % m \in 0 .. m - 1 /\ p - q \in Int
  BY <1>2, DivMod
<1>6. (m * (p - q) + (s % m)) % m = s % m
  BY <1>5, ModUnique
<1>7. QED
  BY <1>4, <1>6

\* The laws of u_int32_t arithmetic.
LEMMA SeqLaws ==
  ASSUME NEW a \in Int, NEW b \in Int, NEW c \in Int, NEW d \in Int
  PROVE  /\ SeqAdd(SeqAdd(a, b), c) = SeqAdd(a, b + c)
         /\ SeqSub(SeqAdd(a, b), c) = SeqAdd(a, b - c)
         /\ SeqSub(SeqAdd(a, b), SeqAdd(c, d)) = SeqAdd(a - c, b - d)
         /\ SeqSub(SeqAdd(a, b), SeqSub(c, d)) = SeqAdd(a - c, b + d)
         /\ SeqAdd(SeqAdd(a, b), SeqSub(c, d)) = SeqAdd(a + c, b - d)
         /\ SeqSub(SeqSub(a, b), c) = SeqSub(a, b + c)
         /\ SeqSub(a, b) = SeqAdd(a, 0 - b)
<1>1. SeqMod \in Nat \ {0}
  BY SeqArithmetic
<1>2. \A x, y \in Int : /\ ((x % SeqMod) + y) % SeqMod = (x + y) % SeqMod
                        /\ (y - (x % SeqMod)) % SeqMod = (y - x) % SeqMod
                        /\ x % SeqMod \in Int
  <2> TAKE x, y \in Int
  <2>1. ((x % SeqMod) + y) % SeqMod = (x + y) % SeqMod
    BY <1>1, ModSum
  <2>2. (y - (x % SeqMod)) % SeqMod = (y - x) % SeqMod
    BY <1>1, ModDifference
  <2>3. x % SeqMod \in Int
    BY <1>1, DivMod
  <2>4. QED
    BY <2>1, <2>2, <2>3
<1> DEFINE M(x) == x % SeqMod
<1>3. \A x, y \in Int : /\ M(M(x) + y) = M(x + y) /\ M(y - M(x)) = M(y - x)
                        /\ M(M(x) - y) = M(x - y) /\ M(x) \in Int
  <2>1. \A x, y \in Int : M(x) - y = M(x) + (0 - y) /\ x - y = x + (0 - y) /\ 0 - y \in Int
    BY <1>2
  <2>2. QED
    BY <1>2, <2>1
<1>4. \A x, y : SeqAdd(x, y) = M(x + y) /\ SeqSub(x, y) = M(x - y)
  BY DEF SeqAdd, SeqSub
<1> HIDE DEF M
<1>5. M(M(a + b) + c) = M(a + (b + c))
  <2>1. (a + b) + c = a + (b + c) /\ a + b \in Int
    OBVIOUS
  <2>2. QED
    BY <1>3, <2>1
<1>6. M(M(a + b) - c) = M(a + (b - c))
  <2>1. (a + b) - c = a + (b - c) /\ a + b \in Int
    OBVIOUS
  <2>2. QED
    BY <1>3, <2>1
<1>7. M(M(a + b) - M(c + d)) = M((a - c) + (b - d))
  <2>1. (a + b) - (c + d) = (a - c) + (b - d) /\ a + b \in Int /\ c + d \in Int
    OBVIOUS
  <2>2. M(M(a + b) - M(c + d)) = M(M(a + b) - (c + d))
    BY <1>3, <2>1
  <2>3. QED
    BY <1>3, <2>1, <2>2
<1>8. M(M(a + b) - M(c - d)) = M((a - c) + (b + d))
  <2>1. (a + b) - (c - d) = (a - c) + (b + d) /\ a + b \in Int /\ c - d \in Int
    OBVIOUS
  <2>2. M(M(a + b) - M(c - d)) = M(M(a + b) - (c - d))
    BY <1>3, <2>1
  <2>3. QED
    BY <1>3, <2>1, <2>2
<1>9. M(M(a + b) + M(c - d)) = M((a + c) + (b - d))
  <2>1. (c - d) + (a + b) = (a + c) + (b - d) /\ a + b \in Int /\ c - d \in Int
    OBVIOUS
  <2>2. M(M(a + b) + M(c - d)) = M((a + b) + M(c - d))
    BY <1>3, <2>1
  <2>3. (a + b) + M(c - d) = M(c - d) + (a + b)
    BY <1>3, <2>1
  <2>4. QED
    BY <1>3, <2>1, <2>2, <2>3
<1>10. M(M(a - b) - c) = M(a - (b + c))
  <2>1. (a - b) - c = a - (b + c) /\ a - b \in Int
    OBVIOUS
  <2>2. QED
    BY <1>3, <2>1
<1>11. M(a - b) = M(a + (0 - b))
  <2>1. a - b = a + (0 - b)
    OBVIOUS
  <2>2. QED
    BY <2>1
<1>12. QED
  BY <1>4, <1>5, <1>6, <1>7, <1>8, <1>9, <1>10, <1>11

\* A number below SeqMod is its own remainder, and there are more than six.
LEMMA SeqSmall ==
  /\ \A a \in Seqs : SeqAdd(a, 0) = a /\ SeqSub(a, 0) = a
  /\ \A n \in 0 .. 6 : SeqAdd(0, n) = n /\ n \in Seqs
  /\ \A n \in 1 .. 6 : SeqAdd(0, 0 - n) = SeqMod - n
<1>1. SeqMod \in Nat \ {0} /\ SeqMod > 6
  BY SeqArithmetic, SessionAssumption
<1>2. \A a \in 0 .. SeqMod - 1 : a % SeqMod = a
  BY <1>1
<1>3. \A n \in 1 .. 6 : (0 - n) % SeqMod = SeqMod - n
  <2> SUFFICES ASSUME NEW n \in 1 .. 6
               PROVE  (0 - n) % SeqMod = SeqMod - n
    OBVIOUS
  <2>1. SeqMod - n \in 0 .. SeqMod - 1 /\ 0 - n = SeqMod * (0 - 1) + (SeqMod - n)
    BY <1>1
  <2>2. (SeqMod * (0 - 1) + (SeqMod - n)) % SeqMod = SeqMod - n
    BY <1>1, <2>1, ModUnique
  <2>3. QED
    BY <2>1, <2>2
<1>4. \A a \in Seqs : a \in Int /\ a + 0 = a /\ a - 0 = a
  BY SeqArithmetic
<1>5. \A n \in 0 .. 6 : n \in 0 .. SeqMod - 1 /\ 0 + n = n
  BY <1>1
<1>6. \A n \in 1 .. 6 : 0 + (0 - n) = 0 - n
  OBVIOUS
<1>7. QED
  BY <1>2, <1>3, <1>4, <1>5, <1>6 DEF SeqAdd, SeqSub, Seqs

\* The number that a difference stands for.
LEMMA Difference ==
  ASSUME NEW a \in Seqs, NEW b \in Seqs
  PROVE  /\ SeqSub(a, b) \in Nat
         /\ a = SeqAdd(b, SeqSub(a, b))
<1>1. a \in Int /\ b \in Int /\ SeqSub(a, b) \in Seqs /\ SeqSub(a, b) \in Int
  BY SeqArithmetic
<1>2. SeqSub(a, b) \in Nat
  BY <1>1, SeqArithmetic DEF Seqs
<1>3. SeqAdd(b, SeqSub(a, b)) = SeqAdd(SeqAdd(b, 0), SeqSub(a, b))
  BY SeqSmall
<1>4. SeqAdd(SeqAdd(b, 0), SeqSub(a, b)) = SeqAdd(b + a, 0 - b)
  BY <1>1, SeqLaws
<1>5. SeqAdd(b + a, 0 - b) = SeqAdd(a, 0)
  <2>1. (b + a) + (0 - b) = a + 0
    BY <1>1
  <2>2. QED
    BY <2>1 DEF SeqAdd
<1>6. QED
  BY <1>2, <1>3, <1>4, <1>5, SeqSmall

\* Two numbers that are no near neighbours.
Apart(a, b) == SeqSub(a, b) \notin 0 .. 2 /\ SeqSub(b, a) \notin 0 .. 2

\* Close to one of them nothing is close to the other.
LEMMA Crossing ==
  ASSUME NEW a \in Seqs, NEW b \in Seqs, Apart(a, b),
         NEW i \in Int, NEW n \in Int, NEW j \in 0 .. 3,
         SeqSub(SeqAdd(a, i), SeqAdd(b, n)) = j, j + n - i \in (0 - 2) .. 2
  PROVE  FALSE
<1>1. a \in Int /\ b \in Int /\ a - b \in Int /\ i - n \in Int /\ n - i \in Int /\ 0 - b \in Int
  BY SeqArithmetic
<1>2. PICK d \in (0 - 2) .. 2 : d = j + (n - i)
  OBVIOUS
<1>3. SeqAdd(a - b, i - n) = j
  BY <1>1, SeqLaws
<1>4. SeqSub(a, b) = SeqAdd(0, d)
  <2>1. SeqAdd(SeqAdd(a - b, i - n), n - i) = SeqAdd(a - b, (i - n) + (n - i))
    BY <1>1, SeqLaws
  <2>2. SeqAdd(a - b, (i - n) + (n - i)) = SeqAdd(a - b, 0)
    BY <1>1
  <2>3. SeqAdd(a - b, 0) = SeqSub(a, b)
    BY <1>1 DEF SeqAdd, SeqSub
  <2>4. SeqAdd(j, n - i) = SeqAdd(0, d)
    BY <1>1, <1>2 DEF SeqAdd
  <2>5. QED
    BY <1>3, <2>1, <2>2, <2>3, <2>4
<1>5. CASE d \in 0 .. 2
  BY <1>4, <1>5, SeqSmall DEF Apart
<1>6. CASE d \in (0 - 2) .. (0 - 1)
  <2>1. SeqSub(b, a) = SeqSub(SeqAdd(0, 0), SeqAdd(a, 0 - b))
    <3>1. SeqSub(SeqAdd(0, 0), SeqAdd(a, 0 - b)) = SeqAdd(0 - a, 0 - (0 - b))
      BY <1>1, SeqLaws
    <3>2. (0 - a) + (0 - (0 - b)) = b - a
      BY <1>1
    <3>3. QED
      BY <3>1, <3>2 DEF SeqAdd, SeqSub
  <2>2. SeqAdd(a, 0 - b) = SeqAdd(0, d)
    BY <1>1, <1>4, SeqLaws
  <2>3. SeqSub(SeqAdd(0, 0), SeqAdd(0, d)) = SeqAdd(0, 0 - d)
    <3>1. SeqSub(SeqAdd(0, 0), SeqAdd(0, d)) = SeqAdd(0 - 0, 0 - d)
      BY SeqLaws
    <3>2. QED
      BY <3>1
  <2>4. 0 - d \in 1 .. 2
    BY <1>6
  <2>5. SeqSub(b, a) = 0 - d
    BY <2>1, <2>2, <2>3, <2>4, SeqSmall
  <2>6. QED
    BY <2>4, <2>5 DEF Apart
<1>7. QED
  BY <1>5, <1>6

\* What is counted from the same number.
LEMMA SameBase ==
  ASSUME NEW a \in Seqs
  PROVE  /\ \A i \in Int, n \in Int : SeqSub(SeqAdd(a, i), SeqAdd(a, n)) = SeqAdd(0, i - n)
         /\ \A i \in Int : SeqSub(SeqAdd(a, i), a) = SeqAdd(0, i)
         /\ \A i \in Int : SeqAdd(SeqAdd(a, i), 1) = SeqAdd(a, i + 1)
         /\ \A i \in Int : SeqSub(SeqAdd(a, i), 1) = SeqAdd(a, i - 1)
<1>1. a \in Int /\ a - a = 0 /\ SeqAdd(a, 0) = a /\ 1 \in Int
  BY SeqArithmetic, SeqSmall
<1>2. \A i \in Int, n \in Int : SeqSub(SeqAdd(a, i), SeqAdd(a, n)) = SeqAdd(0, i - n)
  BY <1>1, SeqLaws
<1>3. \A i \in Int : SeqSub(SeqAdd(a, i), a) = SeqAdd(0, i)
  <2> TAKE i \in Int
  <2>1. SeqSub(SeqAdd(a, i), SeqAdd(a, 0)) = SeqAdd(0, i - 0)
    BY <1>2
  <2>2. i - 0 = i
    OBVIOUS
  <2>3. QED
    BY <1>1, <2>1, <2>2
<1>4. /\ \A i \in Int : SeqAdd(SeqAdd(a, i), 1) = SeqAdd(a, i + 1)
      /\ \A i \in Int : SeqSub(SeqAdd(a, i), 1) = SeqAdd(a, i - 1)
  <2>1. ASSUME NEW i \in Int
        PROVE  SeqAdd(SeqAdd(a, i), 1) = SeqAdd(a, i + 1)
    BY <1>1, SeqLaws
  <2>2. ASSUME NEW i \in Int
        PROVE  SeqSub(SeqAdd(a, i), 1) = SeqAdd(a, i - 1)
    BY <1>1, SeqLaws
  <2>3. QED
    BY <2>1, <2>2
<1>5. QED
  BY <1>2, <1>3, <1>4

\* The translation of the numbers by the offset x - s, and how the release
\* computes it.
LEMMA Translation ==
  ASSUME NEW x \in Seqs, NEW s \in Seqs
  PROVE  /\ \A k \in Int : SeqSub(SeqAdd(x, k), SeqSub(x, s)) = SeqAdd(s, k)
         /\ \A n \in Int : SeqAdd(SeqAdd(s, n), SeqSub(x, s)) = SeqAdd(x, n)
         /\ SeqSub(SeqSub(SeqAdd(x, 1), s), 1) = SeqSub(x, s)
<1>1. x \in Int /\ s \in Int
  BY SeqArithmetic
<1>2. ASSUME NEW k \in Int
      PROVE  SeqSub(SeqAdd(x, k), SeqSub(x, s)) = SeqAdd(s, k)
  <2>1. SeqSub(SeqAdd(x, k), SeqSub(x, s)) = SeqAdd(x - x, k + s)
    BY <1>1, SeqLaws
  <2>2. (x - x) + (k + s) = s + k
    BY <1>1
  <2>3. QED
    BY <2>1, <2>2 DEF SeqAdd
<1>3. ASSUME NEW n \in Int
      PROVE  SeqAdd(SeqAdd(s, n), SeqSub(x, s)) = SeqAdd(x, n)
  <2>1. SeqAdd(SeqAdd(s, n), SeqSub(x, s)) = SeqAdd(s + x, n - s)
    BY <1>1, SeqLaws
  <2>2. (s + x) + (n - s) = x + n
    BY <1>1
  <2>3. QED
    BY <2>1, <2>2 DEF SeqAdd
<1>4. SeqSub(SeqSub(SeqAdd(x, 1), s), 1) = SeqSub(x, s)
  <2>1. SeqSub(SeqAdd(x, 1), s) = SeqAdd(x, 1 - s)
    BY <1>1, SeqLaws
  <2>2. SeqSub(SeqAdd(x, 1 - s), 1) = SeqAdd(x, (1 - s) - 1) /\ 1 - s \in Int
    BY <1>1, SeqLaws
  <2>3. x + ((1 - s) - 1) = x - s
    BY <1>1
  <2>4. QED
    BY <2>1, <2>2, <2>3 DEF SeqAdd, SeqSub
<1>5. QED
  BY <1>2, <1>3, <1>4

------------------------------------------------------------------------------
(* The numbers of a session whose cookies are apart.                       *)

\* What it means that the numbers are apart.
LEMMA ApartFacts ==
  ASSUME NumbersApart
  PROVE  /\ Issued \subseteq Seqs /\ Accepted \subseteq Seqs
         /\ \A a \in Issued : Apart(a, ClientIss) /\ Apart(a, ServerIss)
         /\ \A a \in Issued : Apart(ClientIss, a) /\ Apart(ServerIss, a)
         /\ SessionTs \subseteq Ts
         /\ \A t \in SessionTs : Cookie(Conn, t) \in Issued /\ Cookie(Conn, TsPrev(t)) \in Accepted
<1>1. 0 \in Ts
  BY TsModAssumption DEF Ts
<1>2. SessionTs \subseteq Ts /\ TsNext(0) \in Ts /\ TsPrev(0) \in Ts
  BY <1>1, TsArithmetic DEF SessionTs
<1>3. \A t \in Ts : Cookie(Conn, t) \in Seqs
  BY SessionConstants, CookieIsSeq DEF Cookie
<1>4. Issued \subseteq Seqs /\ Accepted \subseteq Seqs
  BY <1>2, <1>3 DEF Issued, Accepted
<1>5. \A a \in Issued : Apart(a, ClientIss) /\ Apart(a, ServerIss)
  BY DEF NumbersApart, Apart
<1>6. \A a \in Issued : Apart(ClientIss, a) /\ Apart(ServerIss, a)
  BY <1>5 DEF Apart
<1>7. TsPrev(TsNext(0)) = 0
  <2>1. TsMod \in Nat /\ TsMod >= 2
    BY TsModAssumption
  <2>2. (0 + 1) % TsMod = 1
    BY <2>1
  <2>3. (1 - 1) % TsMod = 0
    BY <2>1
  <2>4. QED
    BY <2>2, <2>3 DEF TsPrev, TsNext
<1>8. ASSUME NEW t \in SessionTs
      PROVE  Cookie(Conn, t) \in Issued /\ Cookie(Conn, TsPrev(t)) \in Accepted
  <2>1. \A u \in SessionTs : Cookie(Conn, u) \in Issued
    BY DEF Issued
  <2>2. Issued \subseteq Accepted /\ Cookie(Conn, TsPrev(0)) \in Accepted
    BY DEF Accepted
  <2>3. t = 0 \/ t = TsNext(0)
    BY DEF SessionTs
  <2>4. 0 \in SessionTs
    BY DEF SessionTs
  <2>5. QED
    BY <1>7, <2>1, <2>2, <2>3, <2>4
<1>9. QED
  BY <1>2, <1>4, <1>5, <1>6, <1>8

\* An ACK that the treatment accepts and that acknowledges k from the cookie
\* the client was given acknowledges nothing but the cookie.
LEMMA CookieOnly ==
  ASSUME NumbersApart, NEW t \in SessionTs, NEW x \in Issued, NEW k \in 1 .. 3,
         check_syn_cookie(SeqSub(SeqAdd(x, k), 1), Conn, t)
  PROVE  k = 1
<1>1. PICK b \in Accepted : SeqSub(SeqAdd(x, k), 1) = b
  <2>1. SeqSub(SeqAdd(x, k), 1) \in {Cookie(Conn, t), Cookie(Conn, TsPrev(t))}
    BY DEF check_syn_cookie, TornCheck, Cookie
  <2>2. Issued \subseteq Accepted
    BY DEF Accepted
  <2>3. QED
    BY <2>1, <2>2, ApartFacts
<1>2. x \in Seqs /\ k \in Int /\ k - 1 \in Int
  BY ApartFacts
<1>3. b = SeqAdd(x, k - 1)
  BY <1>1, <1>2, SameBase
<1>4. SeqSub(b, x) = SeqAdd(0, k - 1)
  BY <1>2, <1>3, SameBase
<1>5. SeqSub(b, x) = k - 1
  BY <1>4, SeqSmall
<1>6. SeqSub(b, x) \notin 1 .. 2
  BY DEF NumbersApart
<1>7. QED
  BY <1>5, <1>6

\* What SessionInv says of the numbers, beside CloseInv.
Numbers ==
  /\ ts \in SessionTs
  /\ ClientInv /\ ServerInv /\ SegmentsInv /\ EntryInv /\ AckedInv

\* The kinds of the sets of flags that the hosts send.
LEMMA FlagKinds ==
  ASSUME NEW f
  PROVE  /\ f \in Acks => /\ "ACK" \in f /\ "SYN" \notin f /\ "RST" \notin f
                          /\ ~IsSyn(f) /\ ~IsSynAck(f)
         /\ f = SynAck => /\ "ACK" \in f /\ "SYN" \in f /\ f \cap {"PSH", "FIN"} = {}
                          /\ IsSynAck(f) /\ ~IsSyn(f) /\ ~IsAck(f)
         /\ f = {"SYN"} => "ACK" \notin f /\ IsSyn(f) /\ ~IsSynAck(f) /\ ~IsAck(f)
         /\ f = {"RST"} => /\ "ACK" \notin f /\ "RST" \in f /\ "SYN" \notin f
                           /\ ~IsSyn(f) /\ ~IsSynAck(f) /\ ~IsAck(f)
         /\ {"ACK"} \in Acks /\ {"PSH", "ACK"} \in Acks /\ {"FIN", "ACK"} \in Acks
BY DEF Acks, SynAck, IsSyn, IsSynAck, IsAck

\* What the invariants say of the two hosts.
LEMMA HostFacts ==
  ASSUME NumbersApart, SessionTypeOK, Numbers
  PROVE  /\ client \in ClientEndpoints /\ Peer(client) /\ client.st \in ClientStates
         /\ server \in ServerEndpoints /\ Peer(server) /\ server.st \in ServerStates
         /\ client.rcv > 0 => /\ client.irs \in Issued /\ client.irs \in Seqs
                              /\ client.rcv \in 1 .. 3
                              /\ client.st \in {"established", "reset"}
         /\ client.st \in {"established", "reset"} => client.rcv > 0
         /\ client.rcv = 0 => server = Fresh("listen") /\ ~HasEntry(Conn)
<1>1. /\ client \in ClientEndpoints /\ Peer(client) /\ client.st \in ClientStates
      /\ server \in ServerEndpoints /\ Peer(server) /\ server.st \in ServerStates
  BY TypesAre, EndpointIsPeer DEF ClientEndpoints, ClientStates, ServerEndpoints, ServerStates
<1>2. /\ client.st = "closed" => client.rcv = 0
      /\ client.st = "syn_sent" => client.rcv = 0
      /\ client.st \in {"established", "reset"} => client.irs \in Issued /\ client.rcv \in 1 .. 3
  BY DEF Numbers, ClientInv, Fresh
<1>3. client.rcv = 0 => server = Fresh("listen") /\ ~HasEntry(Conn)
  BY DEF Numbers, ServerInv, EntryInv
<1>4. QED
  BY <1>1, <1>2, <1>3, ApartFacts DEF ClientStates

\* Hosts that only learn of each other keep what is said of the segments.
LEMMA SaidIsKept ==
  ASSUME Peer(client), Peer(server), client'.rcv \in Nat, server'.rcv \in Nat,
         client'.rcv >= client.rcv, server'.rcv >= server.rcv,
         client.rcv > 0 => client'.irs = client.irs,
         server.rcv > 0 => server'.irs = server.irs
  PROVE  \A p : /\ SentByClient(p) => SentByClient(p)'
                /\ ForServer(p) => ForServer(p)'
                /\ SentByServer(p) => SentByServer(p)'
                /\ ForClient(p) => ForClient(p)'
<1>1. client.rcv \in Nat /\ server.rcv \in Nat
  BY DEF Peer
<1>2. /\ \A k \in 1 .. client.rcv : k \in 1 .. client'.rcv /\ AsClientSees(k)' = AsClientSees(k)
      /\ \A k \in 1 .. server.rcv : k \in 1 .. server'.rcv /\ AsServerSees(k)' = AsServerSees(k)
      /\ client.rcv > 0 => client'.rcv > 0
      /\ client.rcv > 0 => \A n : AsClientSees(n)' = AsClientSees(n)
  BY <1>1 DEF AsClientSees, AsServerSees
<1> TAKE p
<1>3. SentByClient(p) => SentByClient(p)'
  BY <1>2 DEF SentByClient, FromClientNo
<1>4. ForServer(p) => ForServer(p)'
  BY <1>2 DEF ForServer, FromClientNo, FromServerNo
<1>5. SentByServer(p) => SentByServer(p)'
  BY <1>2 DEF SentByServer, FromServerNo
<1>6. ForClient(p) => ForClient(p)'
  BY <1>2 DEF ForClient, FromClientNo, FromServerNo
<1>7. QED
  BY <1>3, <1>4, <1>5, <1>6

\* An endpoint that advances, field by field.
LEMMA AdvancedFields ==
  ASSUME NEW states, NEW e \in Endpoint(states), NEW iss \in Seqs, NEW p
  PROVE  /\ Advanced(e, iss, p).snd = e.snd /\ Advanced(e, iss, p).irs = e.irs
         /\ ~Acknowledges(p, e, iss) =>
              /\ Advanced(e, iss, p).una = e.una /\ Advanced(e, iss, p).rcv = e.rcv
              /\ Advanced(e, iss, p).st \in {e.st, "reset"}
         /\ Acknowledges(p, e, iss) =>
              /\ Advanced(e, iss, p).st = e.st
              /\ Advanced(e, iss, p).una \in {e.una, AckNo(p, iss)}
              /\ \/ Advanced(e, iss, p).rcv = e.rcv
                 \/ /\ Carries(p) /\ SeqNo(p, e) = e.rcv
                    /\ Advanced(e, iss, p).rcv = e.rcv + 1
<1>1. CASE ~Acknowledges(p, e, iss)
  <2>1. PICK s \in {e.st, "reset"} : Advanced(e, iss, p) = [e EXCEPT !.st = s]
    BY <1>1 DEF Advanced
  <2>2. QED
    BY <1>1, <2>1 DEF Endpoint
<1>2. CASE Acknowledges(p, e, iss)
  <2>1. PICK n, r : /\ Advanced(e, iss, p) = [e EXCEPT !.una = n, !.rcv = r]
                    /\ n \in {e.una, AckNo(p, iss)}
                    /\ r = e.rcv \/ (Carries(p) /\ SeqNo(p, e) = e.rcv /\ r = e.rcv + 1)
    BY <1>2 DEF Advanced
  <2>2. QED
    BY <1>2, <2>1 DEF Endpoint
<1>3. QED
  BY <1>1, <1>2

\* The client advances: its numbers stay within its stream, and what it takes
\* for acknowledged the server has received.
LEMMA ClientAdvances ==
  ASSUME NumbersApart, SessionTypeOK, Numbers, client.st = "established",
         NEW p \in ProxyToClient, client' = Advanced(client, ClientIss, p)
  PROVE  /\ client'.st \in {"established", "reset"} /\ client'.irs = client.irs
         /\ client'.rcv \in client.rcv .. 3 /\ client'.snd = client.snd
         /\ client'.una \in 1 .. client.snd
         /\ \/ client'.una = client.una \/ client'.una <= 1
            \/ \E k \in 1 .. server.rcv : FromClientNo(client'.una) = AsServerSees(k)
<1>1. /\ client \in ClientEndpoints /\ Peer(client) /\ ClientIss \in Seqs /\ ServerIss \in Seqs
      /\ client.irs \in Issued /\ client.irs \in Seqs /\ client.rcv \in 1 .. 3
      /\ client.snd \in 1 .. 3 /\ client.una \in 1 .. client.snd
  BY HostFacts, SessionConstants DEF Numbers, ClientInv
<1>2. ForClient(p) /\ p \in Segment
  BY WaysTyped DEF Numbers, SegmentsInv
<1>3. CASE ~Acknowledges(p, client, ClientIss)
  BY <1>1, <1>3, AdvancedFields DEF ClientEndpoints
<1>4. CASE Acknowledges(p, client, ClientIss)
  <2> DEFINE n == AckNo(p, ClientIss)
  <2>1. n \in 1 .. client.snd /\ p.ack = FromClientNo(n) /\ "ACK" \in p.flags
    <3>1. p.ack \in Seqs
      BY <1>2, SegmentFacts
    <3>2. QED
      BY <1>1, <1>4, <3>1, Difference DEF Acknowledges, AckNo, FromClientNo
  <2>2. n = 1 \/ \E k \in 1 .. server.rcv : p.ack = AsServerSees(k)
    <3>1. CASE p.ack = FromClientNo(1)
      <4>1. AckNo(p, ClientIss) = 1
        BY <1>1, <3>1, SameBase, SeqSmall DEF AckNo, FromClientNo
      <4>2. QED
        BY <4>1
    <3>2. CASE p.flags = {"RST"}
      BY <2>1, <3>2
    <3>3. QED
      BY <1>2, <3>1, <3>2 DEF ForClient
  <2>3. /\ client'.st = "established" /\ client'.irs = client.irs /\ client'.snd = client.snd
        /\ client'.una \in {client.una, n}
        /\ \/ client'.rcv = client.rcv
           \/ Carries(p) /\ SeqNo(p, client) = client.rcv /\ client'.rcv = client.rcv + 1
    BY <1>1, <1>4, AdvancedFields DEF ClientEndpoints
  <2>4. Carries(p) /\ SeqNo(p, client) = client.rcv => client.rcv <= 2
    <3>1. SUFFICES ASSUME Carries(p), SeqNo(p, client) = client.rcv
                   PROVE  client.rcv <= 2
      OBVIOUS
    <3>2. p.flags # SynAck /\ p.flags # {"RST"}
      BY <3>1 DEF Carries, SynAck
    <3>3. PICK m \in 1 .. 2 : p.seq \in {FromServerNo(m), AsClientSees(m)}
      BY <1>2, <3>1, <3>2 DEF ForClient
    <3>4. m \in Int /\ m \in 0 .. 6 /\ m \in 0 .. 3
      OBVIOUS
    <3>5. CASE p.seq = AsClientSees(m)
      <4>1. SeqSub(p.seq, client.irs) = m
        <5>1. SeqSub(SeqAdd(client.irs, m), client.irs) = SeqAdd(0, m)
          BY <1>1, <3>4, SameBase
        <5>2. SeqAdd(0, m) = m
          BY <3>4, SeqSmall
        <5>3. QED
          BY <3>5, <5>1, <5>2 DEF AsClientSees
      <4>2. QED
        BY <3>1, <4>1 DEF SeqNo
    <3>6. CASE p.seq = FromServerNo(m) /\ client.rcv = 3
      <4>1. SeqSub(SeqAdd(ServerIss, m), SeqAdd(client.irs, 0)) = 3
        BY <1>1, <3>1, <3>6, SeqSmall DEF SeqNo, FromServerNo
      <4>2. Apart(ServerIss, client.irs) /\ 3 + 0 - m \in (0 - 2) .. 2
        BY <1>1, <3>4, ApartFacts
      <4>3. QED
        BY <1>1, <3>4, <4>1, <4>2, Crossing
    <3>7. QED
      BY <1>1, <3>3, <3>5, <3>6
  <2> HIDE DEF n
  <2>5. client'.una \in 1 .. client.snd
    BY <1>1, <2>1, <2>3
  <2>6. client'.rcv \in client.rcv .. 3
    BY <1>1, <2>3, <2>4
  <2>7. QED
    BY <2>1, <2>2, <2>3, <2>5, <2>6
<1>5. QED
  BY <1>3, <1>4

\* What a step of the client, that sends Q, leaves true.
ClientGoes(Q) ==
  /\ ClientInv' /\ \A p \in Q : SentByClient(p)'
  /\ client'.rcv >= client.rcv
  /\ client.rcv > 0 => client'.irs = client.irs
  /\ \/ client'.una = client.una \/ client'.una <= 1
     \/ \E k \in 1 .. server.rcv : FromClientNo(client'.una) = AsServerSees(k)

\* A pure ACK and a unit after the SYN are what a connected client sends.
LEMMA ClientSegments ==
  ASSUME NEW x, client' \in ClientEndpoints, client'.rcv \in 1 .. 3, client'.snd \in 1 .. 3,
         \/ x = Pure(client', ClientIss)
         \/ \E n \in 1 .. 2 : x.flags = UnitFlags(client', n) /\ x.seq = FromClientNo(n)
                              /\ x.ack = SeqAdd(client'.irs, client'.rcv)
  PROVE  SentByClient(x)'
<1>1. Peer(client') /\ ClientIss \in Seqs
  BY EndpointIsPeer, SessionConstants DEF ClientEndpoints
<1>2. AsClientSees(client.rcv)' = SeqAdd(client'.irs, client'.rcv)
  BY DEF AsClientSees
<1>3. PICK k \in 1 .. client'.rcv : k = client'.rcv
  OBVIOUS
<1>4. CASE x = Pure(client', ClientIss)
  <2>1. x.flags = {"ACK"} /\ x.seq = FromClientNo(client'.snd) /\ x.ack = SeqAdd(client'.irs, k)
    BY <1>1, <1>3, <1>4, PureIsSegment DEF FromClientNo
  <2>2. {"ACK"} \in Acks /\ "PSH" \notin {"ACK"} /\ "FIN" \notin {"ACK"}
    BY DEF Acks
  <2>3. QED
    BY <1>3, <2>1, <2>2 DEF SentByClient, AsClientSees, FromClientNo
<1>5. ASSUME NEW n \in 1 .. 2, x.flags = UnitFlags(client', n), x.seq = FromClientNo(n),
             x.ack = SeqAdd(client'.irs, client'.rcv)
      PROVE  SentByClient(x)'
  <2>1. /\ UnitFlags(client', n) \in Acks
        /\ "PSH" \in UnitFlags(client', n) => n = 1
        /\ "FIN" \in UnitFlags(client', n) => n = 2
    BY DEF UnitFlags, Acks
  <2>2. x.ack = SeqAdd(client'.irs, k) /\ n \in 1 .. 3
    BY <1>3, <1>5
  <2>3. QED
    BY <1>3, <1>5, <2>1, <2>2 DEF SentByClient, AsClientSees, FromClientNo
<1>6. QED
  BY <1>4, <1>5

\* Every step of the client.
LEMMA ClientNumbers ==
  ASSUME NumbersApart, SessionTypeOK, Numbers, NEW Q, ClientDoes(Q)
  PROVE  ClientGoes(Q)
<1>1. /\ client \in ClientEndpoints /\ Peer(client) /\ client.st \in ClientStates
      /\ ClientIss \in Seqs /\ ClientInv
      /\ client' \in ClientEndpoints /\ Peer(client')
  BY HostFacts, ClientTypes, EndpointIsPeer, SessionConstants DEF Numbers, ClientEndpoints
<1>2. \A p \in ProxyToClient : ForClient(p) /\ p \in Segment
  BY WaysTyped DEF Numbers, SegmentsInv
<1>3. CASE client.st = "closed" /\ client' = [client EXCEPT !.st = "syn_sent", !.snd = 1]
           /\ Q = {Unit(client', ClientIss, 0)}
  <2>1. client = Fresh("closed")
    BY <1>1, <1>3 DEF ClientInv
  <2>2. client' = [Fresh("syn_sent") EXCEPT !.snd = 1]
    <3> DEFINE e == [st |-> "syn_sent", snd |-> 1, una |-> 0, irs |-> 0, rcv |-> 0]
    <3>1. [Fresh("syn_sent") EXCEPT !.snd = 1] = e
      BY DEF Fresh
    <3>2. client'.st = e.st /\ client'.snd = e.snd
      BY <1>1, <1>3, UpdatedFields DEF ClientEndpoints
    <3>3. client'.una = e.una /\ client'.irs = e.irs /\ client'.rcv = e.rcv
      BY <1>1, <1>3, <2>1 DEF Fresh
    <3>4. e \in ClientEndpoints
      BY SeqArithmetic DEF ClientEndpoints, ClientStates, Endpoint
    <3>5. client' = e
      BY <1>1, <3>2, <3>3, <3>4 DEF ClientEndpoints, Endpoint
    <3>6. QED
      BY <3>1, <3>5
  <2>3. client'.st = "syn_sent" /\ client'.una = 0 /\ client'.rcv = 0 /\ client.rcv = 0
    BY <2>1, <2>2 DEF Fresh
  <2>4. ClientInv'
    BY <2>2, <2>3 DEF ClientInv
  <2>5. /\ Unit(client', ClientIss, 0).flags = {"SYN"}
        /\ Unit(client', ClientIss, 0).seq = ClientIss
    <3>1. 0 \in 0 .. 2
      OBVIOUS
    <3>2. /\ Unit(client', ClientIss, 0).flags = UnitFlags(client', 0)
          /\ Unit(client', ClientIss, 0).seq = SeqAdd(ClientIss, 0)
      BY <1>1, <3>1, UnitIsSegment
    <3>3. QED
      BY <1>1, <2>3, <3>2, SeqSmall DEF UnitFlags
  <2>6. QED
    BY <1>3, <2>3, <2>4, <2>5 DEF ClientGoes, SentByClient
<1>4. CASE Ready(client) /\ client' = [client EXCEPT !.snd = @ + 1]
           /\ Q = {Unit(client, ClientIss, client.snd)}
  <2>1. /\ client.st = "established" /\ client.irs \in Issued /\ client.rcv \in 1 .. 3
        /\ client.snd \in 1 .. 2 /\ client.una = client.snd
    BY <1>1, <1>4 DEF Ready, ClientInv
  <2>2. /\ client'.st = "established" /\ client'.irs = client.irs /\ client'.rcv = client.rcv
        /\ client'.una = client.una /\ client'.snd = client.snd + 1
    BY <1>1, <1>4, <2>1, UpdatedFields DEF ClientEndpoints
  <2>3. ClientInv'
    BY <2>1, <2>2 DEF ClientInv
  <2>x. PICK x : x = Unit(client, ClientIss, client.snd)
    OBVIOUS
  <2>4. /\ x.flags = UnitFlags(client', client.snd) /\ x.seq = FromClientNo(client.snd)
        /\ x.ack = SeqAdd(client'.irs, client'.rcv)
    <3>1. /\ x.flags = UnitFlags(client, client.snd) /\ x.seq = SeqAdd(ClientIss, client.snd)
          /\ "ACK" \in UnitFlags(client, client.snd) => x.ack = SeqAdd(client.irs, client.rcv)
      BY <1>1, <2>1, <2>x, UnitIsSegment
    <3>2. "ACK" \in UnitFlags(client, client.snd)
          /\ UnitFlags(client, client.snd) = UnitFlags(client', client.snd)
      BY <2>1, <2>2 DEF UnitFlags
    <3>3. QED
      BY <2>2, <3>1, <3>2 DEF FromClientNo
  <2>5. SentByClient(x)'
    BY <1>1, <2>1, <2>2, <2>4, ClientSegments
  <2>6. QED
    BY <1>1, <1>4, <2>x, <2>2, <2>3, <2>5 DEF ClientGoes, Peer
<1>5. CASE /\ client.st = "syn_sent"
           /\ \E p \in ProxyToClient :
                /\ Acknowledges(p, client, ClientIss) /\ IsSynAck(p.flags)
                /\ client' = [client EXCEPT !.st = "established", !.una = 1, !.irs = p.seq, !.rcv = 1]
           /\ Q = {Pure(client', ClientIss)}
  <2>1. client.snd = 1 /\ client.rcv = 0
    BY <1>1, <1>5 DEF ClientInv, Fresh
  <2>2. PICK p \in ProxyToClient :
          client' = [client EXCEPT !.st = "established", !.una = 1, !.irs = p.seq, !.rcv = 1]
    BY <1>5
  <2>3. p.seq \in Issued
    BY <1>2, <2>1 DEF ForClient
  <2>4. /\ client'.st = "established" /\ client'.irs = p.seq /\ client'.rcv = 1
        /\ client'.una = 1 /\ client'.snd = 1
    BY <1>1, <2>1, <2>2, UpdatedFields DEF ClientEndpoints
  <2>5. ClientInv'
    BY <2>3, <2>4 DEF ClientInv
  <2>6. \A x \in Q : SentByClient(x)'
    BY <1>1, <1>5, <2>4, ClientSegments
  <2>7. QED
    BY <1>5, <2>1, <2>4, <2>5, <2>6 DEF ClientGoes
<1>6. CASE /\ client.st = "syn_sent" /\ client' = client
           /\ \E p \in ProxyToClient :
                /\ ~Acknowledges(p, client, ClientIss) /\ (IsAck(p.flags) \/ IsSynAck(p.flags))
                /\ Q = {Refusal(p)}
  <2>1. client.snd = 1 /\ client.rcv = 0
    BY <1>1, <1>6 DEF ClientInv, Fresh
  <2>2. PICK p \in ProxyToClient : ~Acknowledges(p, client, ClientIss)
    BY <1>6
  <2>3. p.flags = SynAck /\ p.ack = FromClientNo(1)
    BY <1>2, <2>1 DEF ForClient
  <2>4. AckNo(p, ClientIss) = 1
    BY <1>1, <2>3, SameBase, SeqSmall DEF AckNo, FromClientNo
  <2>5. QED
    BY <2>1, <2>2, <2>3, <2>4 DEF Acknowledges, SynAck
<1>7. CASE client' = client /\ Q = {}
  BY <1>1, <1>7 DEF ClientGoes, Peer, ClientInv
<1>8. CASE /\ client.st = "established"
           /\ \E p \in ProxyToClient : client' = Advanced(client, ClientIss, p)
           /\ Q \subseteq {Pure(client', ClientIss)}
  <2>1. client.irs \in Issued /\ client.rcv \in 1 .. 3 /\ client.snd \in 1 .. 3
    BY <1>1, <1>8 DEF ClientInv
  <2>2. /\ client'.st \in {"established", "reset"} /\ client'.irs = client.irs
        /\ client'.rcv \in client.rcv .. 3 /\ client'.snd = client.snd
        /\ client'.una \in 1 .. client.snd
        /\ \/ client'.una = client.una \/ client'.una <= 1
           \/ \E k \in 1 .. server.rcv : FromClientNo(client'.una) = AsServerSees(k)
    BY <1>8, ClientAdvances
  <2>3. ClientInv'
    BY <2>1, <2>2 DEF ClientInv
  <2>4. \A x \in Q : SentByClient(x)'
    BY <1>1, <1>8, <2>1, <2>2, ClientSegments
  <2>5. QED
    BY <1>8, <2>1, <2>2, <2>3, <2>4 DEF ClientGoes
<1>9. QED
  BY <1>3, <1>4, <1>5, <1>6, <1>7, <1>8 DEF ClientDoes

\* A step of the client keeps all that is said of the numbers.
LEMMA ClientKeepsNumbers ==
  ASSUME NumbersApart, SessionTypeOK, SessionTypeOK', Numbers,
         ClientSays, UNCHANGED <<vars, server>>
  PROVE  Numbers'
<1>1. PICK Q : ClientDoes(Q) /\ Ways(Q, {}, {}, {})
  BY DEF ClientSays
<1>2. ClientGoes(Q)
  BY <1>1, ClientNumbers
<1>3. /\ client' \in ClientEndpoints /\ Peer(client') /\ Peer(client) /\ Peer(server)
      /\ client.rcv = 0 => server = Fresh("listen") /\ ~HasEntry(Conn)
      /\ client.rcv > 0 => client.irs \in Issued
  BY <1>1, HostFacts, ClientTypes, EndpointIsPeer DEF ClientEndpoints
<1>4. \A p : /\ SentByClient(p) => SentByClient(p)'
             /\ ForServer(p) => ForServer(p)'
             /\ SentByServer(p) => SentByServer(p)'
             /\ ForClient(p) => ForClient(p)'
  <2>1. /\ client'.rcv \in Nat /\ server'.rcv \in Nat /\ server'.rcv >= server.rcv
        /\ client'.rcv >= client.rcv
        /\ client.rcv > 0 => client'.irs = client.irs
        /\ server'.irs = server.irs
    BY <1>2, <1>3 DEF ClientGoes, Peer
  <2>2. QED
    BY <1>3, <2>1, SaidIsKept
<1>5. SegmentsInv'
  BY <1>1, <1>2, <1>4 DEF Numbers, SegmentsInv, Ways, ClientGoes
<1>6. /\ ts' = ts /\ table' = table /\ HeldFirst' = HeldFirst
      /\ HasEntry(Conn)' = HasEntry(Conn) /\ Held(Conn)' = Held(Conn)
  BY DEF vars, treatVars, HeldFirst, HasEntry, Held
<1>7. ServerInv'
  <2>1. client.rcv > 0 => client'.rcv > 0
    BY <1>2, <1>3 DEF ClientGoes, Peer
  <2>2. QED
    BY <2>1 DEF Numbers, ServerInv, FromClientNo
<1>8. EntryInv'
  <2>1. HasEntry(Conn) => client.rcv > 0
    BY DEF Numbers, EntryInv
  <2>2. client.rcv > 0 => client'.rcv > 0 /\ client'.irs = client.irs
    BY <1>2, <1>3 DEF ClientGoes, Peer
  <2>3. client.rcv > 0 => AsClientSees(1)' = AsClientSees(1)
    BY <2>2 DEF AsClientSees
  <2>4. QED
    BY <1>4, <1>6, <2>1, <2>2, <2>3 DEF Numbers, EntryInv
<1>9. AckedInv'
  <2>1. server.una <= 1 \/ server.una <= client'.rcv
    BY <1>2, <1>3 DEF Numbers, AckedInv, ClientGoes, Peer
  <2>2. client'.una <= 1 \/ \E k \in 1 .. server.rcv : FromClientNo(client'.una) = AsServerSees(k)
    BY <1>2 DEF Numbers, AckedInv, ClientGoes
  <2>3. QED
    BY <2>1, <2>2 DEF AckedInv, FromClientNo, AsServerSees
<1>10. QED
  BY <1>2, <1>5, <1>6, <1>7, <1>8, <1>9 DEF Numbers, ClientGoes

\* The server advances, from the state e of an open connection.
LEMMA ServerAdvances ==
  ASSUME NumbersApart, SessionTypeOK, Numbers, server.st # "listen",
         NEW e \in ServerEndpoints, e.st = "established", e.irs = server.irs,
         e.rcv = server.rcv, e.snd = server.snd,
         NEW p \in ProxyToServer, server' = Advanced(e, ServerIss, p)
  PROVE  /\ server'.st \in {"established", "reset"} /\ server'.irs = server.irs
         /\ server'.rcv \in server.rcv .. 3 /\ server'.snd = server.snd
         /\ server'.una = e.una \/ server'.una <= client.rcv
<1>1. /\ Peer(server) /\ ClientIss \in Seqs /\ ServerIss \in Seqs
      /\ client.rcv > 0 /\ server.rcv \in 1 .. 3 /\ server.snd \in 1 .. 3
      /\ \E n \in 0 .. 2 : server.irs = FromClientNo(n)
  BY HostFacts, SessionConstants DEF Numbers, ServerInv
<1>2. client.irs \in Issued /\ client.irs \in Seqs /\ client.rcv \in 1 .. 3
  BY <1>1, HostFacts
<1>3. ForServer(p) /\ p \in Segment
  BY WaysTyped DEF Numbers, SegmentsInv
<1>4. CASE ~Acknowledges(p, e, ServerIss)
  BY <1>1, <1>4, AdvancedFields DEF ServerEndpoints
<1>5. CASE Acknowledges(p, e, ServerIss)
  <2> DEFINE m == AckNo(p, ServerIss)
  <2>1. m \in 1 .. 3 /\ "ACK" \in p.flags
    BY <1>1, <1>5 DEF Acknowledges
  <2>2. /\ p.flags \in Acks
        /\ "PSH" \in p.flags => p.seq = FromClientNo(1)
        /\ "FIN" \in p.flags => p.seq = FromClientNo(2)
    BY <1>3, <2>1 DEF ForServer
  <2>3. m <= client.rcv
    <3>1. PICK k \in 1 .. client.rcv : p.ack \in {FromServerNo(k), AsClientSees(k)}
      BY <1>3, <2>1 DEF ForServer
    <3>2. k \in 1 .. 3 /\ k \in Int /\ k \in 0 .. 6 /\ k <= client.rcv
      BY <1>2, <3>1
    <3>3. CASE p.ack = FromServerNo(k)
      <4>1. SeqSub(SeqAdd(ServerIss, k), ServerIss) = SeqAdd(0, k)
        BY <1>1, <3>2, SameBase
      <4>2. SeqAdd(0, k) = k
        BY <3>2, SeqSmall
      <4>3. QED
        BY <3>2, <3>3, <4>1, <4>2 DEF AckNo, FromServerNo
    <3>4. CASE p.ack = AsClientSees(k)
      <4>1. SeqSub(SeqAdd(client.irs, k), SeqAdd(ServerIss, 0)) = m
        BY <1>1, <3>4, SeqSmall DEF AckNo, AsClientSees
      <4>2. Apart(client.irs, ServerIss) /\ m + 0 - k \in (0 - 2) .. 2 /\ m \in 0 .. 3
        BY <1>2, <2>1, <3>2, ApartFacts
      <4>3. QED
        BY <1>1, <1>2, <3>2, <4>1, <4>2, Crossing
    <3>5. QED
      BY <3>1, <3>3, <3>4
  <2>4. Carries(p) /\ SeqNo(p, e) = server.rcv => server.rcv <= 2
    <3>1. SUFFICES ASSUME Carries(p), SeqNo(p, e) = server.rcv
                   PROVE  server.rcv # 3
      BY <1>1
    <3>2. PICK j \in 1 .. 2 : p.seq = FromClientNo(j)
      BY <2>2, <3>1 DEF Carries
    <3>3. PICK n \in 0 .. 2 : server.irs = FromClientNo(n)
      BY <1>1
    <3>4. j \in Int /\ n \in Int
      OBVIOUS
    <3>5. SeqSub(SeqAdd(ClientIss, j), SeqAdd(ClientIss, n)) = SeqAdd(0, j - n)
      BY <1>1, <3>4, SameBase
    <3>6. SeqNo(p, e) = SeqAdd(0, j - n)
      BY <3>2, <3>3, <3>5 DEF SeqNo, FromClientNo
    <3>7. SeqAdd(0, j - n) # 3
      <4>1. CASE j - n \in 0 .. 2
        <5>1. SeqAdd(0, j - n) = j - n
          BY <4>1, SeqSmall
        <5>2. QED
          BY <4>1, <5>1
      <4>2. CASE j - n = 0 - 1
        <5>1. SeqAdd(0, 0 - 1) = SeqMod - 1 /\ SeqMod > 6 /\ SeqMod \in Nat
          BY SeqSmall, SeqArithmetic, SessionAssumption
        <5>2. QED
          BY <4>2, <5>1
      <4>3. QED
        BY <4>1, <4>2
    <3>8. QED
      BY <3>1, <3>6, <3>7
  <2>5. /\ server'.st = "established" /\ server'.irs = server.irs /\ server'.snd = server.snd
        /\ server'.una \in {e.una, m}
        /\ \/ server'.rcv = server.rcv
           \/ Carries(p) /\ SeqNo(p, e) = server.rcv /\ server'.rcv = server.rcv + 1
    BY <1>1, <1>5, AdvancedFields DEF ServerEndpoints
  <2> HIDE DEF m
  <2>6. server'.rcv \in server.rcv .. 3
    BY <1>1, <2>4, <2>5
  <2>7. QED
    BY <2>3, <2>5, <2>6
<1>6. QED
  BY <1>4, <1>5

\* What a step of the server, that sends Q, leaves true.
ServerGoes(Q) ==
  /\ ServerInv' /\ \A p \in Q : SentByServer(p)'
  /\ server'.rcv >= server.rcv
  /\ server.rcv > 0 => server'.irs = server.irs
  /\ server'.una = server.una \/ server'.una <= 1 \/ server'.una <= client.rcv

\* What a server sends that knows of the client.
LEMMA ServerSegments ==
  ASSUME NEW x, server' \in ServerEndpoints, server'.rcv \in 1 .. 3,
         client'.rcv > 0, server'.st # "syn_sent",
         \/ x = Pure(server', ServerIss)
         \/ \E n \in 0 .. 2 : x = Unit(server', ServerIss, n)
         \/ x.flags = {"RST"}
  PROVE  SentByServer(x)'
<1>1. Peer(server') /\ ServerIss \in Seqs
  BY EndpointIsPeer, SessionConstants DEF ServerEndpoints
<1>2. PICK k \in 1 .. server'.rcv : k = server'.rcv
  OBVIOUS
<1>3. CASE x = Pure(server', ServerIss)
  <2>1. x.flags = {"ACK"} /\ x.ack = SeqAdd(server'.irs, k)
    BY <1>1, <1>2, <1>3, PureIsSegment
  <2>2. {"ACK"} \in Acks /\ "PSH" \notin {"ACK"} /\ "FIN" \notin {"ACK"} /\ "SYN" \notin {"ACK"}
    BY DEF Acks
  <2>3. QED
    BY <1>2, <2>1, <2>2 DEF SentByServer, AsServerSees
<1>4. ASSUME NEW n \in 0 .. 2, x = Unit(server', ServerIss, n)
      PROVE  SentByServer(x)'
  <2>1. /\ x.flags = UnitFlags(server', n) /\ x.seq = SeqAdd(ServerIss, n)
        /\ "ACK" \in UnitFlags(server', n) => x.ack = SeqAdd(server'.irs, k)
    BY <1>1, <1>2, <1>4, UnitIsSegment
  <2>2. /\ UnitFlags(server', n) \in Acks \cup {SynAck} /\ "ACK" \in UnitFlags(server', n)
        /\ "SYN" \in UnitFlags(server', n) => n = 0
        /\ "PSH" \in UnitFlags(server', n) => n = 1
        /\ "FIN" \in UnitFlags(server', n) => n = 2
    BY DEF UnitFlags, Acks, SynAck
  <2>3. SeqAdd(ServerIss, 0) = ServerIss
    BY <1>1, SeqSmall
  <2>4. QED
    BY <1>2, <2>1, <2>2, <2>3 DEF SentByServer, AsServerSees, FromServerNo
<1>5. CASE x.flags = {"RST"}
  BY <1>5 DEF SentByServer
<1>6. QED
  BY <1>3, <1>4, <1>5

\* Every step of the server.
LEMMA ServerNumbers ==
  ASSUME NumbersApart, SessionTypeOK, Numbers, UNCHANGED client, NEW Q, ServerDoes(Q)
  PROVE  ServerGoes(Q)
<1>1. /\ server \in ServerEndpoints /\ Peer(server) /\ server.st \in ServerStates
      /\ ClientIss \in Seqs /\ ServerIss \in Seqs /\ ServerInv
      /\ server' \in ServerEndpoints /\ Peer(server') /\ server'.st \in ServerStates
  BY HostFacts, ServerTypes, EndpointIsPeer, SessionConstants DEF Numbers, ServerEndpoints
<1>2. \A p \in ProxyToServer : ForServer(p) /\ p \in Segment
  BY WaysTyped DEF Numbers, SegmentsInv
<1>3. /\ client.rcv > 0 => client.irs \in Issued /\ client.irs \in Seqs /\ client.rcv \in 1 .. 3
      /\ server.st # "listen" => client.rcv > 0 /\ server.rcv \in 1 .. 3 /\ server.snd \in 1 .. 3
  BY HostFacts DEF Numbers, ServerInv
<1>4. server'.st # "syn_sent" /\ server.st # "syn_sent"
  BY <1>1 DEF ServerStates
<1>5. CASE server' = server /\ Q = {}
  BY <1>1, <1>5 DEF ServerGoes, Peer, ServerInv, FromClientNo
<1>6. CASE Ready(server) /\ server' = [server EXCEPT !.snd = @ + 1]
           /\ Q = {Unit(server, ServerIss, server.snd)}
  <2>1. /\ server.st = "established" /\ server.snd \in 1 .. 2 /\ server.rcv \in 1 .. 3
        /\ client.rcv > 0
    BY <1>1, <1>3, <1>6 DEF Ready
  <2>2. /\ server'.st = "established" /\ server'.irs = server.irs /\ server'.rcv = server.rcv
        /\ server'.una = server.una /\ server'.snd = server.snd + 1
    BY <1>1, <1>6, <2>1, UpdatedFields DEF ServerEndpoints
  <2>3. ServerInv'
    BY <1>1, <2>1, <2>2 DEF ServerInv, FromClientNo
  <2>4. Unit(server, ServerIss, server.snd) = Unit(server', ServerIss, server.snd)
    BY <2>1, <2>2 DEF Unit, Numbered
  <2>5. \A x \in Q : SentByServer(x)'
    BY <1>1, <1>6, <2>1, <2>2, <2>4, ServerSegments
  <2>6. QED
    BY <1>1, <2>2, <2>3, <2>5 DEF ServerGoes, Peer
<1>7. CASE /\ server.st = "listen"
           /\ \E p \in ProxyToServer :
                /\ IsSyn(p.flags)
                /\ server' = [st |-> "syn_rcvd", snd |-> 1, una |-> 0, irs |-> p.seq, rcv |-> 1]
           /\ Q = {Unit(server', ServerIss, 0)}
  <2>1. PICK p \in ProxyToServer :
          /\ IsSyn(p.flags)
          /\ server' = [st |-> "syn_rcvd", snd |-> 1, una |-> 0, irs |-> p.seq, rcv |-> 1]
    BY <1>7
  <2>2. client.rcv > 0 /\ \E n \in 0 .. 2 : p.seq = FromClientNo(n)
    BY <1>2, <2>1, FlagKinds DEF ForServer
  <2>3. /\ server'.st = "syn_rcvd" /\ server'.snd = 1 /\ server'.una = 0 /\ server'.rcv = 1
        /\ server'.irs = p.seq /\ server.rcv = 0
    BY <1>1, <1>7, <2>1 DEF ServerInv, Fresh
  <2>4. ServerInv'
    BY <2>2, <2>3 DEF ServerInv, FromClientNo
  <2>5. \A x \in Q : SentByServer(x)'
    BY <1>1, <1>7, <2>2, <2>3, ServerSegments
  <2>6. QED
    BY <2>3, <2>4, <2>5 DEF ServerGoes
<1>8. CASE /\ server.st \in {"listen", "syn_rcvd"} /\ server' = server
           /\ \E p \in ProxyToServer : Q = {Refusal(p)}
  <2>1. PICK p \in ProxyToServer : Q = {Refusal(p)}
    BY <1>8
  <2>2. client.rcv > 0 /\ Refusal(p).flags = {"RST"}
    BY <1>2 DEF ForServer, Refusal
  <2>3. \A x \in Q : SentByServer(x)'
    BY <2>1, <2>2 DEF SentByServer
  <2>4. QED
    BY <1>1, <1>8, <2>3 DEF ServerGoes, Peer, ServerInv, FromClientNo
<1>9. CASE /\ server.st = "syn_rcvd"
           /\ \E p \in ProxyToServer : "RST" \in p.flags /\ SeqNo(p, server) = 1
  <2>1. PICK p \in ProxyToServer : "RST" \in p.flags /\ SeqNo(p, server) = 1
    BY <1>9
  <2>2. PICK n \in 0 .. 2 : server.irs = FromClientNo(n)
    BY <1>1, <1>9 DEF ServerInv
  <2>3. PICK k \in 1 .. client.rcv : p.seq = AsClientSees(k)
    BY <1>2, <2>1, FlagKinds DEF ForServer
  <2>4. k \in 1 .. 3 /\ k \in Int /\ n \in Int /\ client.irs \in Issued /\ client.irs \in Seqs
    BY <1>3, <1>9, <2>3
  <2>5. SeqSub(SeqAdd(client.irs, k), SeqAdd(ClientIss, n)) = 1
    BY <2>1, <2>2, <2>3 DEF SeqNo, AsClientSees, FromClientNo
  <2>6. Apart(client.irs, ClientIss) /\ 1 + n - k \in (0 - 2) .. 2 /\ 1 \in 0 .. 3
    BY <2>4, ApartFacts
  <2>7. QED
    BY <1>1, <2>4, <2>5, <2>6, Crossing
<1>10. CASE server.st = "syn_rcvd" /\ server' = server /\ Q = {Unit(server, ServerIss, 0)}
  <2>1. \A x \in Q : SentByServer(x)'
    BY <1>1, <1>3, <1>4, <1>10, ServerSegments
  <2>2. QED
    BY <1>1, <1>10, <2>1 DEF ServerGoes, Peer, ServerInv, FromClientNo
<1>11. ASSUME server.st # "listen", NEW e \in ServerEndpoints, e.st = "established",
              e.irs = server.irs, e.rcv = server.rcv, e.snd = server.snd,
              e.una = server.una \/ e.una = 1,
              NEW p \in ProxyToServer, server' = Advanced(e, ServerIss, p),
              Q \subseteq {Pure(server', ServerIss)}
       PROVE  ServerGoes(Q)
  <2>1. /\ server'.st \in {"established", "reset"} /\ server'.irs = server.irs
        /\ server'.rcv \in server.rcv .. 3 /\ server'.snd = server.snd
        /\ server'.una = e.una \/ server'.una <= client.rcv
    BY <1>11, ServerAdvances
  <2>2. server'.rcv \in 1 .. 3 /\ client.rcv > 0 /\ server.snd \in 1 .. 3
    BY <1>3, <1>11, <2>1
  <2>3. ServerInv'
    BY <1>1, <1>11, <2>1, <2>2 DEF ServerInv, FromClientNo
  <2>4. \A x \in Q : SentByServer(x)'
    BY <1>1, <1>4, <1>11, <2>2, ServerSegments
  <2>5. QED
    BY <1>1, <1>11, <2>1, <2>3, <2>4 DEF ServerGoes, Peer
<1>12. CASE /\ server.st = "syn_rcvd"
            /\ \E p \in ProxyToServer :
                 /\ "RST" \notin p.flags /\ Acknowledges(p, server, ServerIss)
                 /\ server' = Advanced([server EXCEPT !.st = "established", !.una = 1], ServerIss, p)
            /\ Q \subseteq {Pure(server', ServerIss)}
  <2>1. PICK e : e = [server EXCEPT !.st = "established", !.una = 1]
    OBVIOUS
  <2>2. e \in ServerEndpoints
    <3>1. PICK s \in ServerStates, n \in 0 .. 3 : s = "established" /\ n = 1
      BY DEF ServerStates
    <3>2. [server EXCEPT !.st = s, !.una = n] \in ServerEndpoints
      BY <1>1, EndpointUpdates DEF ServerEndpoints
    <3>3. QED
      BY <2>1, <3>1, <3>2
  <2>3. /\ e.st = "established" /\ e.irs = server.irs /\ e.rcv = server.rcv
        /\ e.snd = server.snd /\ e.una = 1
    BY <1>1, <2>1, UpdatedFields DEF ServerEndpoints
  <2>4. QED
    BY <1>11, <1>12, <2>1, <2>2, <2>3
<1>13. CASE /\ server.st = "established"
            /\ \E p \in ProxyToServer : server' = Advanced(server, ServerIss, p)
            /\ Q \subseteq {Pure(server', ServerIss)}
  BY <1>1, <1>11, <1>13
<1>14. QED
  BY <1>5, <1>6, <1>7, <1>8, <1>9, <1>10, <1>12, <1>13 DEF ServerDoes

\* A step of the server keeps all that is said of the numbers.
LEMMA ServerKeepsNumbers ==
  ASSUME NumbersApart, SessionTypeOK, Numbers, ServerSays, UNCHANGED <<vars, client>>
  PROVE  Numbers'
<1>1. PICK Q : ServerDoes(Q) /\ Ways({}, {}, Q, {})
  BY DEF ServerSays
<1>2. ServerGoes(Q)
  BY <1>1, ServerNumbers
<1>3. /\ server' \in ServerEndpoints /\ Peer(server') /\ Peer(client) /\ Peer(server)
  BY <1>1, HostFacts, ServerTypes, EndpointIsPeer DEF ServerEndpoints
<1>4. \A p : /\ SentByClient(p) => SentByClient(p)'
             /\ ForServer(p) => ForServer(p)'
             /\ SentByServer(p) => SentByServer(p)'
             /\ ForClient(p) => ForClient(p)'
  <2>1. /\ client'.rcv \in Nat /\ server'.rcv \in Nat /\ client'.rcv >= client.rcv
        /\ server'.rcv >= server.rcv
        /\ server.rcv > 0 => server'.irs = server.irs
        /\ client'.irs = client.irs
    BY <1>2, <1>3 DEF ServerGoes, Peer
  <2>2. QED
    BY <1>3, <2>1, SaidIsKept
<1>5. SegmentsInv'
  BY <1>1, <1>2, <1>4 DEF Numbers, SegmentsInv, Ways, ServerGoes
<1>6. /\ ts' = ts /\ table' = table /\ HeldFirst' = HeldFirst
      /\ HasEntry(Conn)' = HasEntry(Conn) /\ Held(Conn)' = Held(Conn)
  BY DEF vars, treatVars, HeldFirst, HasEntry, Held
<1>7. ClientInv'
  BY DEF Numbers, ClientInv
<1>8. EntryInv'
  BY <1>4, <1>6 DEF Numbers, EntryInv, AsClientSees
<1>9. AckedInv'
  <2>1. server'.una <= 1 \/ server'.una <= client.rcv
    BY <1>2 DEF Numbers, AckedInv, ServerGoes
  <2>2. ASSUME NEW k \in 1 .. server.rcv, FromClientNo(client.una) = AsServerSees(k)
        PROVE  k \in 1 .. server'.rcv /\ FromClientNo(client.una) = SeqAdd(server'.irs, k)
    <3>1. server.rcv > 0 /\ k \in 1 .. server'.rcv
      BY <1>2, <1>3 DEF ServerGoes, Peer
    <3>2. QED
      BY <1>2, <2>2, <3>1 DEF ServerGoes, AsServerSees
  <2>3. QED
    BY <2>1, <2>2 DEF Numbers, AckedInv, FromClientNo, AsServerSees
<1>10. QED
  BY <1>2, <1>5, <1>6, <1>7, <1>8, <1>9 DEF Numbers, ServerGoes

\* What both hosts send again they have sent before.
LEMMA TimeoutKeepsNumbers ==
  ASSUME NumbersApart, SessionTypeOK, Numbers, NEW A, NEW C, TimeoutSays(A, C),
         Ways(A, {}, C, {}), UNCHANGED <<vars, client, server>>
  PROVE  Numbers'
<1>1. /\ client' \in ClientEndpoints /\ Peer(client) /\ server' \in ServerEndpoints
      /\ Peer(server) /\ server.st \in ServerStates
      /\ ClientIss \in Seqs /\ ClientInv /\ ServerInv
  BY HostFacts, SessionConstants DEF Numbers
<1>2. \A x \in A : SentByClient(x)'
  <2>1. SUFFICES ASSUME NEW x, Outstanding(client), x = Unit(client, ClientIss, client.una)
                 PROVE  SentByClient(x)'
    BY DEF TimeoutSays
  <2>2. client.una \in 0 .. 2 /\ client.una < client.snd
    BY <1>1, <2>1, OutstandingUnit DEF Outstanding
  <2>3. /\ x.flags = UnitFlags(client, client.una) /\ x.seq = FromClientNo(client.una)
        /\ "ACK" \in UnitFlags(client, client.una) => x.ack = SeqAdd(client.irs, client.rcv)
    BY <1>1, <2>1, <2>2, UnitIsSegment DEF FromClientNo
  <2>4. CASE client.st = "syn_sent"
    <3>1. client.una = 0
      BY <1>1, <2>4 DEF ClientInv, Fresh
    <3>2. x.flags = {"SYN"} /\ x.seq = ClientIss
      BY <1>1, <2>3, <2>4, <3>1, SeqSmall DEF UnitFlags, FromClientNo
    <3>3. QED
      BY <3>2 DEF SentByClient
  <2>5. CASE client.st = "established"
    <3>1. client.rcv \in 1 .. 3 /\ client.snd \in 1 .. 3 /\ client.una \in 1 .. 2
      BY <1>1, <2>2, <2>5 DEF ClientInv
    <3>2. "ACK" \in UnitFlags(client, client.una)
      BY <3>1 DEF UnitFlags
    <3>3. QED
      BY <1>1, <2>3, <3>1, <3>2, ClientSegments
  <2>6. client.st # "syn_rcvd"
    BY HostFacts DEF ClientStates
  <2>7. QED
    BY <2>1, <2>4, <2>5, <2>6 DEF Outstanding
<1>3. \A x \in C : SentByServer(x)'
  <2>1. SUFFICES ASSUME NEW x, Outstanding(server), x = Unit(server, ServerIss, server.una)
                 PROVE  SentByServer(x)'
    BY DEF TimeoutSays
  <2>2. server.una \in 0 .. 2 /\ server.st # "listen" /\ server.st # "syn_sent"
    BY <1>1, <2>1, OutstandingUnit DEF Outstanding, ServerStates
  <2>3. client.rcv > 0 /\ server.rcv \in 1 .. 3
    BY <1>1, <2>2 DEF ServerInv
  <2>4. QED
    BY <1>1, <2>1, <2>2, <2>3, ServerSegments
<1>4. \A x : /\ SentByClient(x)' = SentByClient(x) /\ ForServer(x)' = ForServer(x)
             /\ SentByServer(x)' = SentByServer(x) /\ ForClient(x)' = ForClient(x)
  BY DEF SentByClient, ForServer, SentByServer, ForClient, AsClientSees, AsServerSees,
    FromClientNo, FromServerNo
<1>5. SegmentsInv'
  BY <1>2, <1>3, <1>4 DEF Numbers, SegmentsInv, Ways
<1>6. /\ ts' = ts /\ table' = table /\ HeldFirst' = HeldFirst
      /\ HasEntry(Conn)' = HasEntry(Conn) /\ Held(Conn)' = Held(Conn)
  BY DEF vars, treatVars, HeldFirst, HasEntry, Held
<1>7. ClientInv' /\ ServerInv' /\ AckedInv'
  BY DEF Numbers, ClientInv, ServerInv, AckedInv, FromClientNo, AsServerSees
<1>8. EntryInv'
  BY <1>4, <1>6 DEF Numbers, EntryInv, AsClientSees
<1>9. QED
  BY <1>5, <1>6, <1>7, <1>8 DEF Numbers

\* Carrying a segment along its way says nothing new.
LEMMA MovesKeepNumbers ==
  ASSUME Numbers, Moves
  PROVE  Numbers'
<1>1. UNCHANGED <<client, server, table>> /\ HeldFirst' = HeldFirst
  BY DEF Moves
<1>2. \A x : /\ SentByClient(x)' = SentByClient(x) /\ ForServer(x)' = ForServer(x)
             /\ SentByServer(x)' = SentByServer(x) /\ ForClient(x)' = ForClient(x)
  BY <1>1 DEF SentByClient, ForServer, SentByServer, ForClient, AsClientSees, AsServerSees,
    FromClientNo, FromServerNo
<1>3. SegmentsInv'
  BY <1>2 DEF Numbers, SegmentsInv, Moves, Ways
<1>4. HasEntry(Conn)' = HasEntry(Conn) /\ Held(Conn)' = Held(Conn)
  BY <1>1 DEF HasEntry, Held
<1>5. ClientInv' /\ ServerInv' /\ AckedInv'
  BY <1>1 DEF Numbers, ClientInv, ServerInv, AckedInv, FromClientNo, AsServerSees
<1>6. EntryInv'
  BY <1>1, <1>2, <1>4 DEF Numbers, EntryInv, AsClientSees
<1>7. ts' \in SessionTs
  BY DEF Numbers, Moves, SessionTs
<1>8. QED
  BY <1>3, <1>5, <1>6, <1>7 DEF Numbers

------------------------------------------------------------------------------
(* What the worker makes of the numbers of a segment.                      *)

\* A segment with another number, field by field.
LEMMA Rewritten ==
  ASSUME NEW p \in Segment, NEW n
  PROVE  /\ [p EXCEPT !.ack = n].ack = n /\ [p EXCEPT !.ack = n].flags = p.flags
         /\ [p EXCEPT !.ack = n].seq = p.seq
         /\ [p EXCEPT !.seq = n].seq = n /\ [p EXCEPT !.seq = n].flags = p.flags
         /\ [p EXCEPT !.seq = n].ack = p.ack
BY DEF Segment, Packet

\* The offset of an entry: none, or the one that maps the numbers.
LEMMA OffsetOf ==
  ASSUME Numbers, HasEntry(Conn)
  PROVE  /\ client.rcv > 0
         /\ table[Conn].offset \in {0, SeqSub(client.irs, ServerIss)}
BY DEF Numbers, EntryInv

\* What the worker passes on to the server is meant for it.
LEMMA ToServer ==
  ASSUME NumbersApart, SessionTypeOK, Numbers, NEW p \in Segment, SentByClient(p),
         NEW q, PassedIn(p, q)
  PROVE  ForServer(q)
<1>1. /\ ClientIss \in Seqs /\ ServerIss \in Seqs /\ p.conn = Conn
      /\ client.rcv > 0 => client.irs \in Seqs /\ client.rcv \in 1 .. 3
      /\ Peer(client)
  BY HostFacts, SessionConstants, SegmentFacts
<1>2. p.flags = {"SYN"} => IsSyn(p.flags) /\ ~IsAck(p.flags)
  BY FlagKinds
<1>3. ASSUME p.flags \in Acks
      PROVE  /\ client.rcv > 0
             /\ \E k \in 1 .. client.rcv : p.ack = AsClientSees(k)
             /\ \E n \in 1 .. 3 : p.seq = FromClientNo(n)
             /\ "PSH" \in p.flags => p.seq = FromClientNo(1)
             /\ "FIN" \in p.flags => p.seq = FromClientNo(2)
  <2>1. p.flags # {"SYN"}
    BY <1>2, <1>3, FlagKinds
  <2>2. QED
    BY <1>1, <2>1 DEF SentByClient, Peer
<1>4. CASE p.flags \notin Acks
  <2>1. IsSyn(p.flags) /\ ~IsAck(p.flags)
    BY <1>2, <1>4 DEF SentByClient
  <2>2. QED
    BY <2>1 DEF PassedIn
<1>5. CASE p.flags \in Acks /\ q = p
  BY <1>3, <1>5 DEF ForServer
<1>6. CASE /\ p.flags \in Acks /\ HasEntry(Conn)
           /\ q = [p EXCEPT !.ack = SeqSub(@, table[Conn].offset)]
  <2>1. PICK k \in 1 .. client.rcv : p.ack = AsClientSees(k)
    BY <1>3, <1>6
  <2>2. q.ack \in {FromServerNo(k), AsClientSees(k)}
    <3>1. client.irs \in Seqs /\ k \in Int
      BY <1>1, <1>3, <1>6, <2>1
    <3>2. q.ack = SeqSub(SeqAdd(client.irs, k), table[Conn].offset)
      BY <1>6, <2>1, Rewritten DEF AsClientSees
    <3>3. SeqSub(SeqAdd(client.irs, k), 0) = SeqAdd(client.irs, k)
      BY <3>1, SeqSmall, SeqArithmetic
    <3>4. SeqSub(SeqAdd(client.irs, k), SeqSub(client.irs, ServerIss)) = SeqAdd(ServerIss, k)
      BY <1>1, <3>1, Translation
    <3>5. QED
      BY <1>6, <3>2, <3>3, <3>4, OffsetOf DEF FromServerNo, AsClientSees
  <2>3. q.flags = p.flags /\ q.seq = p.seq
    BY <1>6, Rewritten
  <2>4. QED
    BY <1>3, <1>6, <2>2, <2>3 DEF ForServer
<1>7. CASE /\ p.flags \in Acks
           /\ q = [conn |-> p.conn, flags |-> {"SYN"}, seq |-> SeqSub(p.seq, 1), ack |-> 123 % SeqMod]
  <2>1. PICK n \in 1 .. 3 : p.seq = FromClientNo(n)
    BY <1>3, <1>7
  <2>2. n \in Int /\ n - 1 \in 0 .. 2
    OBVIOUS
  <2>3. q.seq = FromClientNo(n - 1)
    BY <1>1, <1>7, <2>1, <2>2, SameBase DEF FromClientNo
  <2>4. QED
    BY <1>3, <1>7, <2>2, <2>3 DEF ForServer
<1>8. CASE /\ p.flags \in Acks
           /\ q = [conn |-> p.conn, flags |-> {"RST"}, seq |-> p.ack, ack |-> 0]
  BY <1>3, <1>8 DEF ForServer
<1>9. QED
  BY <1>1, <1>4, <1>5, <1>6, <1>7, <1>8 DEF PassedIn

\* The answer to a SYN is meant for the client.
LEMMA Answered ==
  ASSUME NumbersApart, SessionTypeOK, Numbers, NEW p \in Segment, SentByClient(p),
         NEW r, AnsweredOut(p, r)
  PROVE  ForClient(r)
<1>1. p.flags = {"SYN"} /\ p.seq = ClientIss
  BY FlagKinds DEF SentByClient, AnsweredOut
<1>2. Cookie(Conn, ts) \in Issued
  BY ApartFacts DEF Numbers
<1>3. r.flags = SynAck /\ r.seq = Cookie(Conn, ts) /\ r.ack = FromClientNo(1)
  BY <1>1, SegmentFacts DEF AnsweredOut, SynAck, FromClientNo
<1>4. QED
  BY <1>2, <1>3 DEF ForClient

\* What the worker passes on to the client is meant for it.
LEMMA ToClient ==
  ASSUME NumbersApart, SessionTypeOK, Numbers, NEW p \in Segment, SentByServer(p),
         NEW q, PassedOut(p, q)
  PROVE  ForClient(q)
<1>1. /\ ClientIss \in Seqs /\ ServerIss \in Seqs /\ p.conn = Conn
      /\ client.rcv > 0 /\ client.irs \in Seqs
  BY HostFacts, SessionConstants, SegmentFacts DEF SentByServer
<1>2. Carries(p) => \E n \in 1 .. 2 : p.seq = FromServerNo(n)
  BY DEF SentByServer, Carries
<1>3. \/ p.flags = {"RST"}
      \/ /\ p.flags \in Acks \cup {SynAck}
         /\ \E k \in 1 .. server.rcv : p.ack = AsServerSees(k)
  BY DEF SentByServer
<1>4. CASE q = p
  BY <1>1, <1>2, <1>3, <1>4 DEF ForClient
<1>5. CASE HasEntry(Conn) /\ q = [p EXCEPT !.seq = SeqAdd(@, table[Conn].offset)]
  <2>1. q.flags = p.flags /\ q.ack = p.ack /\ q.seq = SeqAdd(p.seq, table[Conn].offset)
    BY <1>5, Rewritten
  <2>2. ASSUME NEW n \in 1 .. 2, p.seq = FromServerNo(n)
        PROVE  q.seq \in {FromServerNo(n), AsClientSees(n)}
    <3>1. n \in Int
      OBVIOUS
    <3>2. SeqAdd(SeqAdd(ServerIss, n), 0) = SeqAdd(ServerIss, n)
      BY <1>1, <3>1, SeqSmall, SeqArithmetic
    <3>3. SeqAdd(SeqAdd(ServerIss, n), SeqSub(client.irs, ServerIss)) = SeqAdd(client.irs, n)
      BY <1>1, <3>1, Translation
    <3>4. QED
      BY <1>5, <2>1, <2>2, <3>2, <3>3, OffsetOf DEF FromServerNo, AsClientSees
  <2>3. Carries(q) => \E n \in 1 .. 2 : q.seq \in {FromServerNo(n), AsClientSees(n)}
    BY <1>2, <2>1, <2>2 DEF Carries
  <2>4. QED
    BY <1>1, <1>3, <2>1, <2>3 DEF ForClient
<1>6. QED
  BY <1>1, <1>4, <1>5 DEF PassedOut

\* The SYN-ACK of the server, and the packet that it releases.
LEMMA ReleasedPacket ==
  ASSUME NumbersApart, SessionTypeOK, Numbers, NEW p \in Segment, SentByServer(p),
         IsSynAck(p.flags), HasEntry(Conn), NEW h \in HeldFirst
  PROVE  /\ p.seq = ServerIss /\ client.rcv > 0 /\ client.irs \in Seqs
         /\ h \in Segment /\ h.ack = AsClientSees(1) /\ h.flags \in Acks
         /\ "PSH" \in h.flags => h.seq = FromClientNo(1)
         /\ "FIN" \in h.flags => h.seq = FromClientNo(2)
<1>1. p.seq = ServerIss /\ client.rcv > 0
  BY FlagKinds DEF SentByServer, SynAck
<1>2. client.irs \in Seqs
  BY <1>1, HostFacts
<1>3. h \in Segment
  BY TypesAre DEF Contained
<1>4. SentByClient(h) /\ IsAck(h.flags) /\ h.ack = AsClientSees(1)
  BY DEF Numbers, EntryInv
<1>5. h.flags # {"SYN"}
  BY <1>4, FlagKinds
<1>6. QED
  BY <1>1, <1>2, <1>3, <1>4, <1>5 DEF SentByClient

\* What the worker releases to the server is meant for it.
LEMMA ReleasedToServer ==
  ASSUME NumbersApart, SessionTypeOK, Numbers, NEW p \in Segment, SentByServer(p),
         NEW r, ReleasedIn(p, r)
  PROVE  ForServer(r)
<1>1. p.conn = Conn
  BY SegmentFacts
<1>2. PICK h \in HeldFirst : r = [h EXCEPT !.ack = SeqAdd(p.seq, 1)]
  BY <1>1 DEF ReleasedIn, HeldFirst
<1>3. /\ p.seq = ServerIss /\ client.rcv > 0 /\ h \in Segment /\ h.flags \in Acks
      /\ "PSH" \in h.flags => h.seq = FromClientNo(1)
      /\ "FIN" \in h.flags => h.seq = FromClientNo(2)
  BY <1>1, ReleasedPacket DEF ReleasedIn
<1>4. r.flags = h.flags /\ r.seq = h.seq /\ r.ack = FromServerNo(1)
  BY <1>2, <1>3, Rewritten DEF FromServerNo
<1>5. 1 \in 1 .. client.rcv
  BY <1>3, HostFacts
<1>6. QED
  BY <1>3, <1>4, <1>5 DEF ForServer

\* The entry after the treatment of a segment from either host.
LEMMA EntryGoesOn ==
  ASSUME Numbers, SameEntry, UNCHANGED <<client, server>>
  PROVE  EntryInv'
<1>1. \A p : SentByClient(p)' = SentByClient(p)
  BY DEF SentByClient, AsClientSees, FromClientNo
<1>2. QED
  BY <1>1 DEF Numbers, EntryInv, SameEntry, AsClientSees

\* The entry after a segment from the client.
LEMMA EntryByClient ==
  ASSUME NumbersApart, SessionTypeOK, Numbers, UNCHANGED <<client, server>>,
         NEW p \in Segment, SentByClient(p), EntryFromOutside(p)
  PROVE  EntryInv'
<1>1. p.conn = Conn
  BY SegmentFacts
<1>2. CASE NewEntry /\ IsSynAck(p.flags)
  BY <1>2, FlagKinds DEF SentByClient
<1>3. CASE /\ NewEntry /\ IsAck(p.flags) /\ HeldFirst' = {p}
           /\ check_syn_cookie(SeqSub(p.ack, 1), p.conn, ts)
  <2>1. p.flags # {"SYN"}
    BY <1>3, FlagKinds
  <2>2. PICK k \in 1 .. client.rcv : p.ack = AsClientSees(k)
    BY <2>1 DEF SentByClient
  <2>3. client.rcv > 0 /\ k \in 1 .. 3 /\ client.irs \in Issued
    BY <2>2, HostFacts DEF Peer
  <2>4. k = 1
    BY <1>1, <1>3, <2>2, <2>3, CookieOnly DEF Numbers, AsClientSees
  <2>5. SentByClient(p)' /\ p.ack = AsClientSees(1)'
    BY <2>2, <2>4 DEF SentByClient, AsClientSees, FromClientNo
  <2>6. \A h \in HeldFirst' : SentByClient(h)' /\ IsAck(h.flags) /\ h.ack = AsClientSees(1)'
    BY <1>3, <2>5
  <2>7. QED
    BY <1>3, <2>3, <2>6 DEF EntryInv, NewEntry
<1>4. QED
  BY <1>2, <1>3, EntryGoesOn DEF EntryFromOutside

\* The entry after a segment from the server.
LEMMA EntryByServer ==
  ASSUME NumbersApart, SessionTypeOK, Numbers, UNCHANGED <<client, server>>,
         NEW p \in Segment, SentByServer(p), EntryFromInside(p)
  PROVE  EntryInv'
<1>1. CASE NewEntry /\ HeldFirst' = {}
  BY <1>1 DEF EntryInv, NewEntry, SentByServer
<1>2. CASE /\ IsSynAck(p.flags) /\ HasEntry(Conn)
           /\ \E h \in HeldFirst : table'[Conn].offset = SeqSub(SeqSub(h.ack, p.seq), 1)
           /\ Held(Conn)' = <<>> /\ HeldFirst' = {}
  <2>1. PICK h \in HeldFirst : table'[Conn].offset = SeqSub(SeqSub(h.ack, p.seq), 1)
    BY <1>2
  <2>2. /\ p.seq = ServerIss /\ client.rcv > 0 /\ client.irs \in Seqs
        /\ h.ack = SeqAdd(client.irs, 1) /\ ServerIss \in Seqs
    BY <1>2, ReleasedPacket, SessionConstants DEF AsClientSees
  <2>3. table'[Conn].offset = SeqSub(client.irs, ServerIss)
    BY <2>1, <2>2, Translation
  <2>4. QED
    BY <1>2, <2>2, <2>3 DEF EntryInv
<1>3. QED
  BY <1>1, <1>2, EntryGoesOn DEF EntryFromInside

\* The treatment of a segment keeps all that is said of the numbers.
LEMMA TreatmentKeepsNumbers ==
  ASSUME NumbersApart, SessionTypeOK, Numbers, Treats
  PROVE  Numbers'
<1>1. UNCHANGED <<client, server, ts>>
  BY DEF Treats
<1>2. \A x : /\ SentByClient(x)' = SentByClient(x) /\ ForServer(x)' = ForServer(x)
             /\ SentByServer(x)' = SentByServer(x) /\ ForClient(x)' = ForClient(x)
  BY <1>1 DEF SentByClient, ForServer, SentByServer, ForClient, AsClientSees, AsServerSees,
    FromClientNo, FromServerNo
<1>3. ClientInv' /\ ServerInv' /\ AckedInv' /\ ts' \in SessionTs
  BY <1>1 DEF Numbers, ClientInv, ServerInv, AckedInv, FromClientNo, AsServerSees
<1>4. ASSUME NEW p \in Segment, TreatsOutside(p)
      PROVE  SegmentsInv' /\ EntryInv'
  <2>1. SentByClient(p)
    BY <1>4 DEF Numbers, SegmentsInv, TreatsOutside
  <2>2. \A q : PassedIn(p, q) => ForServer(q)
    BY <2>1, ToServer
  <2>3. \A r : AnsweredOut(p, r) => ForClient(r)
    BY <2>1, Answered
  <2>4. SegmentsInv'
    BY <1>2, <1>4, <2>2, <2>3 DEF Numbers, SegmentsInv, TreatsOutside
  <2>5. EntryInv'
    BY <1>1, <1>4, <2>1, EntryByClient DEF TreatsOutside
  <2>6. QED
    BY <2>4, <2>5
<1>5. ASSUME NEW p \in Segment, TreatsInside(p)
      PROVE  SegmentsInv' /\ EntryInv'
  <2>1. SentByServer(p)
    BY <1>5 DEF Numbers, SegmentsInv, TreatsInside
  <2>2. \A q : PassedOut(p, q) => ForClient(q)
    BY <2>1, ToClient
  <2>3. \A r : ReleasedIn(p, r) => ForServer(r)
    BY <2>1, ReleasedToServer
  <2>4. SegmentsInv'
    BY <1>2, <1>5, <2>2, <2>3 DEF Numbers, SegmentsInv, TreatsInside
  <2>5. EntryInv'
    BY <1>1, <1>5, <2>1, EntryByServer DEF TreatsInside
  <2>6. QED
    BY <2>4, <2>5
<1>6. SegmentsInv' /\ EntryInv'
  BY <1>4, <1>5 DEF Treats
<1>7. QED
  BY <1>3, <1>6 DEF Numbers

------------------------------------------------------------------------------
(* The theorems about the numbers of a session.                            *)

\* The two halves of the inductive invariant.
LEMMA SessionInvAre == SessionInv <=> CloseInv /\ Numbers
BY DEF SessionInv, Numbers

\* The second half holds at the start.
LEMMA NumbersAtStart == SessionInit => Numbers
<1> SUFFICES ASSUME SessionInit
             PROVE  Numbers
  OBVIOUS
<1>1. client = Fresh("closed") /\ server = Fresh("listen")
  BY DEF SessionInit
<1>2. ts \in SessionTs
  BY DEF SessionInit, Init, TreatmentInit, SessionTs
<1>3. ClientInv /\ ServerInv /\ AckedInv
  BY <1>1 DEF ClientInv, ServerInv, AckedInv, Fresh
<1>4. SegmentsInv /\ EntryInv
  BY NothingAtStart DEF SegmentsInv, EntryInv
<1>5. QED
  BY <1>2, <1>3, <1>4 DEF Numbers

\* Every step keeps both.
LEMMA SessionStep ==
  ASSUME NumbersApart, SessionInv, [SessionNext]_sessionVars
  PROVE  SessionInv'
<1>1. IInv /\ SessionTypeOK /\ Numbers /\ CloseInv
  BY SessionInvAre DEF CloseInv
<1>2. CloseInv' /\ SessionTypeOK'
  BY <1>1, CloseStep DEF CloseInv
<1>3. SUFFICES Numbers'
  BY <1>2 DEF SessionInv, Numbers
<1>4. CASE ClientSays /\ UNCHANGED <<vars, server>>
  BY <1>1, <1>2, <1>4, ClientKeepsNumbers
<1>5. CASE ServerSays /\ UNCHANGED <<vars, client>>
  BY <1>1, <1>5, ServerKeepsNumbers
<1>6. CASE Timeout
  <2>1. PICK A, C : TimeoutSays(A, C) /\ Ways(A, {}, C, {})
    BY <1>1, <1>6, TimeoutSpeaks
  <2>2. UNCHANGED <<vars, client, server>>
    BY <1>1, <1>6, TimeoutSpeaks
  <2>3. QED
    BY <1>1, <2>1, <2>2, TimeoutKeepsNumbers
<1>7. CASE Moves
  BY <1>1, <1>7, MovesKeepNumbers
<1>8. CASE Treats
  BY <1>1, <1>8, TreatmentKeepsNumbers
<1>9. QED
  BY <1>1, <1>4, <1>5, <1>6, <1>7, <1>8, SessionSteps

(***************************************************************************)
(* The inductive invariant of a session: what the segments on every way    *)
(* say, what the two hosts know of each other and what the entry holds.    *)
(***************************************************************************)
THEOREM SessionInvHolds == NumbersApart => (SessionSpec => []SessionInv)
<1> SUFFICES ASSUME NumbersApart
             PROVE  SessionSpec => []SessionInv
  OBVIOUS
<1>1. SessionInit => SessionInv
  BY CloseAtStart, NumbersAtStart, SessionInvAre
<1>2. SessionInv /\ [SessionNext]_sessionVars => SessionInv'
  BY SessionStep
<1>3. QED
  BY <1>1, <1>2, PTL DEF SessionSpec

(***************************************************************************)
(* While both hosts are connected through an open entry, _offset is the    *)
(* difference of the initial numbers that they know, however often the     *)
(* handshake is repeated around the worker and whichever cookie the client *)
(* accepted.                                                               *)
(***************************************************************************)
THEOREM OffsetMatchesHolds == NumbersApart => (SessionSpec => []OffsetMatches)
<1> SUFFICES ASSUME NumbersApart
             PROVE  SessionSpec => []OffsetMatches
  OBVIOUS
<1>1. SessionInv => OffsetMatches
  BY DEF SessionInv, EntryInv, OffsetMatches
<1>2. QED
  BY <1>1, SessionInvHolds, PTL

\* What one host takes for acknowledged the other has received.
LEMMA AcknowledgedIsReceived ==
  ASSUME NumbersApart, SessionInv
  PROVE  AckedIsReceived
<1>1. SessionTypeOK /\ Numbers
  BY SessionInvAre DEF CloseInv
<1>2. Peer(client) /\ Peer(server) /\ ClientIss \in Seqs
  BY <1>1, HostFacts, SessionConstants
<1>3. server.una <= 1 \/ server.una <= client.rcv
  BY <1>1 DEF Numbers, AckedInv
<1>4. ASSUME server.irs = ClientIss, ~(client.una <= 1)
      PROVE  client.una <= server.rcv
  <2>1. PICK k \in 1 .. server.rcv : FromClientNo(client.una) = AsServerSees(k)
    BY <1>1, <1>4 DEF Numbers, AckedInv
  <2>2. server.rcv \in 1 .. 3
    <3>1. server.st = "listen" => server.rcv = 0
      BY <1>1 DEF Numbers, ServerInv, Fresh
    <3>2. server.rcv > 0
      BY <1>2, <2>1 DEF Peer
    <3>3. QED
      BY <1>1, <3>1, <3>2 DEF Numbers, ServerInv
  <2>3. /\ k \in 0 .. 6 /\ client.una \in 0 .. 6 /\ k \in Int /\ client.una \in Int
        /\ k <= server.rcv
    BY <1>2, <2>1, <2>2 DEF Peer
  <2>4. SeqAdd(ClientIss, client.una) = SeqAdd(ClientIss, k)
    BY <1>4, <2>1 DEF FromClientNo, AsServerSees
  <2>5. SeqAdd(0, client.una) = SeqAdd(0, k)
    BY <1>2, <2>3, <2>4, SameBase
  <2>6. client.una = k
    BY <2>3, <2>5, SeqSmall
  <2>7. QED
    BY <2>3, <2>6
<1>5. QED
  BY <1>3, <1>4 DEF AckedIsReceived

(***************************************************************************)
(* Between cookie, offset and queue the proxy never acknowledges a byte    *)
(* that the other host has not received, for every number of losses,       *)
(* duplicates and retransmissions.                                         *)
(***************************************************************************)
THEOREM AckedIsReceivedHolds == NumbersApart => (SessionSpec => []AckedIsReceived)
<1> SUFFICES ASSUME NumbersApart
             PROVE  SessionSpec => []AckedIsReceived
  OBVIOUS
<1>1. SessionInv => AckedIsReceived
  BY AcknowledgedIsReceived
<1>2. QED
  BY <1>1, SessionInvHolds, PTL

==============================================================================
