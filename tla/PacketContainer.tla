--------------------------- MODULE PacketContainer ---------------------------
(***************************************************************************)
(* The class of include/PacketDissection/PacketContainer.hpp with its      *)
(* two-dimensional arrays, its counters and the PacketInfo objects that    *)
(* describe the buffers, and its subclass PacketContainerLean, which the   *)
(* attacker's threads use: the same arrays without PacketInfo objects.     *)
(* Both implement ContainerPromise: the slots module Treatment works with. *)
(*                                                                         *)
(* send_packets hands one array after the other to the card, one step per  *)
(* array; all other operations are one step.  Transmitted buffers belong   *)
(* to the driver until it frees them.                                      *)
(***************************************************************************)
EXTENDS SlotContainer, FiniteSets

CONSTANTS
  BurstSize,  \* BURST_SIZE, the length of an array
  NumArrs,    \* NUM_MBUF_ARRS
  NumInfos    \* bound on the PacketInfo objects allocated at a time

ASSUME ArraysAssumption ==
  BurstSize \in Nat \ {0} /\ NumArrs \in Nat \ {0} /\ Capacity = NumArrs * BurstSize
ASSUME InfosAssumption == NumInfos \in Nat /\ Null \notin 1 .. NumInfos

VARIABLES
  lean,    \* the container is a PacketContainerLean
  c,       \* the members of the container
  heap,    \* the allocated PacketInfo objects and the buffer each points to
  pool,    \* the free buffers of _mempool
  wire,    \* buffers transmitted and not yet freed by the driver
  taken,   \* PacketInfo objects the treatment has taken out
  sending  \* array send_packets is about to transmit

vars == <<lean, c, heap, pool, wire, taken, sending>>

Infos == 1 .. NumInfos
ArrIndex == 0 .. NumArrs - 1
PosIndex == 0 .. BurstSize - 1

NotSending == -1
Idle == sending = NotSending

NoPointers == [i \in ArrIndex |-> [j \in PosIndex |-> Null]]

\* calculate_array_coordinates_from_index
Arr(index) == index \div BurstSize
Pos(index) == index % BurstSize

Members == [mbuf_arrs : [ArrIndex -> [PosIndex -> Mbufs \cup {Null}]],
            pkt_info_arrs : [ArrIndex -> [PosIndex -> Infos \cup {Null}]],
            nb_mbufs : [ArrIndex -> 0 .. BurstSize],
            polled : 0 .. BurstSize, total : 0 .. Capacity,
            arrays : 0 .. NumArrs, dropped : Nat]

Init ==
  /\ lean \in BOOLEAN
  /\ c = [mbuf_arrs |-> NoPointers, pkt_info_arrs |-> NoPointers,
          nb_mbufs |-> [i \in ArrIndex |-> 0],
          polled |-> 0, total |-> 0, arrays |-> 1, dropped |-> 0]
  /\ heap = [x \in Infos |-> Null]
  /\ pool = Mbufs
  /\ wire = {}
  /\ taken = {}
  /\ sending = NotSending

------------------------------------------------------------------------------
(* PacketInfo objects: an address is free while heap maps it to Null.      *)

Allocated == {x \in Infos : heap[x] # Null}

\* The n-th PacketInfo that is created next: the lowest free addresses.
NewInfo(n) ==
  CHOOSE x \in Infos \ Allocated : Cardinality(1 .. x - 1 \ Allocated) = n

Freed(dead) == [x \in Infos |-> IF x \in dead THEN Null ELSE heap[x]]

------------------------------------------------------------------------------
(* The arrays.                                                             *)

\* Positions below _nb_mbufs_in_mbuf_arr of the arrays in use.
Listed(k) ==
  {p \in ArrIndex \X PosIndex : p[1] < k.arrays /\ p[2] < k.nb_mbufs[p[1]]}

ListedInfos(k) == {k.pkt_info_arrs[p[1]][p[2]] : p \in Listed(k)} \ {Null}

Cleared(arrs, ps) ==
  [i \in ArrIndex |-> [j \in PosIndex |->
     IF <<i, j>> \in ps THEN Null ELSE arrs[i][j]]]

\* Mutations: the counters stay; the buffer pointers stay.
EmptiedCountersKept(k) ==
  [k EXCEPT !.mbuf_arrs = Cleared(@, Listed(k)),
            !.pkt_info_arrs = Cleared(@, Listed(k)),
            !.polled = 0, !.total = 0, !.dropped = 0, !.arrays = 0]
EmptiedPointersKept(k) ==
  [k EXCEPT !.pkt_info_arrs = Cleared(@, Listed(k)),
            !.nb_mbufs = [i \in ArrIndex |-> IF i < k.arrays THEN 0 ELSE @[i]],
            !.polled = 0, !.total = 0, !.dropped = 0, !.arrays = 0]

\* empty_container; the PacketInfo objects it destroys are ListedInfos.
Emptied(k) ==
  [k EXCEPT !.mbuf_arrs = Cleared(@, Listed(k)),
            !.pkt_info_arrs = Cleared(@, Listed(k)),
            !.nb_mbufs = [i \in ArrIndex |-> IF i < k.arrays THEN 0 ELSE @[i]],
            !.polled = 0, !.total = 0, !.dropped = 0, !.arrays = 0]

\* Mutation: the array that becomes necessary is not counted.
AppendedInLastArray(k, m) ==
  LET i == Arr(k.total) IN
  [k EXCEPT !.mbuf_arrs[i][Pos(k.total)] = m, !.total = @ + 1, !.nb_mbufs[i] = @ + 1,
            !.arrays = IF @ = 0 THEN 1 ELSE @]

\* A buffer goes behind the last one, in a new array if those in use are full.
AppendedBuffer(k, m) ==
  LET i == Arr(k.total) IN
  [k EXCEPT !.mbuf_arrs[i][Pos(k.total)] = m, !.total = @ + 1, !.nb_mbufs[i] = @ + 1,
            !.arrays = IF BurstSize * @ < k.total + 1 THEN @ + 1 ELSE @]

\* A buffer and its PacketInfo.
Appended(k, m, x) ==
  [AppendedBuffer(k, m) EXCEPT !.pkt_info_arrs[Arr(k.total)][Pos(k.total)] = x]

\* Mutations: the removal is not counted; the PacketInfo stays listed.
RemovedUncounted(k, index, n) ==
  [k EXCEPT !.mbuf_arrs[Arr(index)][Pos(index)] = Null,
            !.pkt_info_arrs[Arr(index)][Pos(index)] = Null]
RemovedInfoListed(k, index, n) ==
  [k EXCEPT !.mbuf_arrs[Arr(index)][Pos(index)] = Null, !.dropped = @ + n]

\* Both pointers at index go; _nb_pkts_dropped grows by n.
Removed(k, index, n) ==
  [k EXCEPT !.mbuf_arrs[Arr(index)][Pos(index)] = Null,
            !.pkt_info_arrs[Arr(index)][Pos(index)] = Null,
            !.dropped = @ + n]

\* The buffers among the first len pointers of an array, moved to the front.
Live(arr, len) == {j \in PosIndex : j < len /\ arr[j] # Null}
Compacted(arr, len) ==
  [n \in PosIndex |->
     IF n < Cardinality(Live(arr, len))
     THEN arr[CHOOSE j \in Live(arr, len) :
                Cardinality({l \in Live(arr, len) : l < j}) = n]
     ELSE IF n < len THEN Null ELSE arr[n]]

\* reorder_mbuf_arrays moves the buffers, not the PacketInfo objects.
Reordered(k) ==
  [k EXCEPT
     !.mbuf_arrs = [i \in ArrIndex |->
        IF i < k.arrays THEN Compacted(@[i], k.nb_mbufs[i]) ELSE @[i]],
     !.nb_mbufs = [i \in ArrIndex |->
        IF i < k.arrays THEN Cardinality(Live(k.mbuf_arrs[i], @[i])) ELSE @[i]]]

------------------------------------------------------------------------------
(* The operations.                                                         *)

\* A burst of n in the first array.
PolledBuffers(k, burst, n) ==
  [k EXCEPT
     !.mbuf_arrs[0] = [j \in PosIndex |-> IF j < n THEN burst[j] ELSE @[j]],
     !.polled = n, !.total = n,
     !.arrays = IF n > 0 THEN 1 ELSE @,
     !.nb_mbufs[0] = IF n > 0 THEN n ELSE @]

\* Mutation: the PacketInfo of the last packet is not created.
PolledLastUndescribed(k, burst, n) ==
  [PolledBuffers(k, burst, n) EXCEPT
     !.pkt_info_arrs[0] = [j \in PosIndex |-> IF j < n - 1 THEN NewInfo(j) ELSE @[j]]]

\* A burst of n, a new PacketInfo for each.
Polled(k, burst, n) ==
  [PolledBuffers(k, burst, n) EXCEPT
     !.pkt_info_arrs[0] = [j \in PosIndex |-> IF j < n THEN NewInfo(j) ELSE @[j]]]

\* What the card delivers: free buffers, each once.
Bursts(n) == {burst \in [0 .. n - 1 -> pool] :
                \A i, j \in 0 .. n - 1 : burst[i] = burst[j] => i = j}

\* The worker polls only what it has sent before (DefenseThread's
\* PollFindsNothingUnsent), so nothing is destroyed here.
poll_packets ==
  /\ ~lean /\ Idle /\ c.total = 0
  /\ \E n \in 0 .. BurstSize :
       /\ n <= Cardinality(Infos \ Allocated)
       /\ \E burst \in Bursts(n) :
            /\ c' = Polled(Emptied(c), burst, n)
            /\ heap' = [x \in Infos |->
                 IF \E j \in 0 .. n - 1 : x = NewInfo(j)
                 THEN burst[CHOOSE j \in 0 .. n - 1 : x = NewInfo(j)] ELSE heap[x]]
            /\ pool' = pool \ {burst[j] : j \in 0 .. n - 1}
  /\ UNCHANGED <<wire, taken, sending>>

\* The attack thread has sent or forgotten what it polled before.
poll_mbufs ==
  /\ lean /\ Idle /\ c.total = 0
  /\ \E n \in 0 .. BurstSize : \E burst \in Bursts(n) :
       /\ c' = PolledBuffers(Emptied(c), burst, n)
       /\ pool' = pool \ {burst[j] : j \in 0 .. n - 1}
  /\ UNCHANGED <<heap, wire, taken, sending>>

\* An empty pool crashes create_pkt_info: Treatment's InOutOfBuffers.
get_empty_packet ==
  /\ ~lean /\ Idle /\ c.total < Capacity /\ Infos \ Allocated # {}
  /\ \E m \in pool :
       /\ c' = Appended(c, m, NewInfo(0))
       /\ heap' = [heap EXCEPT ![NewInfo(0)] = m]
       /\ pool' = pool \ {m}
  /\ UNCHANGED <<wire, taken, sending>>

add_packet ==
  /\ ~lean /\ Idle /\ c.total < Capacity
  /\ \E x \in taken :
       /\ c' = Appended(c, heap[x], x)
       /\ taken' = taken \ {x}
  /\ UNCHANGED <<heap, pool, wire, sending>>

\* The attack thread adds copies of its packet.
add_mbuf ==
  /\ lean /\ Idle /\ c.total < Capacity
  /\ \E m \in pool : c' = AppendedBuffer(c, m) /\ pool' = pool \ {m}
  /\ UNCHANGED <<heap, wire, taken, sending>>

\* A thread removes a polled packet, each at most once.
Removable(index) ==
  Idle /\ index < c.polled /\ c.mbuf_arrs[Arr(index)][Pos(index)] # Null

drop_packet ==
  /\ ~lean
  /\ \E index \in SlotIndex :
       /\ Removable(index)
       /\ c' = Removed(c, index, 1)
       /\ heap' = Freed({c.pkt_info_arrs[Arr(index)][Pos(index)]})
       /\ pool' = pool \cup {c.mbuf_arrs[Arr(index)][Pos(index)]}
  /\ UNCHANGED <<wire, taken, sending>>

\* take_packet increments _nb_pkts_dropped twice.
take_packet ==
  /\ ~lean
  /\ \E index \in SlotIndex :
       /\ Removable(index)
       /\ c' = Removed(c, index, 2)
       /\ taken' = taken \cup {c.pkt_info_arrs[Arr(index)][Pos(index)]}
  /\ UNCHANGED <<heap, pool, wire, sending>>

\* _nb_polled_pkts_dropped is the counter `dropped' of the lean class.
drop_polled_mbuf ==
  /\ lean
  /\ \E index \in SlotIndex :
       /\ Removable(index)
       /\ c' = Removed(c, index, 1)
       /\ pool' = pool \cup {c.mbuf_arrs[Arr(index)][Pos(index)]}
  /\ UNCHANGED <<heap, wire, taken, sending>>

\* Sending is the same in both classes; the lean one has no PacketInfo to destroy.
send_nothing ==
  /\ Idle /\ c.total = 0
  /\ c' = Emptied(c)
  /\ heap' = Freed(ListedInfos(c))
  /\ UNCHANGED <<pool, wire, taken, sending>>

send_packets ==
  /\ Idle /\ c.total > 0
  /\ c' = IF c.dropped # 0 THEN Reordered(c) ELSE c
  /\ sending' = 0
  /\ UNCHANGED <<heap, pool, wire, taken>>

\* The card accepts the first packets of the array, the others are freed.
tx_burst ==
  /\ ~Idle /\ sending < c.arrays
  /\ \E sent \in 0 .. c.nb_mbufs[sending] :
       /\ wire' = wire \cup {c.mbuf_arrs[sending][j] : j \in 0 .. sent - 1}
       /\ pool' = pool \cup
            {c.mbuf_arrs[sending][j] : j \in sent .. c.nb_mbufs[sending] - 1}
  /\ sending' = sending + 1
  /\ UNCHANGED <<c, heap, taken>>

all_sent ==
  /\ ~Idle /\ sending = c.arrays
  /\ c' = Emptied(c)
  /\ heap' = Freed(ListedInfos(c))
  /\ sending' = NotSending
  /\ UNCHANGED <<pool, wire, taken>>

\* The driver frees what has left the card.
driver_frees ==
  /\ \E m \in wire : wire' = wire \ {m} /\ pool' = pool \cup {m}
  /\ UNCHANGED <<c, heap, taken, sending>>

Next ==
  /\ \/ poll_packets \/ get_empty_packet \/ add_packet \/ drop_packet \/ take_packet
     \/ poll_mbufs \/ add_mbuf \/ drop_polled_mbuf
     \/ send_nothing \/ send_packets \/ tx_burst \/ all_sent
     \/ driver_frees
  /\ UNCHANGED lean

Spec == Init /\ [][Next]_vars

------------------------------------------------------------------------------
(* Correctness.                                                            *)

\* The members stay in the range of their types and arrays.
TypeOK ==
  /\ lean \in BOOLEAN
  /\ c \in Members
  /\ heap \in [Infos -> Mbufs \cup {Null}]
  /\ pool \subseteq Mbufs
  /\ wire \subseteq Mbufs
  /\ taken \subseteq Infos
  /\ sending \in NotSending .. NumArrs

\* Who has a buffer: the pool, the driver, a taken PacketInfo, a place in
\* an array that has not been transmitted.
Owners(m) ==
  {<<"pool">> : n \in {m} \cap pool}
    \cup {<<"driver">> : n \in {m} \cap wire}
    \cup {<<"taken", x>> : x \in {y \in taken : heap[y] = m}}
    \cup {<<"array", p>> : p \in {q \in ArrIndex \X PosIndex :
            q[1] >= sending /\ c.mbuf_arrs[q[1]][q[2]] = m}}

(***************************************************************************)
(* No buffer is lost and none has two owners: each is free, with the       *)
(* driver, taken, or in exactly one place of an array still to be sent,    *)
(* however packets were added, dropped, taken and reordered before.        *)
(***************************************************************************)
BufferConservation ==
  \A m \in Mbufs : Cardinality(Owners(m)) = 1

(***************************************************************************)
(* rte_eth_tx_burst never gets a null pointer: whatever was removed, the   *)
(* arrays were reordered before the first of them is transmitted.          *)
(***************************************************************************)
NoNullTransmitted ==
  ~Idle => \A p \in Listed(c) : p[1] >= sending => c.mbuf_arrs[p[1]][p[2]] # Null

(***************************************************************************)
(* No PacketInfo is destroyed while a pointer to it is left, in the arrays *)
(* or with the treatment, so none is used or destroyed again: not even the *)
(* pointers that reordering leaves beyond the end of an array.             *)
(***************************************************************************)
NoDanglingInfo ==
  /\ taken \subseteq Allocated
  /\ \A i \in ArrIndex, j \in PosIndex :
       c.pkt_info_arrs[i][j] \in (Allocated \ taken) \cup {Null}

\* PacketInfo at an index holds information to the mbuf at that index.
AlignedAt(i, j) ==
  IF c.pkt_info_arrs[i][j] = Null THEN c.mbuf_arrs[i][j] = Null
  ELSE heap[c.pkt_info_arrs[i][j]] = c.mbuf_arrs[i][j]

(***************************************************************************)
(* While the treatment works with the container, the PacketInfo at each    *)
(* index describes the buffer at that index: rewriting one packet never    *)
(* writes into the buffer of another.                                      *)
(***************************************************************************)
InfosAligned == Idle /\ ~lean => \A p \in Listed(c) : AlignedAt(p[1], p[2])

------------------------------------------------------------------------------
(* The container as the treatment sees it; what is being sent is gone.     *)

Slots ==
  IF Idle
  THEN [slots |-> [j \in SlotIndex |-> c.mbuf_arrs[Arr(j)][Pos(j)]],
        polled |-> c.polled, total |-> c.total]
  ELSE EmptyContainer

Promise == INSTANCE ContainerPromise WITH container <- Slots

(***************************************************************************)
(* Through arrays, counters and reordering the container keeps the promise *)
(* the treatment relies on: what is added goes behind the last packet and  *)
(* nothing else moves or appears.                                          *)
(***************************************************************************)
ImplementsPromise == Promise!Spec

------------------------------------------------------------------------------
(* The inductive invariant behind the safety properties.                   *)

Places == ArrIndex \X PosIndex
Buf(p) == c.mbuf_arrs[p[1]][p[2]]
Inf(p) == c.pkt_info_arrs[p[1]][p[2]]

\* Places of arrays that have not been transmitted.
Active == {p \in Places : p[1] >= sending}

\* How many of the first `total' indices fall into array i.
Filled(total, i) ==
  IF total <= i * BurstSize THEN 0
  ELSE IF total >= (i + 1) * BurstSize THEN BurstSize ELSE total - i * BurstSize

CountersInv ==
  /\ Idle =>
       /\ \A i \in ArrIndex : c.nb_mbufs[i] = Filled(c.total, i)
       /\ c.total <= c.arrays * BurstSize
       /\ c.total = 0 => c.arrays <= 1
       /\ c.total > 0 => (c.arrays - 1) * BurstSize < c.total
       /\ c.polled <= c.total
  /\ ~Idle => sending <= c.arrays /\ \A i \in ArrIndex : i >= c.arrays => c.nb_mbufs[i] = 0

\* No buffer lies beyond the count of its array; below it, a gap is known as one.
PlacesInv ==
  /\ \A p \in Places : Buf(p) # Null => p[2] < c.nb_mbufs[p[1]]
  /\ Idle /\ c.dropped = 0 => \A p \in Places : p[2] < c.nb_mbufs[p[1]] => Buf(p) # Null
  /\ ~Idle => \A p \in Active : p[2] < c.nb_mbufs[p[1]] => Buf(p) # Null

\* Every buffer is somewhere, and in one place only.
BuffersInv ==
  /\ pool \cap wire = {}
  /\ \A p \in Active : Buf(p) \notin pool \cup wire
  /\ \A p, q \in Active : Buf(p) = Buf(q) /\ Buf(p) # Null => p = q
  /\ \A x \in taken : heap[x] \in Mbufs \ (pool \cup wire) /\ \A p \in Active : Buf(p) # heap[x]
  /\ \A x, y \in taken : heap[x] = heap[y] => x = y
  /\ \A m \in Mbufs : m \in pool \cup wire \/ (\E p \in Active : Buf(p) = m)
                        \/ (\E x \in taken : heap[x] = m)

\* PacketInfo objects with a pointer to them are allocated, and have one pointer.
InfosInv ==
  /\ taken \subseteq Allocated
  /\ \A p \in Places : Inf(p) # Null => Inf(p) \in Allocated \ taken
  /\ \A p, q \in Places : Inf(p) = Inf(q) /\ Inf(p) # Null => p = q
  /\ lean => taken = {} /\ \A p \in Places : Inf(p) = Null

IInv == TypeOK /\ CountersInv /\ PlacesInv /\ BuffersInv /\ InfosInv /\ InfosAligned

==============================================================================
