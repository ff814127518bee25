------------------------- MODULE DefenseThreadProofs -------------------------
(***************************************************************************)
(* Proofs about DefenseThread for every number of connections, buffers and *)
(* timestamps and for every burst size.                                    *)
(*                                                                         *)
(* The inductive invariant is IInv of DefenseThread: the types, where the  *)
(* loop is and how full its containers are, who owns each buffer, and that *)
(* held buffers contain TCP packets.  The lemmas come first: arithmetic,   *)
(* records, the two container operations, then one lemma for each part of  *)
(* IInv that most branches of the treatment leave alone.                   *)
(***************************************************************************)
EXTENDS DefenseThread, TLAPS

------------------------------------------------------------------------------
(* Arithmetic of sequence numbers, cookies and timestamps.                 *)

\* Sums and differences of sequence numbers are sequence numbers.
LEMMA SeqArithmetic ==
  /\ SeqMod \in Nat \ {0}
  /\ Seqs \subseteq Int
  /\ 0 \in Seqs
  /\ \A a, b \in Int : SeqAdd(a, b) \in Seqs /\ SeqSub(a, b) \in Seqs
  /\ 123 % SeqMod \in Seqs
<1>1. SeqMod \in Nat \ {0}
  BY TsModAssumption, HashModAssumption DEF SeqMod
<1>2. ASSUME NEW x \in Int PROVE x % SeqMod \in 0 .. SeqMod - 1
  BY <1>1
<1>3. QED
  BY <1>1, <1>2 DEF Seqs, SeqAdd, SeqSub

\* A cookie, torn or not, fits into a sequence number.
LEMMA CookieIsSeq ==
  ASSUME NEW c \in Conns, NEW t \in Ts, NEW u \in Ts
  PROVE TornCookie(c, t, u) \in Seqs
<1>1. /\ CookieHash[c][t] \in 0 .. HashMod - 1
      /\ u \in 0 .. TsMod - 1
  BY CookieHashAssumption DEF Ts
<1>2. QED
  BY <1>1, TsModAssumption, HashModAssumption, SMTT(30) DEF TornCookie, Seqs, SeqMod

\* Incrementing and decrementing a timestamp wraps around within Ts.
LEMMA TsArithmetic ==
  ASSUME NEW t \in Ts PROVE TsNext(t) \in Ts /\ TsPrev(t) \in Ts
BY TsModAssumption DEF Ts, TsNext, TsPrev

------------------------------------------------------------------------------
(* Packets and table entries.                                              *)

\* The fields of a packet, and that rewriting a number leaves a packet.
LEMMA PacketFields ==
  ASSUME NEW p \in Packet
  PROVE  /\ p.conn \in Conns /\ p.flags \in SUBSET FlagBits
         /\ p.seq \in Seqs /\ p.ack \in Seqs
         /\ \A n \in Seqs : /\ [p EXCEPT !.ack = n] \in Packet
                            /\ [p EXCEPT !.seq = n] \in Packet
         /\ p # Opaque
BY OpaqueAssumption DEF Packet

\* A new entry is an entry whose list has one element.
LEMMA NewInfoIsInfo ==
  ASSUME NEW m \in Mbufs \cup {Null}
  PROVE  NewInfo(m) \in Info /\ NewInfo(m).pkt_inf_list = <<m>>
BY SeqArithmetic DEF NewInfo, Info

\* What the branches do to an entry leaves an entry.
LEMMA InfoUpdates ==
  ASSUME NEW e \in Info
  PROVE  /\ e.offset \in Seqs
         /\ e.pkt_inf_list \in Seq(Mbufs \cup {Null})
         /\ FinAnsweredInside(e) \in Info
         /\ FinAnsweredInside(e).pkt_inf_list = e.pkt_inf_list
         /\ FinAnsweredOutside(e) \in Info
         /\ FinAnsweredOutside(e).pkt_inf_list = e.pkt_inf_list
         /\ [e EXCEPT !.finseen_to_inside = TRUE] \in Info
         /\ [e EXCEPT !.finseen_to_inside = TRUE].pkt_inf_list = e.pkt_inf_list
         /\ [e EXCEPT !.finseen_to_outside = TRUE] \in Info
         /\ [e EXCEPT !.finseen_to_outside = TRUE].pkt_inf_list = e.pkt_inf_list
         /\ e # NoEntry
         /\ \A m \in Mbufs : /\ Queued(e, m) \in Info
                             /\ Queued(e, m).pkt_inf_list = Append(e.pkt_inf_list, m)
         /\ \A n \in Seqs : /\ Released(e, n) \in Info
                            /\ Released(e, n).pkt_inf_list = <<>>
<1>1. /\ e.offset \in Seqs
      /\ e.pkt_inf_list \in Seq(Mbufs \cup {Null})
      /\ e # NoEntry
  BY NoEntryAssumption DEF Info
<1>2. /\ FinAnsweredInside(e) \in Info
      /\ FinAnsweredInside(e).pkt_inf_list = e.pkt_inf_list
      /\ FinAnsweredOutside(e) \in Info
      /\ FinAnsweredOutside(e).pkt_inf_list = e.pkt_inf_list
  BY DEF Info, FinAnsweredInside, FinAnsweredOutside
<1>3. /\ [e EXCEPT !.finseen_to_inside = TRUE] \in Info
      /\ [e EXCEPT !.finseen_to_inside = TRUE].pkt_inf_list = e.pkt_inf_list
      /\ [e EXCEPT !.finseen_to_outside = TRUE] \in Info
      /\ [e EXCEPT !.finseen_to_outside = TRUE].pkt_inf_list = e.pkt_inf_list
  BY DEF Info
<1>4. ASSUME NEW m \in Mbufs
      PROVE  /\ Queued(e, m) \in Info
             /\ Queued(e, m).pkt_inf_list = Append(e.pkt_inf_list, m)
  <2>1. Append(e.pkt_inf_list, m) \in Seq(Mbufs \cup {Null})
    BY <1>1
  <2>2. QED
    BY <2>1 DEF Info, Queued
<1>5. ASSUME NEW n \in Seqs
      PROVE  /\ Released(e, n) \in Info
             /\ Released(e, n).pkt_inf_list = <<>>
  <2>1. <<>> \in Seq(Mbufs \cup {Null})
    OBVIOUS
  <2>2. QED
    BY <2>1 DEF Info, Released
<1>6. QED
  BY <1>1, <1>2, <1>3, <1>4, <1>5

------------------------------------------------------------------------------
(* The container operations.                                               *)

\* A container that is well formed: what IInv says of each of the two.
WellFormed(k) == k \in Container /\ ClearBeyondTotal(k) /\ Distinct(k)

LEMMA CapacityFacts ==
  /\ Capacity \in Nat /\ BurstSize \in Nat \ {0} /\ Capacity >= 2 * BurstSize
  /\ SlotIndex \subseteq Nat
  /\ \A j \in Nat : j < 2 * BurstSize => j \in SlotIndex
BY CapacityAssumption, BurstAssumption DEF SlotIndex

LEMMA EmptyFacts ==
  /\ WellFormed(EmptyContainer)
  /\ Buffers(EmptyContainer) = {}
  /\ EmptyContainer.polled = 0
  /\ EmptyContainer.total = 0
BY CapacityFacts DEF WellFormed, EmptyContainer, Container, ClearBeyondTotal,
  Distinct, Buffers

\* add_packet appends one buffer to the container and touches nothing else.
LEMMA AddedFacts ==
  ASSUME NEW k, WellFormed(k), k.total < 2 * BurstSize,
         NEW m \in Mbufs, m \notin Buffers(k)
  PROVE  /\ WellFormed(Added(k, m))
         /\ Buffers(Added(k, m)) = Buffers(k) \cup {m}
         /\ Added(k, m).polled = k.polled
         /\ Added(k, m).total = k.total + 1
         /\ Added(k, m).slots[k.total] = m
         /\ \A j \in SlotIndex : j # k.total => Added(k, m).slots[j] = k.slots[j]
<1> DEFINE a == Added(k, m)
<1>1. /\ k.slots \in [SlotIndex -> Mbufs \cup {Null}]
      /\ k.polled \in Nat /\ k.total \in Nat /\ k.total \in SlotIndex
      /\ k \in Container
  BY CapacityFacts DEF WellFormed, Container
<1>2. /\ a \in Container
      /\ a.polled = k.polled /\ a.total = k.total + 1
      /\ a.slots = [k.slots EXCEPT ![k.total] = m]
  <2> DEFINE s == [k.slots EXCEPT ![k.total] = m]
  <2>1. s \in [SlotIndex -> Mbufs \cup {Null}]
    BY <1>1
  <2>2. a = [k EXCEPT !.slots = s, !.total = k.total + 1]
    BY DEF Added
  <2> HIDE DEF s, a
  <2>3. k.total + 1 \in Nat
    BY <1>1
  <2>4. a \in Container /\ a.polled = k.polled /\ a.total = k.total + 1 /\ a.slots = s
    BY <1>1, <2>1, <2>2, <2>3 DEF Container
  <2>5. QED
    BY <2>4 DEF s
<1>3. /\ a.slots[k.total] = m
      /\ \A j \in SlotIndex : j # k.total => a.slots[j] = k.slots[j]
  BY <1>1, <1>2
<1>4. k.slots[k.total] = Null
  BY <1>1, CapacityFacts DEF WellFormed, ClearBeyondTotal
<1>5. Buffers(a) = Buffers(k) \cup {m}
  <2>1. m # Null
    BY NullAssumption
  <2>2. QED
    BY <1>1, <1>3, <1>4, <2>1 DEF Buffers
<1>6. ClearBeyondTotal(a)
  BY <1>1, <1>2, <1>3, CapacityFacts DEF WellFormed, ClearBeyondTotal
<1>7. Distinct(a)
  <2>1. \A j \in SlotIndex : k.slots[j] # m
    BY NullAssumption DEF Buffers
  <2>2. QED
    BY <1>3, <2>1 DEF WellFormed, Distinct
<1>8. QED
  BY <1>2, <1>3, <1>5, <1>6, <1>7 DEF WellFormed

\* take_packet and drop_packet remove exactly the buffer of their slot.
LEMMA VacatedFacts ==
  ASSUME NEW k, WellFormed(k), NEW i \in SlotIndex
  PROVE  /\ WellFormed(Vacated(k, i))
         /\ Buffers(Vacated(k, i)) = Buffers(k) \ {k.slots[i]}
         /\ Vacated(k, i).polled = k.polled
         /\ Vacated(k, i).total = k.total
         /\ \A j \in SlotIndex : j # i => Vacated(k, i).slots[j] = k.slots[j]
<1> DEFINE v == Vacated(k, i)
<1>1. /\ k.slots \in [SlotIndex -> Mbufs \cup {Null}]
      /\ k \in Container
  BY DEF WellFormed, Container
<1>2. /\ v \in Container
      /\ v.polled = k.polled /\ v.total = k.total
      /\ v.slots = [k.slots EXCEPT ![i] = Null]
  BY <1>1 DEF Vacated, Container
<1>3. /\ v.slots[i] = Null
      /\ \A j \in SlotIndex : j # i => v.slots[j] = k.slots[j]
  BY <1>1, <1>2
<1>4. ClearBeyondTotal(v) /\ Distinct(v)
  BY <1>2, <1>3 DEF WellFormed, ClearBeyondTotal, Distinct
<1>5. Buffers(v) = Buffers(k) \ {k.slots[i]}
  BY <1>3 DEF WellFormed, Distinct, Buffers
<1>6. QED
  BY <1>2, <1>3, <1>4, <1>5 DEF WellFormed

------------------------------------------------------------------------------
(* Parts of IInv that one step leaves alone.                               *)

\* The buffers that no connection holds.
Loose == pool \cup Buffers(toInside) \cup Buffers(toOutside)

\* The part of BufferOwnership about the pool and the containers.
LooseOnce ==
  /\ Distinct(toInside) /\ Distinct(toOutside)
  /\ Buffers(toInside) \cap Buffers(toOutside) = {}
  /\ pool \cap (Buffers(toInside) \cup Buffers(toOutside)) = {}

LEMMA ContainersWellFormed ==
  ASSUME IInv
  PROVE  WellFormed(toInside) /\ WellFormed(toOutside) /\ LooseOnce
BY DEF IInv, TypeOK, LoopInv, BufferOwnership, WellFormed, LooseOnce

\* The table entries have types, and so have their lists.
LEMMA HeldTypes ==
  ASSUME TypeOK, NEW c \in Conns, HasEntry(c)
  PROVE  /\ table[c] \in Info
         /\ Held(c) \in Seq(Mbufs \cup {Null})
         /\ Len(Held(c)) \in Nat
         /\ \A i \in 1 .. Len(Held(c)) : Held(c)[i] \in Mbufs \cup {Null}
<1>1. table[c] \in Info
  BY DEF TypeOK, HasEntry
<1>2. Held(c) \in Seq(Mbufs \cup {Null})
  BY <1>1, InfoUpdates DEF Held
<1>3. QED
  BY <1>1, <1>2

\* A step of the table that queues nothing: entries keep their list, start
\* with <<Null>> or disappear.
TableQuiet ==
  \/ table' = table
  \/ \E c \in Conns :
       \/ table' = Insert(c, NewInfo(Null))
       \/ table' = Erase(c)
       \/ /\ HasEntry(c)
          /\ \E e \in Info : /\ e.pkt_inf_list = Held(c)
                             /\ table' = [table EXCEPT ![c] = e]

ListsKept ==
  \A c \in Conns : HasEntry(c)' =>
    \/ HasEntry(c) /\ Held(c)' = Held(c)
    \/ Held(c)' = <<Null>>

LEMMA QuietTable ==
  ASSUME TypeOK, TableQuiet
  PROVE  table' \in [Conns -> Info \cup {NoEntry}] /\ ListsKept
<1>1. table \in [Conns -> Info \cup {NoEntry}]
  BY DEF TypeOK
<1>2. CASE table' = table
  BY <1>1, <1>2 DEF ListsKept, HasEntry, Held
<1>3. ASSUME NEW c \in Conns, table' = Insert(c, NewInfo(Null))
      PROVE  table' \in [Conns -> Info \cup {NoEntry}] /\ ListsKept
  <2>1. NewInfo(Null) \in Info /\ NewInfo(Null).pkt_inf_list = <<Null>>
    BY NewInfoIsInfo
  <2>2. table' = [table EXCEPT ![c] = IF HasEntry(c) THEN table[c] ELSE NewInfo(Null)]
    BY <1>3 DEF Insert
  <2>3. QED
    BY <1>1, <2>1, <2>2 DEF ListsKept, HasEntry, Held
<1>4. ASSUME NEW c \in Conns, table' = Erase(c)
      PROVE  table' \in [Conns -> Info \cup {NoEntry}] /\ ListsKept
  BY <1>1, <1>4 DEF Erase, ListsKept, HasEntry, Held
<1>5. ASSUME NEW c \in Conns, HasEntry(c), NEW e \in Info,
             e.pkt_inf_list = Held(c), table' = [table EXCEPT ![c] = e]
      PROVE  table' \in [Conns -> Info \cup {NoEntry}] /\ ListsKept
  BY <1>1, <1>5 DEF ListsKept, HasEntry, Held
<1>6. QED
  BY <1>2, <1>3, <1>4, <1>5 DEF TableQuiet

\* Held buffers stay owned once and keep a TCP packet when the lists are
\* kept, no buffer becomes loose and no held one is overwritten.
LEMMA HeldKept ==
  ASSUME IInv, TypeOK', ListsKept, Loose' \subseteq Loose,
         \A m \in Mbufs : m \in Loose \/ buf'[m] = buf[m] \/ buf'[m] \in Packet
  PROVE  HeldOnce' /\ HeldNowhereElse' /\ HeldAreTcp'
<1>1. TypeOK /\ HeldOnce /\ HeldNowhereElse /\ HeldAreTcp
  BY DEF IInv, BufferOwnership
<1>2. Null \notin Loose
  BY <1>1, NullAssumption DEF Loose, TypeOK, Buffers
<1>3. ASSUME NEW c \in Conns, HasEntry(c)', NEW i \in (1 .. Len(Held(c)))',
             Held(c)'[i] # Null
      PROVE  HasEntry(c) /\ Held(c)' = Held(c) /\ i \in 1 .. Len(Held(c))
             /\ Held(c)[i] \in Mbufs /\ Held(c)[i] \notin Loose
  <2>1. HasEntry(c) /\ Held(c)' = Held(c)
    BY <1>3 DEF ListsKept
  <2>2. i \in 1 .. Len(Held(c))
    BY <1>3, <2>1
  <2>3. QED
    BY <1>1, <1>3, <2>1, <2>2, HeldTypes DEF HeldNowhereElse, Loose
<1>4. HeldOnce'
  BY <1>1, <1>3 DEF HeldOnce
<1>5. HeldNowhereElse'
  BY <1>2, <1>3 DEF HeldNowhereElse, Loose
<1>6. HeldAreTcp'
  BY <1>1, <1>3 DEF HeldAreTcp
<1>7. QED
  BY <1>4, <1>5, <1>6

------------------------------------------------------------------------------
(* The loop index and the containers, while a burst is treated.            *)

LEMMA InsideContext ==
  ASSUME IInv, pc = "treat_in", Pending(toInside)
  PROVE  /\ WellFormed(toInside) /\ WellFormed(toOutside) /\ LooseOnce
         /\ cursor \in SlotIndex /\ cursor \in Nat /\ cursor < toInside.polled
         /\ toInside.polled \in Nat /\ toInside.total \in Nat /\ toOutside.total \in Nat
         /\ toInside.total < 2 * BurstSize /\ toOutside.total < 2 * BurstSize
         /\ cursor < toInside.total
         /\ Slot(toInside) \in Mbufs /\ Slot(toInside) \in Buffers(toInside)
         /\ Slot(toInside) \notin pool /\ Slot(toInside) \in Loose
         /\ Slot(toInside) \notin Buffers(toOutside)
<1>1. WellFormed(toInside) /\ WellFormed(toOutside) /\ LooseOnce
  BY ContainersWellFormed
<1>2. /\ toInside.polled \in Nat /\ toInside.total \in Nat /\ toOutside.total \in Nat
      /\ toInside.slots \in [SlotIndex -> Mbufs \cup {Null}]
      /\ cursor \in Nat /\ cursor < toInside.polled
  BY <1>1 DEF WellFormed, Container, IInv, TypeOK, Pending
<1>3. Treating(toInside, toOutside)
  BY DEF IInv, LoopInv
<1>4. cursor \in SlotIndex
  BY <1>2, <1>3, CapacityFacts DEF Treating
<1>5. Slot(toInside) \in Mbufs /\ Slot(toInside) \in Buffers(toInside)
  BY <1>2, <1>3, <1>4, NullAssumption DEF Treating, Slot, Buffers
<1>6. QED
  BY <1>1, <1>2, <1>3, <1>4, <1>5, CapacityFacts DEF Treating, LooseOnce, Loose

LEMMA OutsideContext ==
  ASSUME IInv, pc = "treat_out", Pending(toOutside)
  PROVE  /\ WellFormed(toInside) /\ WellFormed(toOutside) /\ LooseOnce
         /\ cursor \in SlotIndex /\ cursor \in Nat /\ cursor < toOutside.polled
         /\ toOutside.polled \in Nat /\ toInside.total \in Nat /\ toOutside.total \in Nat
         /\ toInside.total < 2 * BurstSize
         /\ Slot(toOutside) \in Mbufs /\ Slot(toOutside) \in Buffers(toOutside)
         /\ Slot(toOutside) \notin pool /\ Slot(toOutside) \in Loose
         /\ Slot(toOutside) \notin Buffers(toInside)
<1>1. WellFormed(toInside) /\ WellFormed(toOutside) /\ LooseOnce
  BY ContainersWellFormed
<1>2. /\ toOutside.polled \in Nat /\ toInside.total \in Nat /\ toOutside.total \in Nat
      /\ toOutside.slots \in [SlotIndex -> Mbufs \cup {Null}]
      /\ cursor \in Nat /\ cursor < toOutside.polled
  BY <1>1 DEF WellFormed, Container, IInv, TypeOK, Pending
<1>3. Treating(toOutside, toInside)
  BY DEF IInv, LoopInv
<1>4. cursor \in SlotIndex
  BY <1>2, <1>3, CapacityFacts DEF Treating
<1>5. Slot(toOutside) \in Mbufs /\ Slot(toOutside) \in Buffers(toOutside)
  BY <1>2, <1>3, <1>4, NullAssumption DEF Treating, Slot, Buffers
<1>6. QED
  BY <1>1, <1>2, <1>3, <1>4, <1>5, CapacityFacts DEF Treating, LooseOnce, Loose

\* A container may grow by one packet while another is treated.
Grown(k, l) == l.polled = k.polled /\ l.total \in {k.total, k.total + 1}

LEMMA InsideLoop ==
  ASSUME IInv, pc = "treat_in", Pending(toInside), NextPacket, UNCHANGED pc,
         WellFormed(toInside)', WellFormed(toOutside)',
         Grown(toInside, toInside'), Grown(toOutside, toOutside'),
         \A j \in SlotIndex : cursor < j /\ j < toInside.polled =>
           toInside'.slots[j] = toInside.slots[j]
  PROVE  LoopInv'
<1>1. Treating(toInside, toOutside)
  BY DEF IInv, LoopInv
<1>2. /\ cursor \in Nat /\ cursor < toInside.polled /\ cursor' = cursor + 1
      /\ toInside.polled \in Nat /\ toInside.total \in Nat /\ toOutside.total \in Nat
  BY InsideContext DEF NextPacket
<1>3. Treating(toInside, toOutside)'
  BY <1>1, <1>2, CapacityFacts DEF Treating, Grown
<1>4. QED
  BY <1>3 DEF LoopInv, WellFormed

LEMMA OutsideLoop ==
  ASSUME IInv, pc = "treat_out", Pending(toOutside), NextPacket, UNCHANGED pc,
         WellFormed(toInside)', WellFormed(toOutside)',
         Grown(toInside, toInside'), Grown(toOutside, toOutside'),
         \A j \in SlotIndex : cursor < j /\ j < toOutside.polled =>
           toOutside'.slots[j] = toOutside.slots[j]
  PROVE  LoopInv'
<1>1. Treating(toOutside, toInside)
  BY DEF IInv, LoopInv
<1>2. /\ cursor \in Nat /\ cursor < toOutside.polled /\ cursor' = cursor + 1
      /\ toOutside.polled \in Nat /\ toInside.total \in Nat /\ toOutside.total \in Nat
  BY OutsideContext DEF NextPacket
<1>3. Treating(toOutside, toInside)'
  BY <1>1, <1>2, CapacityFacts DEF Treating, Grown
<1>4. QED
  BY <1>3 DEF LoopInv, WellFormed

------------------------------------------------------------------------------
(* The branches, by what they do to the containers and the lists.          *)

\* The step rewrites buffers in place, if it changes them at all.
BuffersQuiet ==
  /\ buf' \in [Mbufs -> Packet \cup {Opaque}]
  /\ \A m \in Mbufs : buf'[m] = buf[m] \/ buf'[m] \in Packet

\* The packet stays in its slot and the table queues nothing.
LEMMA QuietInside ==
  ASSUME IInv, pc = "treat_in", Pending(toInside), NextPacket, UNCHANGED pc,
         TableQuiet, BuffersQuiet, UNCHANGED <<pool, toInside, toOutside>>
  PROVE  IInv'
<1>1. TypeOK /\ LooseOnce
  BY InsideContext DEF IInv
<1>2. table' \in [Conns -> Info \cup {NoEntry}] /\ ListsKept
  BY <1>1, QuietTable
<1>3. TypeOK'
  BY <1>1, <1>2 DEF TypeOK, NextPacket, BuffersQuiet
<1>4. WellFormed(toInside)' /\ WellFormed(toOutside)' /\ LooseOnce'
  BY InsideContext DEF WellFormed, ClearBeyondTotal, Distinct, LooseOnce, Buffers
<1>5. LoopInv'
  <2>1. Grown(toInside, toInside') /\ Grown(toOutside, toOutside')
    BY DEF Grown
  <2>2. QED
    BY <1>4, <2>1, InsideLoop
<1>6. HeldOnce' /\ HeldNowhereElse' /\ HeldAreTcp'
  BY <1>2, <1>3, HeldKept DEF Loose, Buffers, BuffersQuiet
<1>7. QED
  BY <1>3, <1>4, <1>5, <1>6 DEF IInv, BufferOwnership, LooseOnce

LEMMA QuietOutside ==
  ASSUME IInv, pc = "treat_out", Pending(toOutside), NextPacket, UNCHANGED pc,
         TableQuiet, BuffersQuiet, UNCHANGED <<pool, toInside, toOutside>>
  PROVE  IInv'
<1>1. TypeOK /\ LooseOnce
  BY OutsideContext DEF IInv
<1>2. table' \in [Conns -> Info \cup {NoEntry}] /\ ListsKept
  BY <1>1, QuietTable
<1>3. TypeOK'
  BY <1>1, <1>2 DEF TypeOK, NextPacket, BuffersQuiet
<1>4. WellFormed(toInside)' /\ WellFormed(toOutside)' /\ LooseOnce'
  BY OutsideContext DEF WellFormed, ClearBeyondTotal, Distinct, LooseOnce, Buffers
<1>5. LoopInv'
  <2>1. Grown(toInside, toInside') /\ Grown(toOutside, toOutside')
    BY DEF Grown
  <2>2. QED
    BY <1>4, <2>1, OutsideLoop
<1>6. HeldOnce' /\ HeldNowhereElse' /\ HeldAreTcp'
  BY <1>2, <1>3, HeldKept DEF Loose, Buffers, BuffersQuiet
<1>7. QED
  BY <1>3, <1>4, <1>5, <1>6 DEF IInv, BufferOwnership, LooseOnce

\* The packet is dropped.
LEMMA DroppedInside ==
  ASSUME IInv, pc = "treat_in", Pending(toInside), NextPacket, UNCHANGED <<pc, table>>,
         DropInside
  PROVE  IInv'
<1> DEFINE s == Slot(toInside)
<1>1. /\ TypeOK /\ LooseOnce /\ s \in Mbufs /\ cursor \in SlotIndex
      /\ s \in Buffers(toInside) /\ s \notin Buffers(toOutside)
  BY InsideContext DEF IInv
<1>2. /\ WellFormed(toInside)' /\ Buffers(toInside)' = Buffers(toInside) \ {s}
      /\ Grown(toInside, toInside')
      /\ \A j \in SlotIndex : j # cursor => toInside'.slots[j] = toInside.slots[j]
  <2>1. toInside' = Vacated(toInside, cursor) /\ WellFormed(toInside)
    BY InsideContext DEF DropInside
  <2>2. WellFormed(toInside') /\ Buffers(toInside') = Buffers(toInside) \ {s}
    BY <1>1, <2>1, VacatedFacts DEF Slot
  <2>3. Grown(toInside, toInside')
    BY <1>1, <2>1, VacatedFacts DEF Grown
  <2>4. \A j \in SlotIndex : j # cursor => toInside'.slots[j] = toInside.slots[j]
    BY <1>1, <2>1, VacatedFacts
  <2>5. QED
    BY <2>2, <2>3, <2>4 DEF WellFormed, ClearBeyondTotal, Distinct, Buffers
<1>3. /\ WellFormed(toOutside)' /\ Buffers(toOutside)' = Buffers(toOutside)
      /\ Grown(toOutside, toOutside')
  BY InsideContext
    DEF DropInside, Grown, WellFormed, ClearBeyondTotal, Distinct, Buffers
<1>4. pool' = pool \cup {s} /\ buf' = [buf EXCEPT ![s] = Opaque]
  BY DEF DropInside
<1>5. TypeOK'
  BY <1>1, <1>2, <1>3, <1>4 DEF TypeOK, NextPacket, WellFormed
<1>6. LooseOnce' /\ Loose' \subseteq Loose
  BY <1>1, <1>2, <1>3, <1>4 DEF LooseOnce, Loose, WellFormed
<1>7. LoopInv'
  BY <1>1, <1>2, <1>3, InsideLoop DEF TypeOK
<1>8. HeldOnce' /\ HeldNowhereElse' /\ HeldAreTcp'
  <2>1. ListsKept
    BY DEF ListsKept, HasEntry, Held
  <2>2. \A m \in Mbufs : m \in Loose \/ buf'[m] = buf[m]
    BY <1>1, <1>4 DEF TypeOK, Loose
  <2>3. QED
    BY <1>5, <1>6, <2>1, <2>2, HeldKept
<1>9. QED
  BY <1>5, <1>6, <1>7, <1>8 DEF IInv, BufferOwnership, LooseOnce

LEMMA DroppedOutside ==
  ASSUME IInv, pc = "treat_out", Pending(toOutside), NextPacket, UNCHANGED <<pc, table>>,
         DropOutside
  PROVE  IInv'
<1> DEFINE s == Slot(toOutside)
<1>1. /\ TypeOK /\ LooseOnce /\ s \in Mbufs /\ cursor \in SlotIndex
      /\ s \in Buffers(toOutside) /\ s \notin Buffers(toInside)
  BY OutsideContext DEF IInv
<1>2. /\ WellFormed(toOutside)' /\ Buffers(toOutside)' = Buffers(toOutside) \ {s}
      /\ Grown(toOutside, toOutside')
      /\ \A j \in SlotIndex : j # cursor => toOutside'.slots[j] = toOutside.slots[j]
  <2>1. toOutside' = Vacated(toOutside, cursor) /\ WellFormed(toOutside)
    BY OutsideContext DEF DropOutside
  <2>2. WellFormed(toOutside') /\ Buffers(toOutside') = Buffers(toOutside) \ {s}
    BY <1>1, <2>1, VacatedFacts DEF Slot
  <2>3. Grown(toOutside, toOutside')
    BY <1>1, <2>1, VacatedFacts DEF Grown
  <2>4. \A j \in SlotIndex : j # cursor => toOutside'.slots[j] = toOutside.slots[j]
    BY <1>1, <2>1, VacatedFacts
  <2>5. QED
    BY <2>2, <2>3, <2>4 DEF WellFormed, ClearBeyondTotal, Distinct, Buffers
<1>3. /\ WellFormed(toInside)' /\ Buffers(toInside)' = Buffers(toInside)
      /\ Grown(toInside, toInside')
  BY OutsideContext
    DEF DropOutside, Grown, WellFormed, ClearBeyondTotal, Distinct, Buffers
<1>4. pool' = pool \cup {s} /\ buf' = [buf EXCEPT ![s] = Opaque]
  BY DEF DropOutside
<1>5. TypeOK'
  BY <1>1, <1>2, <1>3, <1>4 DEF TypeOK, NextPacket, WellFormed
<1>6. LooseOnce' /\ Loose' \subseteq Loose
  BY <1>1, <1>2, <1>3, <1>4 DEF LooseOnce, Loose, WellFormed
<1>7. LoopInv'
  BY <1>1, <1>2, <1>3, OutsideLoop DEF TypeOK
<1>8. HeldOnce' /\ HeldNowhereElse' /\ HeldAreTcp'
  <2>1. ListsKept
    BY DEF ListsKept, HasEntry, Held
  <2>2. \A m \in Mbufs : m \in Loose \/ buf'[m] = buf[m]
    BY <1>1, <1>4 DEF TypeOK, Loose
  <2>3. QED
    BY <1>5, <1>6, <2>1, <2>2, HeldKept
<1>9. QED
  BY <1>5, <1>6, <1>7, <1>8 DEF IInv, BufferOwnership, LooseOnce

\* The content of the packet under treatment.
LEMMA TcpInside ==
  ASSUME IInv, pc = "treat_in", Tcp(toInside)
  PROVE  Current(toInside) \in Packet /\ Current(toInside).conn \in Conns
<1>1. Slot(toInside) \in Mbufs
  BY InsideContext DEF Tcp
<1>2. QED
  BY <1>1, PacketFields DEF IInv, TypeOK, Tcp, Current

LEMMA TcpOutside ==
  ASSUME IInv, pc = "treat_out", Tcp(toOutside)
  PROVE  Current(toOutside) \in Packet /\ Current(toOutside).conn \in Conns
<1>1. Slot(toOutside) \in Mbufs
  BY OutsideContext DEF Tcp
<1>2. QED
  BY <1>1, PacketFields DEF IInv, TypeOK, Tcp, Current

\* Rewriting a number of the packet is quiet.
LEMMA RewriteAckQuiet ==
  ASSUME IInv, pc = "treat_in", Tcp(toInside), Known(toInside), RewriteAck
  PROVE  BuffersQuiet /\ UNCHANGED <<pool, toInside, toOutside>>
<1>1. Current(toInside) \in Packet /\ Slot(toInside) \in Mbufs
      /\ Current(toInside).conn \in Conns
  BY TcpInside, InsideContext DEF Tcp
<1>2. Entry(toInside) \in Info
  BY <1>1, HeldTypes DEF IInv, Entry, Known
<1>3. SeqSub(Current(toInside).ack, Entry(toInside).offset) \in Seqs
  BY <1>1, <1>2, SeqArithmetic, PacketFields, InfoUpdates
<1>4. \E p \in Packet : buf' = [buf EXCEPT ![Slot(toInside)] = p]
  BY <1>1, <1>3, PacketFields DEF RewriteAck, Rewrite
<1>5. QED
  BY <1>1, <1>4 DEF RewriteAck, Rewrite, BuffersQuiet, IInv, TypeOK

LEMMA RewriteSeqQuiet ==
  ASSUME IInv, pc = "treat_out", Tcp(toOutside), Known(toOutside), RewriteSeq
  PROVE  BuffersQuiet /\ UNCHANGED <<pool, toInside, toOutside>>
<1>1. Current(toOutside) \in Packet /\ Slot(toOutside) \in Mbufs
      /\ Current(toOutside).conn \in Conns
  BY TcpOutside, OutsideContext DEF Tcp
<1>2. Entry(toOutside) \in Info
  BY <1>1, HeldTypes DEF IInv, Entry, Known
<1>3. SeqAdd(Current(toOutside).seq, Entry(toOutside).offset) \in Seqs
  BY <1>1, <1>2, SeqArithmetic, PacketFields, InfoUpdates
<1>4. \E p \in Packet : buf' = [buf EXCEPT ![Slot(toOutside)] = p]
  BY <1>1, <1>3, PacketFields DEF RewriteSeq, Rewrite
<1>5. QED
  BY <1>1, <1>4 DEF RewriteSeq, Rewrite, BuffersQuiet, IInv, TypeOK

\* Leaving the packet in place is quiet.
LEMMA LeaveInPlaceQuiet ==
  ASSUME TypeOK, LeaveInPlace
  PROVE  BuffersQuiet /\ UNCHANGED <<pool, toInside, toOutside>>
BY DEF LeaveInPlace, BuffersQuiet, TypeOK

------------------------------------------------------------------------------
(* The branches that take a buffer from the pool, hold one or release one. *)

\* A container to which a packet is added while slot i is vacated.
LEMMA AddedThenVacated ==
  ASSUME NEW k, WellFormed(k), k.total < 2 * BurstSize,
         NEW m \in Mbufs, m \notin Buffers(k), NEW i \in SlotIndex, i # k.total
  PROVE  /\ WellFormed(Vacated(Added(k, m), i))
         /\ Buffers(Vacated(Added(k, m), i)) = (Buffers(k) \cup {m}) \ {k.slots[i]}
         /\ Grown(k, Vacated(Added(k, m), i))
         /\ \A j \in SlotIndex : j # i /\ j # k.total =>
              Vacated(Added(k, m), i).slots[j] = k.slots[j]
<1>1. /\ WellFormed(Added(k, m))
      /\ Buffers(Added(k, m)) = Buffers(k) \cup {m}
      /\ Added(k, m).polled = k.polled /\ Added(k, m).total = k.total + 1
      /\ \A j \in SlotIndex : j # k.total => Added(k, m).slots[j] = k.slots[j]
  BY AddedFacts
<1>2. QED
  BY <1>1, VacatedFacts DEF Grown

\* A SYN from outside: one buffer leaves the pool for the container to the
\* outside, the buffer of the SYN takes its place.
LEMMA InSynPreserves ==
  ASSUME IInv, pc = "treat_in", InSyn, UNCHANGED pc
  PROVE  IInv'
<1> DEFINE s == Slot(toInside)
           p == Current(toInside)
<1>1. PICK m \in pool :
        /\ buf' = [buf EXCEPT
             ![m] = [conn |-> p.conn, flags |-> {"SYN", "ACK"},
                     seq |-> Cookie(p.conn, ts), ack |-> SeqAdd(p.seq, 1)],
             ![s] = Opaque]
        /\ pool' = (pool \ {m}) \cup {s}
        /\ toOutside' = Added(toOutside, m)
        /\ toInside' = Vacated(toInside, cursor)
  BY DEF InSyn
<1>2. Pending(toInside) /\ NextPacket /\ UNCHANGED table /\ Tcp(toInside)
  BY DEF InSyn, Tcp
<1>3. /\ TypeOK /\ LooseOnce /\ s \in Mbufs /\ cursor \in SlotIndex /\ cursor \in Nat
      /\ s \in Buffers(toInside) /\ s \notin Buffers(toOutside) /\ s \notin pool
      /\ m \in Mbufs /\ m \notin Buffers(toOutside) /\ m \notin Buffers(toInside)
      /\ WellFormed(toInside) /\ WellFormed(toOutside)
      /\ toOutside.total < 2 * BurstSize
  BY <1>2, InsideContext DEF IInv, TypeOK, LooseOnce
<1>4. [conn |-> p.conn, flags |-> {"SYN", "ACK"},
       seq |-> Cookie(p.conn, ts), ack |-> SeqAdd(p.seq, 1)] \in Packet
  <2>1. p \in Packet
    BY <1>2, TcpInside
  <2>2. Cookie(p.conn, ts) \in Seqs
    BY <1>3, <2>1, PacketFields, CookieIsSeq DEF Cookie, TypeOK
  <2>3. SeqAdd(p.seq, 1) \in Seqs
    <3>1. p.seq \in Int
      BY <2>1, PacketFields, SeqArithmetic
    <3>2. QED
      BY <3>1, SeqArithmetic
  <2>4. QED
    BY <2>1, <2>2, <2>3, PacketFields DEF Packet, FlagBits
<1>5. /\ WellFormed(toInside') /\ Buffers(toInside') = Buffers(toInside) \ {s}
      /\ Grown(toInside, toInside')
      /\ \A j \in SlotIndex : j # cursor => toInside'.slots[j] = toInside.slots[j]
  BY <1>1, <1>3, VacatedFacts DEF Slot, Grown
<1>6. /\ WellFormed(toOutside') /\ Buffers(toOutside') = Buffers(toOutside) \cup {m}
      /\ Grown(toOutside, toOutside')
  BY <1>1, <1>3, AddedFacts DEF Grown
<1>7. TypeOK'
  <2>1. buf' \in [Mbufs -> Packet \cup {Opaque}]
    BY <1>1, <1>3, <1>4 DEF TypeOK
  <2>2. pool' \subseteq Mbufs /\ cursor' \in Nat
    BY <1>1, <1>2, <1>3 DEF TypeOK, NextPacket
  <2>3. QED
    BY <1>2, <1>3, <1>5, <1>6, <2>1, <2>2 DEF TypeOK, NextPacket, WellFormed
<1>8. LooseOnce' /\ Loose' \subseteq Loose
  <2>1. Distinct(toInside') /\ Distinct(toOutside')
    BY <1>5, <1>6 DEF WellFormed
  <2>2. /\ Buffers(toInside') \cap Buffers(toOutside') = {}
        /\ pool' \cap (Buffers(toInside') \cup Buffers(toOutside')) = {}
        /\ pool' \cup Buffers(toInside') \cup Buffers(toOutside')
             \subseteq pool \cup Buffers(toInside) \cup Buffers(toOutside)
    BY <1>1, <1>3, <1>5, <1>6 DEF LooseOnce
  <2>3. QED
    BY <2>1, <2>2 DEF LooseOnce, Loose, Distinct, Buffers
<1>9. LoopInv'
  BY <1>2, <1>3, <1>5, <1>6, InsideLoop DEF WellFormed, ClearBeyondTotal, Distinct
<1>10. HeldOnce' /\ HeldNowhereElse' /\ HeldAreTcp'
  <2>1. ListsKept
    BY <1>2 DEF ListsKept, HasEntry, Held
  <2>2. \A n \in Mbufs : n \in Loose \/ buf'[n] = buf[n]
    BY <1>1, <1>3 DEF TypeOK, Loose
  <2>3. QED
    BY <1>7, <1>8, <2>1, <2>2, HeldKept
<1>11. QED
  BY <1>7, <1>8, <1>9, <1>10 DEF IInv, BufferOwnership, LooseOnce

\* A refused ACK: the RST takes a buffer and a slot of the same container.
LEMMA InAckRefusedPreserves ==
  ASSUME IInv, pc = "treat_in", InAckRefused, UNCHANGED pc
  PROVE  IInv'
<1> DEFINE s == Slot(toInside)
           p == Current(toInside)
<1>1. PICK m \in pool :
        /\ buf' = [buf EXCEPT
             ![m] = [conn |-> p.conn, flags |-> {"RST"}, seq |-> p.ack, ack |-> 0],
             ![s] = Opaque]
        /\ pool' = (pool \ {m}) \cup {s}
        /\ toInside' = Vacated(Added(toInside, m), cursor)
  BY DEF InAckRefused
<1>2. Pending(toInside) /\ NextPacket /\ UNCHANGED <<table, toOutside>> /\ Tcp(toInside)
  BY DEF InAckRefused, Tcp
<1>3. /\ TypeOK /\ LooseOnce /\ s \in Mbufs /\ cursor \in SlotIndex /\ cursor \in Nat
      /\ s \in Buffers(toInside) /\ s \notin Buffers(toOutside) /\ s \notin pool
      /\ m \in Mbufs /\ m \notin Buffers(toOutside) /\ m \notin Buffers(toInside)
      /\ WellFormed(toInside) /\ WellFormed(toOutside)
      /\ toInside.total < 2 * BurstSize /\ cursor # toInside.total
  BY <1>2, InsideContext DEF IInv, TypeOK, LooseOnce
<1>4. [conn |-> p.conn, flags |-> {"RST"}, seq |-> p.ack, ack |-> 0] \in Packet
  BY <1>2, TcpInside, PacketFields, SeqArithmetic DEF Packet, FlagBits
<1>5. /\ WellFormed(toInside')
      /\ Buffers(toInside') = (Buffers(toInside) \cup {m}) \ {s}
      /\ Grown(toInside, toInside')
      /\ \A j \in SlotIndex : j # cursor /\ j # toInside.total =>
           toInside'.slots[j] = toInside.slots[j]
  BY <1>1, <1>3, AddedThenVacated DEF Slot
<1>6. /\ WellFormed(toOutside') /\ Buffers(toOutside') = Buffers(toOutside)
      /\ Grown(toOutside, toOutside')
  BY <1>2, <1>3 DEF Grown
<1>7. TypeOK'
  <2>1. buf' \in [Mbufs -> Packet \cup {Opaque}]
    BY <1>1, <1>3, <1>4 DEF TypeOK
  <2>2. pool' \subseteq Mbufs /\ cursor' \in Nat
    BY <1>1, <1>2, <1>3 DEF TypeOK, NextPacket
  <2>3. QED
    BY <1>2, <1>3, <1>5, <1>6, <2>1, <2>2 DEF TypeOK, NextPacket, WellFormed
<1>8. LooseOnce' /\ Loose' \subseteq Loose
  <2>1. Distinct(toInside') /\ Distinct(toOutside')
    BY <1>5, <1>6 DEF WellFormed
  <2>2. /\ Buffers(toInside') \cap Buffers(toOutside') = {}
        /\ pool' \cap (Buffers(toInside') \cup Buffers(toOutside')) = {}
        /\ pool' \cup Buffers(toInside') \cup Buffers(toOutside')
             \subseteq pool \cup Buffers(toInside) \cup Buffers(toOutside)
    BY <1>1, <1>3, <1>5, <1>6 DEF LooseOnce
  <2>3. QED
    BY <2>1, <2>2 DEF LooseOnce, Loose, Distinct, Buffers
<1>9. LoopInv'
  <2>1. \A j \in SlotIndex : cursor < j /\ j < toInside.polled =>
          toInside'.slots[j] = toInside.slots[j]
    <3>1. toInside.polled <= toInside.total
      BY DEF IInv, LoopInv, Treating
    <3>2. QED
      BY <1>2, <1>3, <1>5, <3>1, InsideContext, CapacityFacts
  <2>2. QED
    BY <1>2, <1>5, <1>6, <2>1, InsideLoop DEF WellFormed, ClearBeyondTotal, Distinct
<1>10. HeldOnce' /\ HeldNowhereElse' /\ HeldAreTcp'
  <2>1. ListsKept
    BY <1>2 DEF ListsKept, HasEntry, Held
  <2>2. \A n \in Mbufs : n \in Loose \/ buf'[n] = buf[n]
    BY <1>1, <1>3 DEF TypeOK, Loose
  <2>3. QED
    BY <1>7, <1>8, <2>1, <2>2, HeldKept
<1>11. QED
  BY <1>7, <1>8, <1>9, <1>10 DEF IInv, BufferOwnership, LooseOnce

\* A loose buffer s becomes the last one held for connection c.
LEMMA HeldGrows ==
  ASSUME IInv, TypeOK', NEW c \in Conns, HasEntry(c)',
         NEW s \in Mbufs, s \in Loose, s \notin Loose', Loose' \subseteq Loose,
         \/ Held(c)' = <<s>>
         \/ HasEntry(c) /\ Held(c)' = Append(Held(c), s),
         \A d \in Conns \ {c} : HasEntry(d)' => HasEntry(d) /\ Held(d)' = Held(d),
         buf'[s] \in Packet,
         \A m \in Mbufs : m \in Loose \/ buf'[m] = buf[m]
  PROVE  HeldOnce' /\ HeldNowhereElse' /\ HeldAreTcp'
<1>1. TypeOK /\ HeldOnce /\ HeldNowhereElse /\ HeldAreTcp
  BY DEF IInv, BufferOwnership
<1>2. Null \notin Loose
  BY <1>1, NullAssumption DEF Loose, TypeOK, Buffers
<1> DEFINE New(d, i) == d = c /\ i = Len(Held(c)') /\ Held(d)'[i] = s
           Kept(d, i) == /\ HasEntry(d) /\ i \in 1 .. Len(Held(d))
                         /\ Held(d)'[i] = Held(d)[i]
                         /\ Held(d)[i] \in Mbufs \cup {Null} /\ Held(d)[i] \notin Loose
<1>3. ASSUME NEW d \in Conns, HasEntry(d)', NEW i \in (1 .. Len(Held(d)))'
      PROVE  New(d, i) \/ Kept(d, i)
  <2>1. CASE d # c
    <3>1. HasEntry(d) /\ Held(d)' = Held(d) /\ i \in 1 .. Len(Held(d))
      BY <1>3, <2>1
    <3>2. QED
      BY <1>1, <3>1, HeldTypes DEF HeldNowhereElse, Loose
  <2>2. CASE d = c /\ Held(c)' = <<s>>
    BY <1>3, <2>2
  <2>3. CASE d = c /\ HasEntry(c) /\ Held(c)' = Append(Held(c), s)
    <3>1. Held(c) \in Seq(Mbufs \cup {Null}) /\ Len(Held(c)) \in Nat
      BY <1>1, <2>3, HeldTypes
    <3>2. CASE i = Len(Held(c)) + 1
      BY <2>3, <3>1, <3>2
    <3>3. CASE i \in 1 .. Len(Held(c))
      BY <1>1, <2>3, <3>1, <3>3, HeldTypes DEF HeldNowhereElse, Loose
    <3>4. QED
      BY <1>3, <2>3, <3>1, <3>2, <3>3
  <2>4. QED
    BY <2>1, <2>2, <2>3
<1>4. HeldOnce'
  <2> SUFFICES ASSUME NEW d \in Conns, NEW e \in Conns, HasEntry(d)', HasEntry(e)',
                      NEW i \in (1 .. Len(Held(d)))', NEW j \in (1 .. Len(Held(e)))',
                      Held(d)'[i] # Null, Held(d)'[i] = Held(e)'[j]
               PROVE  d = e /\ i = j
    BY DEF HeldOnce
  <2>1. (New(d, i) \/ Kept(d, i)) /\ (New(e, j) \/ Kept(e, j))
    BY <1>3
  <2>2. QED
    BY <1>1, <2>1 DEF HeldOnce
<1>5. HeldNowhereElse'
  <2>1. ASSUME NEW d \in Conns, HasEntry(d)', NEW i \in (1 .. Len(Held(d)))'
        PROVE  Held(d)'[i] \notin Loose'
    BY <1>2, <1>3, <2>1
  <2>2. QED
    BY <2>1 DEF HeldNowhereElse, Loose
<1>6. HeldAreTcp'
  <2>1. ASSUME NEW d \in Conns, HasEntry(d)', NEW i \in (1 .. Len(Held(d)))',
               Held(d)'[i] # Null
        PROVE  buf'[Held(d)'[i]] \in Packet
    BY <1>1, <1>3, <2>1 DEF HeldAreTcp
  <2>2. QED
    BY <2>1 DEF HeldAreTcp
<1>7. QED
  BY <1>4, <1>5, <1>6

\* A good cookie: the ACK is held, a SYN takes a buffer and a slot.
LEMMA InAckLegitPreserves ==
  ASSUME IInv, pc = "treat_in", InAckLegit, UNCHANGED pc
  PROVE  IInv'
<1> DEFINE s == Slot(toInside)
           p == Current(toInside)
<1>1. PICK m \in pool :
        /\ buf' = [buf EXCEPT ![m] =
             [conn |-> p.conn, flags |-> {"SYN"},
              seq |-> SeqSub(p.seq, 1), ack |-> 123 % SeqMod]]
        /\ pool' = pool \ {m}
        /\ toInside' = Vacated(Added(toInside, m), cursor)
        /\ table' = Insert(p.conn, NewInfo(s))
  BY DEF InAckLegit
<1>2. Pending(toInside) /\ NextPacket /\ UNCHANGED toOutside /\ Tcp(toInside)
      /\ ~HasEntry(p.conn)
  BY DEF InAckLegit, Tcp, Known
<1>3. /\ TypeOK /\ LooseOnce /\ s \in Mbufs /\ cursor \in SlotIndex /\ cursor \in Nat
      /\ s \in Buffers(toInside) /\ s \notin Buffers(toOutside) /\ s \notin pool
      /\ m \in Mbufs /\ m \notin Buffers(toOutside) /\ m \notin Buffers(toInside)
      /\ WellFormed(toInside) /\ WellFormed(toOutside)
      /\ toInside.total < 2 * BurstSize /\ cursor # toInside.total
  BY <1>2, InsideContext DEF IInv, TypeOK, LooseOnce
<1>4. p \in Packet /\ p.conn \in Conns
  BY <1>2, TcpInside
<1>5. [conn |-> p.conn, flags |-> {"SYN"},
       seq |-> SeqSub(p.seq, 1), ack |-> 123 % SeqMod] \in Packet
  <2>1. p.seq \in Int
    BY <1>4, PacketFields, SeqArithmetic
  <2>2. SeqSub(p.seq, 1) \in Seqs /\ 123 % SeqMod \in Seqs
    BY <2>1, SeqArithmetic
  <2>3. QED
    BY <1>4, <2>2 DEF Packet, FlagBits
<1>6. /\ WellFormed(toInside')
      /\ Buffers(toInside') = (Buffers(toInside) \cup {m}) \ {s}
      /\ Grown(toInside, toInside')
      /\ \A j \in SlotIndex : j # cursor /\ j # toInside.total =>
           toInside'.slots[j] = toInside.slots[j]
  BY <1>1, <1>3, AddedThenVacated DEF Slot
<1>7. /\ WellFormed(toOutside') /\ Buffers(toOutside') = Buffers(toOutside)
      /\ Grown(toOutside, toOutside')
  BY <1>2, <1>3 DEF Grown
<1>8. /\ table' = [table EXCEPT ![p.conn] = NewInfo(s)]
      /\ NewInfo(s) \in Info /\ NewInfo(s).pkt_inf_list = <<s>>
  BY <1>1, <1>2, <1>3, NewInfoIsInfo DEF Insert
<1>9. TypeOK'
  <2>1. buf' \in [Mbufs -> Packet \cup {Opaque}]
    BY <1>1, <1>3, <1>5 DEF TypeOK
  <2>2. pool' \subseteq Mbufs /\ cursor' \in Nat
    BY <1>1, <1>2, <1>3 DEF TypeOK, NextPacket
  <2>3. table' \in [Conns -> Info \cup {NoEntry}]
    BY <1>3, <1>4, <1>8 DEF TypeOK
  <2>4. QED
    BY <1>2, <1>3, <1>6, <1>7, <2>1, <2>2, <2>3 DEF TypeOK, NextPacket, WellFormed
<1>10. LooseOnce' /\ Loose' \subseteq Loose /\ s \in Loose /\ s \notin Loose'
  <2>1. Distinct(toInside') /\ Distinct(toOutside')
    BY <1>6, <1>7 DEF WellFormed
  <2>2. /\ Buffers(toInside') \cap Buffers(toOutside') = {}
        /\ pool' \cap (Buffers(toInside') \cup Buffers(toOutside')) = {}
        /\ pool' \cup Buffers(toInside') \cup Buffers(toOutside')
             \subseteq pool \cup Buffers(toInside) \cup Buffers(toOutside)
        /\ s \in pool \cup Buffers(toInside) \cup Buffers(toOutside)
        /\ s \notin pool' \cup Buffers(toInside') \cup Buffers(toOutside')
    BY <1>1, <1>3, <1>6, <1>7 DEF LooseOnce
  <2>3. QED
    BY <2>1, <2>2 DEF LooseOnce, Loose, Distinct, Buffers
<1>11. LoopInv'
  <2>1. \A j \in SlotIndex : cursor < j /\ j < toInside.polled =>
          toInside'.slots[j] = toInside.slots[j]
    <3>1. toInside.polled <= toInside.total
      BY DEF IInv, LoopInv, Treating
    <3>2. QED
      BY <1>2, <1>3, <1>6, <3>1, InsideContext, CapacityFacts
  <2>2. QED
    BY <1>2, <1>6, <1>7, <2>1, InsideLoop DEF WellFormed, ClearBeyondTotal, Distinct
<1>12. HeldOnce' /\ HeldNowhereElse' /\ HeldAreTcp'
  <2>0. PICK c \in Conns, h \in Mbufs : c = p.conn /\ h = s
    BY <1>3, <1>4
  <2>1. HasEntry(c)' /\ Held(c)' = <<h>>
    BY <1>3, <1>8, <2>0, NoEntryAssumption DEF HasEntry, Held, TypeOK
  <2>2. \A d \in Conns \ {c} : HasEntry(d)' => HasEntry(d) /\ Held(d)' = Held(d)
    BY <1>3, <1>8, <2>0 DEF HasEntry, Held, TypeOK
  <2>3. buf'[h] \in Packet
    BY <1>1, <1>3, <1>4, <2>0 DEF TypeOK, Current
  <2>4. \A n \in Mbufs : n \in Loose \/ buf'[n] = buf[n]
    BY <1>1, <1>3 DEF TypeOK, Loose
  <2>5. h \in Loose /\ h \notin Loose' /\ Loose' \subseteq Loose
    BY <1>10, <2>0
  <2>6. QED
    BY <1>9, <2>1, <2>2, <2>3, <2>4, <2>5, HeldGrows
<1>13. QED
  BY <1>9, <1>10, <1>11, <1>12 DEF IInv, BufferOwnership, LooseOnce

\* An early ACK leaves its slot for the list of its connection.
LEMMA InAckEarlyPreserves ==
  ASSUME IInv, pc = "treat_in", InAckEarly, UNCHANGED pc
  PROVE  IInv'
<1>0. Pending(toInside) /\ Tcp(toInside)
  BY DEF InAckEarly, Tcp
<1>a. PICK c \in Conns, s \in Mbufs : c = Current(toInside).conn /\ s = Slot(toInside)
  BY <1>0, TcpInside, InsideContext
<1> DEFINE e == Queued(table[c], s)
<1>1. /\ Pending(toInside) /\ NextPacket /\ Tcp(toInside)
      /\ UNCHANGED <<buf, pool, toOutside>>
      /\ toInside' = Vacated(toInside, cursor)
      /\ table' = [table EXCEPT ![c] = e]
      /\ HasEntry(c)
  BY <1>0, <1>a DEF InAckEarly, Known
<1>2. /\ TypeOK /\ LooseOnce /\ s \in Mbufs /\ cursor \in SlotIndex /\ cursor \in Nat
      /\ s \in Buffers(toInside) /\ s \notin Buffers(toOutside) /\ s \notin pool
      /\ WellFormed(toInside) /\ WellFormed(toOutside)
  BY <1>1, <1>a, InsideContext DEF IInv
<1>3. Current(toInside) \in Packet /\ c \in Conns
  BY <1>1, TcpInside
<1>4. e \in Info /\ e.pkt_inf_list = Append(Held(c), s)
  <2>1. table[c] \in Info /\ Held(c) \in Seq(Mbufs \cup {Null})
    BY <1>1, <1>2, HeldTypes
  <2>2. QED
    BY <2>1, InfoUpdates DEF Held
<1>5. /\ WellFormed(toInside') /\ Buffers(toInside') = Buffers(toInside) \ {s}
      /\ Grown(toInside, toInside')
      /\ \A j \in SlotIndex : j # cursor => toInside'.slots[j] = toInside.slots[j]
  BY <1>1, <1>2, <1>a, VacatedFacts DEF Slot, Grown
<1>6. /\ WellFormed(toOutside') /\ Buffers(toOutside') = Buffers(toOutside)
      /\ Grown(toOutside, toOutside')
  BY <1>1, <1>2 DEF Grown
<1>7. TypeOK'
  <2>1. table' \in [Conns -> Info \cup {NoEntry}]
    BY <1>1, <1>2, <1>3, <1>4 DEF TypeOK
  <2>2. QED
    BY <1>1, <1>2, <1>5, <1>6, <2>1 DEF TypeOK, NextPacket, WellFormed
<1>8. LooseOnce' /\ Loose' \subseteq Loose /\ s \in Loose /\ s \notin Loose'
  <2>1. Distinct(toInside') /\ Distinct(toOutside')
    BY <1>5, <1>6 DEF WellFormed
  <2>2. /\ Buffers(toInside') \cap Buffers(toOutside') = {}
        /\ pool' \cap (Buffers(toInside') \cup Buffers(toOutside')) = {}
        /\ pool' \cup Buffers(toInside') \cup Buffers(toOutside')
             \subseteq pool \cup Buffers(toInside) \cup Buffers(toOutside)
        /\ s \in pool \cup Buffers(toInside) \cup Buffers(toOutside)
        /\ s \notin pool' \cup Buffers(toInside') \cup Buffers(toOutside')
    BY <1>1, <1>2, <1>5, <1>6 DEF LooseOnce
  <2>3. QED
    BY <2>1, <2>2 DEF LooseOnce, Loose, Distinct, Buffers
<1>9. LoopInv'
  BY <1>1, <1>2, <1>5, <1>6, InsideLoop DEF WellFormed, ClearBeyondTotal, Distinct
<1>10. HeldOnce' /\ HeldNowhereElse' /\ HeldAreTcp'
  <2>1. HasEntry(c)' /\ Held(c)' = Append(Held(c), s)
    BY <1>1, <1>2, <1>3, <1>4, NoEntryAssumption DEF HasEntry, Held, TypeOK
  <2>2. \A d \in Conns \ {c} : HasEntry(d)' => HasEntry(d) /\ Held(d)' = Held(d)
    BY <1>1, <1>2, <1>3 DEF HasEntry, Held, TypeOK
  <2>3. buf'[s] \in Packet
    BY <1>1, <1>3, <1>a DEF Current
  <2>4. QED
    BY <1>1, <1>7, <1>8, <2>1, <2>2, <2>3, HeldGrows
<1>11. QED
  BY <1>7, <1>8, <1>9, <1>10 DEF IInv, BufferOwnership, LooseOnce

\* The list of connection c is emptied; its first buffer becomes loose.
LEMMA HeldReleased ==
  ASSUME IInv, TypeOK', NEW c \in Conns, HasEntry(c), HasEntry(c)',
         Held(c) # <<>>, Held(c)[1] # Null, Held(c)' = <<>>,
         Loose' = Loose \cup {Held(c)[1]},
         \A d \in Conns \ {c} : HasEntry(d)' => HasEntry(d) /\ Held(d)' = Held(d),
         \A m \in Mbufs : buf[m] \in Packet => buf'[m] \in Packet
  PROVE  HeldOnce' /\ HeldNowhereElse' /\ HeldAreTcp'
<1>1. TypeOK /\ HeldOnce /\ HeldNowhereElse /\ HeldAreTcp
  BY DEF IInv, BufferOwnership
<1>2. 1 \in 1 .. Len(Held(c))
  <2>1. Held(c) \in Seq(Mbufs \cup {Null})
    BY <1>1, HeldTypes
  <2>2. QED
    BY <2>1
<1>3. ASSUME NEW d \in Conns, HasEntry(d)', NEW i \in (1 .. Len(Held(d)))'
      PROVE  /\ HasEntry(d) /\ Held(d)' = Held(d) /\ i \in 1 .. Len(Held(d)) /\ d # c
             /\ Held(d)[i] \in Mbufs \cup {Null}
             /\ Held(d)[i] \notin Loose'
  <2>1. d # c
    BY <1>3
  <2>2. HasEntry(d) /\ Held(d)' = Held(d) /\ i \in 1 .. Len(Held(d))
    BY <1>3, <2>1
  <2>3. Held(d)[i] \notin Loose
    BY <1>1, <2>2 DEF HeldNowhereElse, Loose
  <2>4. Held(d)[i] # Held(c)[1]
    BY <1>1, <1>2, <2>1, <2>2 DEF HeldOnce
  <2>5. QED
    BY <1>1, <2>1, <2>2, <2>3, <2>4, HeldTypes
<1>4. HeldOnce'
  BY <1>1, <1>3 DEF HeldOnce
<1>5. HeldNowhereElse'
  BY <1>3 DEF HeldNowhereElse, Loose
<1>6. HeldAreTcp'
  <2>1. ASSUME NEW d \in Conns, HasEntry(d)', NEW i \in (1 .. Len(Held(d)))',
               Held(d)'[i] # Null
        PROVE  buf'[Held(d)'[i]] \in Packet
    BY <1>1, <1>3, <2>1 DEF HeldAreTcp
  <2>2. QED
    BY <2>1 DEF HeldAreTcp
<1>7. QED
  BY <1>4, <1>5, <1>6

\* The SYN-ACK from inside: the first held packet gets a slot, the list is
\* emptied and the later ones are rewritten where they are.
LEMMA OutSynAckReleasePreserves ==
  ASSUME IInv, pc = "treat_out", OutSynAckRelease, UNCHANGED pc
  PROVE  IInv'
<1>0. Pending(toOutside) /\ Tcp(toOutside) /\ NextPacket /\ UNCHANGED <<pool, toOutside>>
  BY DEF OutSynAckRelease, Tcp
<1>1. PICK c \in Conns : c = Current(toOutside).conn
  BY <1>0, TcpOutside
<1> DEFINE p    == Current(toOutside)
           off  == SeqSub(SeqSub(buf[Held(c)[1]].ack, p.seq), 1)
           late == {Held(c)[k] : k \in 2 .. Len(Held(c))}
<1>2. /\ HasEntry(c) /\ Held(c) # <<>> /\ Held(c)[1] # Null
      /\ buf' = [m \in Mbufs |->
           CASE m = Held(c)[1] -> [buf[m] EXCEPT !.ack = SeqAdd(p.seq, 1)]
             [] m \in late -> [buf[m] EXCEPT !.ack = SeqSub(@, off)]
             [] OTHER -> buf[m]]
      /\ toInside' = Added(toInside, Held(c)[1])
      /\ table' = [table EXCEPT ![c] = Released(@, off)]
  BY <1>1 DEF OutSynAckRelease, Entry, Held, Known
<1>3. /\ TypeOK /\ LooseOnce /\ WellFormed(toInside) /\ WellFormed(toOutside)
      /\ toInside.total < 2 * BurstSize
  BY <1>0, OutsideContext DEF IInv
<1>4. p \in Packet /\ p.seq \in Int
  BY <1>0, TcpOutside, PacketFields, SeqArithmetic
<1>5. PICK h \in Mbufs : h = Held(c)[1] /\ h \notin Loose /\ buf[h] \in Packet
  <2>1. /\ Held(c) \in Seq(Mbufs \cup {Null})
        /\ \A i \in 1 .. Len(Held(c)) : Held(c)[i] \in Mbufs \cup {Null}
    BY <1>2, <1>3, HeldTypes
  <2>2. 1 \in 1 .. Len(Held(c))
    BY <1>2, <2>1
  <2>3. Held(c)[1] \in Mbufs
    BY <1>2, <2>1, <2>2
  <2>4. Held(c)[1] \notin Loose /\ buf[Held(c)[1]] \in Packet
    BY <1>2, <2>2 DEF IInv, BufferOwnership, HeldNowhereElse, HeldAreTcp, Loose
  <2>5. QED
    BY <2>3, <2>4
<1>6. off \in Seqs
  <2>1. buf[h].ack \in Int
    BY <1>5, PacketFields, SeqArithmetic
  <2>2. SeqSub(buf[h].ack, p.seq) \in Int
    BY <1>4, <2>1, SeqArithmetic
  <2>3. QED
    BY <1>5, <2>2, SeqArithmetic
<1>7. /\ buf' \in [Mbufs -> Packet \cup {Opaque}]
      /\ \A m \in Mbufs : buf[m] \in Packet => buf'[m] \in Packet
  <2> SUFFICES ASSUME NEW m \in Mbufs
               PROVE  /\ buf'[m] \in Packet \cup {Opaque}
                      /\ buf[m] \in Packet => buf'[m] \in Packet
    BY <1>2
  <2>1. CASE m = h
    <3>1. h \notin late
      <4>1. /\ Len(Held(c)) \in Nat
            /\ 1 \in 1 .. Len(Held(c))
            /\ \A k \in 2 .. Len(Held(c)) : k \in 1 .. Len(Held(c)) /\ k # 1
        BY <1>2, <1>3, HeldTypes
      <4>2. \A k \in 2 .. Len(Held(c)) : Held(c)[k] # h
        BY <1>2, <1>5, <4>1 DEF IInv, BufferOwnership, HeldOnce
      <4>3. QED
        BY <4>2
    <3>2. buf'[m] = [buf[h] EXCEPT !.ack = SeqAdd(p.seq, 1)]
      BY <1>2, <1>5, <2>1, <3>1
    <3>3. SeqAdd(p.seq, 1) \in Seqs
      BY <1>4, SeqArithmetic
    <3> HIDE DEF p
    <3>4. [buf[h] EXCEPT !.ack = SeqAdd(p.seq, 1)] \in Packet
      BY <1>5, <3>3, PacketFields
    <3>5. QED
      BY <3>2, <3>4
  <2>2. CASE m # h /\ m \in late
    <3>1. buf'[m] = [buf[m] EXCEPT !.ack = SeqSub(buf[m].ack, off)]
      BY <1>2, <1>5, <2>2
    <3>2. buf[m] \in Packet
      <4>1. PICK k \in 2 .. Len(Held(c)) : m = Held(c)[k]
        BY <2>2
      <4>2. Len(Held(c)) \in Nat
        BY <1>2, <1>3, HeldTypes
      <4>3. QED
        BY <1>2, <4>1, <4>2, NullAssumption DEF IInv, HeldAreTcp
    <3>3. SeqSub(buf[m].ack, off) \in Seqs
      BY <1>6, <3>2, PacketFields, SeqArithmetic
    <3>4. QED
      BY <3>1, <3>2, <3>3, PacketFields
  <2>3. CASE m # h /\ m \notin late
    <3>1. buf'[m] = buf[m]
      BY <1>2, <1>5, <2>3
    <3>2. QED
      BY <1>3, <3>1 DEF TypeOK
  <2>4. QED
    BY <2>1, <2>2, <2>3
<1>8. /\ WellFormed(toInside') /\ Buffers(toInside') = Buffers(toInside) \cup {h}
      /\ Grown(toInside, toInside')
  <2>1. h \notin Buffers(toInside)
    BY <1>5 DEF Loose
  <2>2. toInside' = Added(toInside, h)
    BY <1>2, <1>5
  <2>3. QED
    BY <1>3, <2>1, <2>2, AddedFacts DEF Grown
<1>9. /\ WellFormed(toOutside') /\ Buffers(toOutside') = Buffers(toOutside)
      /\ Grown(toOutside, toOutside')
  BY <1>0, <1>3 DEF Grown
<1>10. /\ table' \in [Conns -> Info \cup {NoEntry}]
       /\ HasEntry(c)' /\ Held(c)' = <<>>
       /\ \A d \in Conns \ {c} : HasEntry(d)' => HasEntry(d) /\ Held(d)' = Held(d)
  <2>1. table[c] \in Info /\ table \in [Conns -> Info \cup {NoEntry}]
    BY <1>2, <1>3, HeldTypes DEF TypeOK
  <2>2. Released(table[c], off) \in Info /\ Released(table[c], off).pkt_inf_list = <<>>
    BY <1>6, <2>1, InfoUpdates
  <2>3. table' = [table EXCEPT ![c] = Released(table[c], off)]
    BY <1>2
  <2> HIDE DEF off
  <2>4. QED
    BY <2>1, <2>2, <2>3, NoEntryAssumption DEF HasEntry, Held
<1>11. TypeOK'
  BY <1>0, <1>3, <1>7, <1>8, <1>9, <1>10 DEF TypeOK, NextPacket, WellFormed
<1>12. LooseOnce' /\ Loose' = Loose \cup {h}
  <2>1. Distinct(toInside') /\ Distinct(toOutside')
    BY <1>8, <1>9 DEF WellFormed
  <2>2. /\ Buffers(toInside') \cap Buffers(toOutside') = {}
        /\ pool' \cap (Buffers(toInside') \cup Buffers(toOutside')) = {}
        /\ pool' \cup Buffers(toInside') \cup Buffers(toOutside')
             = pool \cup Buffers(toInside) \cup Buffers(toOutside) \cup {h}
    BY <1>0, <1>3, <1>5, <1>8, <1>9 DEF LooseOnce, Loose
  <2>3. QED
    BY <2>1, <2>2 DEF LooseOnce, Loose, Distinct, Buffers
<1>13. LoopInv'
  BY <1>0, <1>8, <1>9, OutsideLoop DEF WellFormed, ClearBeyondTotal, Distinct
<1>14. HeldOnce' /\ HeldNowhereElse' /\ HeldAreTcp'
  <2> HIDE DEF off, late, p
  <2>1. QED
    BY <1>2, <1>5, <1>7, <1>10, <1>11, <1>12, HeldReleased
<1>15. QED
  BY <1>11, <1>12, <1>13, <1>14 DEF IInv, BufferOwnership, LooseOnce

------------------------------------------------------------------------------
(* Every step of the treatment preserves IInv.                             *)

\* What IInv says of buffers depends on these variables only.
LEMMA OwnershipUnchanged ==
  ASSUME BufferOwnership, HeldAreTcp,
         UNCHANGED <<table, buf, pool, toInside, toOutside>>
  PROVE  BufferOwnership' /\ HeldAreTcp'
<1>1. HeldOnce' /\ HeldAreTcp'
  BY DEF BufferOwnership, HeldOnce, HeldAreTcp, HasEntry, Held
<1>2. HeldNowhereElse'
  BY DEF BufferOwnership, HeldNowhereElse, HasEntry, Held, Buffers
<1>3. QED
  BY <1>1, <1>2 DEF BufferOwnership, Distinct, Buffers

\* A crash changes nothing but alive.
LEMMA CrashPreserves ==
  ASSUME IInv, Crash, UNCHANGED pc
  PROVE  IInv'
<1>1. TypeOK'
  BY DEF IInv, Crash, TypeOK
<1>2. LoopInv'
  BY DEF IInv, Crash, LoopInv, Receiving, Treating, TwoBurstsSuffice, ClearBeyondTotal
<1>3. BufferOwnership' /\ HeldAreTcp'
  BY OwnershipUnchanged DEF IInv, Crash
<1>4. QED
  BY <1>1, <1>2, <1>3 DEF IInv

LEMMA TreatInsidePreserves ==
  ASSUME IInv, TreatInside
  PROVE  IInv'
<1>1. pc = "treat_in" /\ UNCHANGED pc /\ TreatToInside /\ TypeOK
  BY DEF TreatInside, IInv
<1>2. ASSUME Tcp(toInside)
      PROVE  /\ Pending(toInside)
             /\ Current(toInside).conn \in Conns
             /\ Known(toInside) => /\ Entry(toInside) \in Info
                                   /\ HasEntry(Current(toInside).conn)
                                   /\ Entry(toInside).pkt_inf_list = Held(Current(toInside).conn)
  BY <1>1, <1>2, TcpInside, HeldTypes DEF Tcp, Known, Entry, Held
<1>3. CASE InSynAck
  <2>1. TableQuiet
    BY <1>2, <1>3 DEF InSynAck, TableQuiet
  <2>2. QED
    BY <1>1, <1>2, <1>3, <2>1, LeaveInPlaceQuiet, QuietInside DEF InSynAck
<1>4. CASE InSyn
  BY <1>1, <1>4, InSynPreserves
<1>5. CASE InRst
  <2>1. TableQuiet
    BY <1>2, <1>5 DEF InRst, TableQuiet
  <2>2. QED
    BY <1>1, <1>2, <1>5, <2>1, LeaveInPlaceQuiet, QuietInside DEF InRst
<1>6. CASE InFinUnknown
  BY <1>1, <1>2, <1>6, DroppedInside DEF InFinUnknown
<1>7. CASE InFinAnswer
  <2>1. TableQuiet
    BY <1>2, <1>7, InfoUpdates DEF InFinAnswer, TableQuiet, Entry
  <2>2. QED
    BY <1>1, <1>2, <1>7, <2>1, RewriteAckQuiet, QuietInside DEF InFinAnswer
<1>8. CASE InFinFirst
  <2>1. TableQuiet
    BY <1>2, <1>8, InfoUpdates DEF InFinFirst, TableQuiet, Entry
  <2>2. QED
    BY <1>1, <1>2, <1>8, <2>1, RewriteAckQuiet, QuietInside DEF InFinFirst
<1>9. CASE InFinRepeated
  BY <1>1, <1>2, <1>9, LeaveInPlaceQuiet, QuietInside DEF InFinRepeated, TableQuiet
<1>10. CASE InAckLegit
  BY <1>1, <1>10, InAckLegitPreserves
<1>11. CASE InAckRefused
  BY <1>1, <1>11, InAckRefusedPreserves
<1>12. CASE InAckLast
  <2>1. TableQuiet
    BY <1>2, <1>12 DEF InAckLast, TableQuiet
  <2>2. QED
    BY <1>1, <1>2, <1>12, <2>1, RewriteAckQuiet, QuietInside DEF InAckLast
<1>13. CASE InAckEarly
  BY <1>1, <1>13, InAckEarlyPreserves
<1>14. CASE InAckRegular
  BY <1>1, <1>2, <1>14, RewriteAckQuiet, QuietInside DEF InAckRegular, TableQuiet
<1>15. CASE InUntreated
  BY <1>1, <1>15, LeaveInPlaceQuiet, QuietInside DEF InUntreated, Untreated, TableQuiet
<1>16. CASE InOutOfBuffers
  BY <1>1, <1>16, CrashPreserves DEF InOutOfBuffers
<1>17. QED
  BY <1>1, <1>3, <1>4, <1>5, <1>6, <1>7, <1>8, <1>9, <1>10, <1>11, <1>12, <1>13,
    <1>14, <1>15, <1>16 DEF TreatToInside

LEMMA TreatOutsidePreserves ==
  ASSUME IInv, TreatOutside
  PROVE  IInv'
<1>1. pc = "treat_out" /\ UNCHANGED pc /\ TreatToOutside /\ TypeOK
  BY DEF TreatOutside, IInv
<1>2. ASSUME Tcp(toOutside)
      PROVE  /\ Pending(toOutside)
             /\ Current(toOutside).conn \in Conns
             /\ Known(toOutside) => /\ Entry(toOutside) \in Info
                                    /\ HasEntry(Current(toOutside).conn)
                                    /\ Entry(toOutside).pkt_inf_list = Held(Current(toOutside).conn)
  BY <1>1, <1>2, TcpOutside, HeldTypes DEF Tcp, Known, Entry, Held
<1>3. CASE OutSynAckUnknown
  BY <1>1, <1>2, <1>3, DroppedOutside DEF OutSynAckUnknown
<1>4. CASE OutSynAckRelease
  BY <1>1, <1>4, OutSynAckReleasePreserves
<1>5. CASE OutSynAckNullHeld
  BY <1>1, <1>5, CrashPreserves DEF OutSynAckNullHeld
<1>6. CASE OutSynAckRepeated
  BY <1>1, <1>2, <1>6, LeaveInPlaceQuiet, QuietOutside DEF OutSynAckRepeated, TableQuiet
<1>7. CASE OutSyn
  BY <1>1, <1>2, <1>7, LeaveInPlaceQuiet, QuietOutside DEF OutSyn, TableQuiet
<1>8. CASE OutRstUnknown
  BY <1>1, <1>2, <1>8, DroppedOutside DEF OutRstUnknown
<1>9. CASE OutRst
  <2>1. TableQuiet
    BY <1>2, <1>9 DEF OutRst, TableQuiet
  <2>2. QED
    BY <1>1, <1>2, <1>9, <2>1, RewriteSeqQuiet, QuietOutside DEF OutRst
<1>10. CASE OutFinUnknown
  BY <1>1, <1>2, <1>10, DroppedOutside DEF OutFinUnknown
<1>11. CASE OutFinAnswer
  <2>1. TableQuiet
    BY <1>2, <1>11, InfoUpdates DEF OutFinAnswer, TableQuiet, Entry
  <2>2. QED
    BY <1>1, <1>2, <1>11, <2>1, RewriteSeqQuiet, QuietOutside DEF OutFinAnswer
<1>12. CASE OutFinFirst
  <2>1. TableQuiet
    BY <1>2, <1>12, InfoUpdates DEF OutFinFirst, TableQuiet, Entry
  <2>2. QED
    BY <1>1, <1>2, <1>12, <2>1, RewriteSeqQuiet, QuietOutside DEF OutFinFirst
<1>13. CASE OutFinRepeated
  BY <1>1, <1>2, <1>13, LeaveInPlaceQuiet, QuietOutside DEF OutFinRepeated, TableQuiet
<1>14. CASE OutAckNew
  <2>1. TableQuiet
    BY <1>2, <1>14 DEF OutAckNew, TableQuiet
  <2>2. QED
    BY <1>1, <1>2, <1>14, <2>1, LeaveInPlaceQuiet, QuietOutside DEF OutAckNew
<1>15. CASE OutAckLast
  <2>1. TableQuiet
    BY <1>2, <1>15 DEF OutAckLast, TableQuiet
  <2>2. QED
    BY <1>1, <1>2, <1>15, <2>1, RewriteSeqQuiet, QuietOutside DEF OutAckLast
<1>16. CASE OutAckRegular
  BY <1>1, <1>2, <1>16, RewriteSeqQuiet, QuietOutside DEF OutAckRegular, TableQuiet
<1>17. CASE OutUntreated
  BY <1>1, <1>17, LeaveInPlaceQuiet, QuietOutside DEF OutUntreated, Untreated, TableQuiet
<1>18. QED
  BY <1>1, <1>3, <1>4, <1>5, <1>6, <1>7, <1>8, <1>9, <1>10, <1>11, <1>12, <1>13,
    <1>14, <1>15, <1>16, <1>17 DEF TreatToOutside

------------------------------------------------------------------------------
(* The other steps of the loop.                                            *)

LEMMA PollPreserves ==
  ASSUME IInv, PollToInside \/ PollToOutside
  PROVE  IInv'
<1>1. /\ pc \in {"poll_in", "poll_out"} /\ TypeOK
      /\ toInside = EmptyContainer /\ toOutside = EmptyContainer
  BY DEF IInv, LoopInv, PollToInside, PollToOutside, Goto
<1>2. UNCHANGED <<ts, table, buf, pool, toInside, toOutside, alive>> /\ cursor' = 0
  BY <1>1 DEF PollToInside, PollToOutside
<1>3. pc' \in {"receive_in", "receive_out"}
  BY DEF PollToInside, PollToOutside, Goto
<1>4. TypeOK'
  BY <1>1, <1>2, <1>3 DEF TypeOK, Labels
<1>5. LoopInv'
  <2>1. Receiving(toInside, toOutside)' /\ Receiving(toOutside, toInside)'
    BY <1>1, <1>2, EmptyFacts, CapacityFacts DEF Receiving
  <2>2. ClearBeyondTotal(toInside)' /\ ClearBeyondTotal(toOutside)'
    BY <1>1, <1>2, EmptyFacts DEF WellFormed, ClearBeyondTotal
  <2>3. QED
    BY <1>3, <2>1, <2>2 DEF LoopInv
<1>6. QED
  BY <1>2, <1>4, <1>5, OwnershipUnchanged DEF IInv

\* A received packet moves a buffer from the pool to the next slot.
LEMMA ReceivedFacts ==
  ASSUME NEW k, WellFormed(k), k.total = k.polled, k.polled < BurstSize,
         \A j \in SlotIndex : j < k.polled => k.slots[j] # Null,
         NEW m \in Mbufs, m \notin Buffers(k)
  PROVE  /\ WellFormed(Received(k, m))
         /\ Buffers(Received(k, m)) = Buffers(k) \cup {m}
         /\ Received(k, m).total = Received(k, m).polled
         /\ Received(k, m).polled <= BurstSize
         /\ \A j \in SlotIndex : j < Received(k, m).polled =>
              Received(k, m).slots[j] # Null
<1> DEFINE a == Added(k, m)
           r == Received(k, m)
<1>1. k.polled \in Nat /\ k.total \in Nat /\ k.total < 2 * BurstSize
  BY CapacityFacts DEF WellFormed, Container
<1>2. /\ WellFormed(a) /\ Buffers(a) = Buffers(k) \cup {m}
      /\ a.polled = k.polled /\ a.total = k.total + 1
      /\ a.slots[k.total] = m
      /\ \A j \in SlotIndex : j # k.total => a.slots[j] = k.slots[j]
  BY <1>1, AddedFacts
<1>3. /\ r \in Container /\ r.slots = a.slots /\ r.total = a.total
      /\ r.polled = a.polled + 1
  <2>1. a \in Container
    BY <1>2 DEF WellFormed
  <2>2. r = [a EXCEPT !.polled = a.polled + 1]
    BY DEF Received
  <2> HIDE DEF a, r
  <2>3. QED
    BY <2>1, <2>2 DEF Container
<1>4. WellFormed(r) /\ Buffers(r) = Buffers(k) \cup {m}
  BY <1>2, <1>3 DEF WellFormed, ClearBeyondTotal, Distinct, Buffers
<1>5. \A j \in SlotIndex : j < r.polled => r.slots[j] # Null
  <2> HIDE DEF a, r
  <2> SUFFICES ASSUME NEW j \in SlotIndex, j < r.polled PROVE r.slots[j] # Null
    OBVIOUS
  <2>1. CASE j = k.total
    BY <1>2, <1>3, <2>1, NullAssumption
  <2>2. CASE j # k.total
    <3>1. j \in Nat /\ j < k.polled
      BY <1>1, <1>2, <1>3, <2>2, CapacityFacts
    <3>2. QED
      BY <1>2, <1>3, <2>2, <3>1
  <2>3. QED
    BY <2>1, <2>2
<1>6. QED
  BY <1>1, <1>2, <1>3, <1>4, <1>5, CapacityFacts

LEMMA ReceiveOutsidePreserves ==
  ASSUME IInv, NEW p \in Packet \cup {Opaque}, ReceiveOutside(p)
  PROVE  IInv'
<1>1. PICK m \in pool :
        /\ toInside' = Received(toInside, m)
        /\ buf' = [buf EXCEPT ![m] = p]
        /\ pool' = pool \ {m}
  BY DEF ReceiveOutside
<1>2. /\ UNCHANGED <<ts, table, toOutside, cursor, alive, pc>>
      /\ pc = "receive_in" /\ toInside.polled < BurstSize
  BY DEF ReceiveOutside, Goto
<1>3. /\ TypeOK /\ LooseOnce /\ WellFormed(toInside) /\ WellFormed(toOutside)
      /\ m \in Mbufs /\ m \notin Buffers(toInside) /\ m \notin Buffers(toOutside)
  BY ContainersWellFormed DEF IInv, TypeOK, LooseOnce
<1>4. Receiving(toInside, toOutside)
  BY <1>2 DEF IInv, LoopInv
<1>5. /\ WellFormed(toInside') /\ Buffers(toInside') = Buffers(toInside) \cup {m}
      /\ toInside'.total = toInside'.polled /\ toInside'.polled <= BurstSize
      /\ \A j \in SlotIndex : j < toInside'.polled => toInside'.slots[j] # Null
  BY <1>1, <1>2, <1>3, <1>4, ReceivedFacts DEF Receiving
<1>6. TypeOK'
  <2>1. buf' \in [Mbufs -> Packet \cup {Opaque}] /\ pool' \subseteq Mbufs
    BY <1>1, <1>3 DEF TypeOK
  <2>2. QED
    BY <1>2, <1>3, <1>5, <2>1 DEF TypeOK, WellFormed
<1>7. LooseOnce' /\ Loose' \subseteq Loose
  <2>1. Distinct(toInside') /\ Distinct(toOutside') /\ Buffers(toOutside') = Buffers(toOutside)
    BY <1>2, <1>3, <1>5 DEF WellFormed
  <2>2. /\ Buffers(toInside') \cap Buffers(toOutside') = {}
        /\ pool' \cap (Buffers(toInside') \cup Buffers(toOutside')) = {}
        /\ pool' \cup Buffers(toInside') \cup Buffers(toOutside')
             \subseteq pool \cup Buffers(toInside) \cup Buffers(toOutside)
    BY <1>1, <1>3, <1>5, <2>1 DEF LooseOnce
  <2>3. QED
    BY <2>1, <2>2 DEF LooseOnce, Loose, Distinct, Buffers
<1>8. LoopInv'
  <2>1. Receiving(toInside, toOutside)'
    BY <1>2, <1>4, <1>5 DEF Receiving
  <2>2. ClearBeyondTotal(toInside)' /\ ClearBeyondTotal(toOutside)'
    BY <1>2, <1>3, <1>5 DEF WellFormed, ClearBeyondTotal
  <2>3. QED
    BY <1>2, <2>1, <2>2 DEF LoopInv
<1>9. HeldOnce' /\ HeldNowhereElse' /\ HeldAreTcp'
  <2>1. ListsKept
    BY <1>2 DEF ListsKept, HasEntry, Held
  <2>2. \A n \in Mbufs : n \in Loose \/ buf'[n] = buf[n]
    BY <1>1, <1>3 DEF TypeOK, Loose
  <2>3. QED
    BY <1>6, <1>7, <2>1, <2>2, HeldKept
<1>10. QED
  BY <1>6, <1>7, <1>8, <1>9 DEF IInv, BufferOwnership, LooseOnce

LEMMA ReceiveInsidePreserves ==
  ASSUME IInv, NEW p \in Packet \cup {Opaque}, ReceiveInside(p)
  PROVE  IInv'
<1>1. PICK m \in pool :
        /\ toOutside' = Received(toOutside, m)
        /\ buf' = [buf EXCEPT ![m] = p]
        /\ pool' = pool \ {m}
  BY DEF ReceiveInside
<1>2. /\ UNCHANGED <<ts, table, toInside, cursor, alive, pc>>
      /\ pc = "receive_out" /\ toOutside.polled < BurstSize
  BY DEF ReceiveInside, Goto
<1>3. /\ TypeOK /\ LooseOnce /\ WellFormed(toInside) /\ WellFormed(toOutside)
      /\ m \in Mbufs /\ m \notin Buffers(toInside) /\ m \notin Buffers(toOutside)
  BY ContainersWellFormed DEF IInv, TypeOK, LooseOnce
<1>4. Receiving(toOutside, toInside)
  BY <1>2 DEF IInv, LoopInv
<1>5. /\ WellFormed(toOutside') /\ Buffers(toOutside') = Buffers(toOutside) \cup {m}
      /\ toOutside'.total = toOutside'.polled /\ toOutside'.polled <= BurstSize
      /\ \A j \in SlotIndex : j < toOutside'.polled => toOutside'.slots[j] # Null
  BY <1>1, <1>2, <1>3, <1>4, ReceivedFacts DEF Receiving
<1>6. TypeOK'
  <2>1. buf' \in [Mbufs -> Packet \cup {Opaque}] /\ pool' \subseteq Mbufs
    BY <1>1, <1>3 DEF TypeOK
  <2>2. QED
    BY <1>2, <1>3, <1>5, <2>1 DEF TypeOK, WellFormed
<1>7. LooseOnce' /\ Loose' \subseteq Loose
  <2>1. Distinct(toInside') /\ Distinct(toOutside') /\ Buffers(toInside') = Buffers(toInside)
    BY <1>2, <1>3, <1>5 DEF WellFormed
  <2>2. /\ Buffers(toInside') \cap Buffers(toOutside') = {}
        /\ pool' \cap (Buffers(toInside') \cup Buffers(toOutside')) = {}
        /\ pool' \cup Buffers(toInside') \cup Buffers(toOutside')
             \subseteq pool \cup Buffers(toInside) \cup Buffers(toOutside)
    BY <1>1, <1>3, <1>5, <2>1 DEF LooseOnce
  <2>3. QED
    BY <2>1, <2>2 DEF LooseOnce, Loose, Distinct, Buffers
<1>8. LoopInv'
  <2>1. Receiving(toOutside, toInside)'
    BY <1>2, <1>4, <1>5 DEF Receiving
  <2>2. ClearBeyondTotal(toInside)' /\ ClearBeyondTotal(toOutside)'
    BY <1>2, <1>3, <1>5 DEF WellFormed, ClearBeyondTotal
  <2>3. QED
    BY <1>2, <2>1, <2>2 DEF LoopInv
<1>9. HeldOnce' /\ HeldNowhereElse' /\ HeldAreTcp'
  <2>1. ListsKept
    BY <1>2 DEF ListsKept, HasEntry, Held
  <2>2. \A n \in Mbufs : n \in Loose \/ buf'[n] = buf[n]
    BY <1>1, <1>3 DEF TypeOK, Loose
  <2>3. QED
    BY <1>6, <1>7, <2>1, <2>2, HeldKept
<1>10. QED
  BY <1>6, <1>7, <1>8, <1>9 DEF IInv, BufferOwnership, LooseOnce

\* A container whose total is 0 is the empty one.
LEMMA EmptyWhenTotalZero ==
  ASSUME NEW k \in Container, ClearBeyondTotal(k), k.total = 0, k.polled = 0
  PROVE  k = EmptyContainer
<1>1. \A j \in SlotIndex : k.slots[j] = Null
  BY CapacityFacts DEF ClearBeyondTotal
<1>2. k.slots = [j \in SlotIndex |-> Null]
  BY <1>1 DEF Container
<1>3. QED
  BY <1>2 DEF Container, EmptyContainer

\* The end of a burst and of its treatment: only pc changes.
LEMMA GotoPreserves ==
  ASSUME IInv, BurstFromOutside \/ BurstFromInside \/ TreatedInside \/ TreatedOutside
  PROVE  IInv'
<1>1. UNCHANGED treatVars
  BY DEF BurstFromOutside, BurstFromInside, TreatedInside, TreatedOutside
<1>2. /\ TypeOK /\ toInside \in Container /\ toOutside \in Container
      /\ ClearBeyondTotal(toInside) /\ ClearBeyondTotal(toOutside)
      /\ cursor \in Nat
      /\ toInside.polled \in Nat /\ toInside.total \in Nat
      /\ toOutside.polled \in Nat /\ toOutside.total \in Nat
  BY DEF IInv, TypeOK, LoopInv, Container
<1>3. ClearBeyondTotal(toInside)' /\ ClearBeyondTotal(toOutside)'
  BY <1>1, <1>2 DEF treatVars, ClearBeyondTotal
<1>4. pc' \in Labels /\ LoopInv'
  <2>1. CASE BurstFromOutside
    <3>1. Receiving(toInside, toOutside)
      BY <2>1 DEF BurstFromOutside, Goto, IInv, LoopInv
    <3>2. CASE toInside.polled > 0
      <4>1. Treating(toInside, toOutside)'
        BY <1>1, <1>2, <3>1, <3>2, EmptyFacts, CapacityFacts
          DEF Receiving, Treating, treatVars
      <4>2. pc' = "treat_in"
        BY <2>1, <3>2 DEF BurstFromOutside, Goto
      <4>3. QED
        BY <1>3, <4>1, <4>2 DEF LoopInv, Labels
    <3>3. CASE ~(toInside.polled > 0)
      <4>1. toInside = EmptyContainer /\ toOutside = EmptyContainer
        BY <1>2, <3>1, <3>3, EmptyWhenTotalZero DEF Receiving
      <4>2. pc' = "poll_out"
        BY <2>1, <3>3 DEF BurstFromOutside, Goto
      <4>3. QED
        BY <1>1, <1>3, <4>1, <4>2 DEF LoopInv, Labels, treatVars
    <3>4. QED
      BY <3>2, <3>3
  <2>2. CASE BurstFromInside
    <3>1. Receiving(toOutside, toInside)
      BY <2>2 DEF BurstFromInside, Goto, IInv, LoopInv
    <3>2. CASE toOutside.polled > 0
      <4>1. Treating(toOutside, toInside)'
        BY <1>1, <1>2, <3>1, <3>2, EmptyFacts, CapacityFacts
          DEF Receiving, Treating, treatVars
      <4>2. pc' = "treat_out"
        BY <2>2, <3>2 DEF BurstFromInside, Goto
      <4>3. QED
        BY <1>3, <4>1, <4>2 DEF LoopInv, Labels
    <3>3. CASE ~(toOutside.polled > 0)
      <4>1. toInside = EmptyContainer /\ toOutside = EmptyContainer
        BY <1>2, <3>1, <3>3, EmptyWhenTotalZero DEF Receiving
      <4>2. pc' = "poll_in"
        BY <2>2, <3>3 DEF BurstFromInside, Goto
      <4>3. QED
        BY <1>1, <1>3, <4>1, <4>2 DEF LoopInv, Labels, treatVars
    <3>4. QED
      BY <3>2, <3>3
  <2>3. CASE TreatedInside
    <3>1. Treating(toInside, toOutside) /\ pc' = "send_in"
      BY <2>3 DEF TreatedInside, Goto, IInv, LoopInv
    <3>2. TwoBurstsSuffice'
      BY <1>1, <1>2, <3>1, CapacityFacts DEF Treating, TwoBurstsSuffice, treatVars
    <3>3. QED
      BY <1>3, <3>1, <3>2 DEF LoopInv, Labels
  <2>4. CASE TreatedOutside
    <3>1. Treating(toOutside, toInside) /\ pc' = "send_out"
      BY <2>4 DEF TreatedOutside, Goto, IInv, LoopInv
    <3>2. TwoBurstsSuffice'
      BY <1>1, <1>2, <3>1, CapacityFacts DEF Treating, TwoBurstsSuffice, treatVars
    <3>3. QED
      BY <1>3, <3>1, <3>2 DEF LoopInv, Labels
  <2>5. QED
    BY <2>1, <2>2, <2>3, <2>4
<1>5. TypeOK'
  BY <1>1, <1>2, <1>4 DEF TypeOK, treatVars
<1>6. QED
  BY <1>1, <1>4, <1>5, OwnershipUnchanged DEF IInv, treatVars

\* Sending empties both containers into the pool.
LEMMA SendPreserves ==
  ASSUME IInv, SendAfterInside \/ SendAfterOutside
  PROVE  IInv'
<1> DEFINE sent == Buffers(toInside) \cup Buffers(toOutside)
<1>1. /\ pool' = pool \cup sent
      /\ buf' = [m \in Mbufs |-> IF m \in sent THEN Opaque ELSE buf[m]]
      /\ toInside' = EmptyContainer /\ toOutside' = EmptyContainer
      /\ cursor' = 0
      /\ UNCHANGED <<ts, table, alive>>
      /\ pc' \in {"poll_in", "poll_out"}
  BY DEF SendAfterInside, SendAfterOutside, SendBoth, Goto
<1>2. TypeOK /\ WellFormed(toInside) /\ WellFormed(toOutside)
  BY ContainersWellFormed DEF IInv
<1>3. sent \subseteq Mbufs
  BY <1>2 DEF WellFormed, Container, Buffers
<1>4. TypeOK'
  <2>1. buf' \in [Mbufs -> Packet \cup {Opaque}] /\ pool' \subseteq Mbufs
    BY <1>1, <1>2, <1>3 DEF TypeOK
  <2>2. QED
    BY <1>1, <1>2, <2>1, EmptyFacts DEF TypeOK, Labels, WellFormed
<1>5. LoopInv'
  <2>1. ClearBeyondTotal(toInside)' /\ ClearBeyondTotal(toOutside)'
    BY <1>1, EmptyFacts DEF WellFormed, ClearBeyondTotal
  <2>2. QED
    BY <1>1, <2>1 DEF LoopInv
<1>6. LooseOnce' /\ Loose' \subseteq Loose
  <2>1. Distinct(toInside') /\ Buffers(toInside') = {}
    BY <1>1, EmptyFacts DEF WellFormed
  <2>2. Distinct(toOutside') /\ Buffers(toOutside') = {}
    BY <1>1, EmptyFacts DEF WellFormed
  <2>3. QED
    BY <1>1, <2>1, <2>2 DEF LooseOnce, Loose, Distinct, Buffers
<1>7. HeldOnce' /\ HeldNowhereElse' /\ HeldAreTcp'
  <2>1. ListsKept
    BY <1>1 DEF ListsKept, HasEntry, Held
  <2>2. \A n \in Mbufs : n \in Loose \/ buf'[n] = buf[n]
    BY <1>1 DEF Loose
  <2>3. QED
    BY <1>4, <1>6, <2>1, <2>2, HeldKept
<1>8. QED
  BY <1>4, <1>5, <1>6, <1>7 DEF IInv, BufferOwnership, LooseOnce

LEMMA TickPreserves ==
  ASSUME IInv, Tick
  PROVE  IInv'
<1>1. /\ ts' = TsNext(ts)
      /\ UNCHANGED <<table, buf, pool, toInside, toOutside, cursor, alive, pc>>
  BY DEF Tick, s_increment_timestamp
<1>2. TypeOK'
  BY <1>1, TsArithmetic DEF IInv, TypeOK
<1>3. LoopInv'
  BY <1>1 DEF IInv, LoopInv, Receiving, Treating, TwoBurstsSuffice, ClearBeyondTotal
<1>4. QED
  BY <1>1, <1>2, <1>3, OwnershipUnchanged DEF IInv

LEMMA StutterPreserves ==
  ASSUME IInv, UNCHANGED vars
  PROVE  IInv'
<1>1. TypeOK'
  BY DEF IInv, TypeOK, vars, treatVars
<1>2. LoopInv'
  BY DEF IInv, LoopInv, Receiving, Treating, TwoBurstsSuffice, ClearBeyondTotal,
    vars, treatVars
<1>3. QED
  BY <1>1, <1>2, OwnershipUnchanged DEF IInv, vars, treatVars

------------------------------------------------------------------------------
(* The theorems.                                                           *)

\* The loop starts with empty containers, an empty table and a full pool.
LEMMA InitEstablishes == Init => IInv
<1> SUFFICES ASSUME Init PROVE IInv
  OBVIOUS
<1>1. /\ toInside = EmptyContainer /\ toOutside = EmptyContainer
      /\ \A c \in Conns : ~HasEntry(c)
      /\ pc = "poll_in"
  BY DEF Init, TreatmentInit, HasEntry
<1>2. TypeOK
  BY EmptyFacts, TsModAssumption
    DEF Init, TreatmentInit, TypeOK, WellFormed, Ts, Labels
<1>3. LoopInv
  BY <1>1, EmptyFacts DEF LoopInv, WellFormed
<1>4. BufferOwnership /\ HeldAreTcp
  BY <1>1, EmptyFacts
    DEF BufferOwnership, HeldOnce, HeldNowhereElse, HeldAreTcp, WellFormed
<1>5. QED
  BY <1>2, <1>3, <1>4 DEF IInv

LEMMA NextPreserves == IInv /\ [Next]_vars => IInv'
<1>1. ASSUME IInv, ReceiveFromOutside PROVE IInv'
  BY <1>1, ReceiveOutsidePreserves, TrafficAssumption DEF ReceiveFromOutside
<1>2. ASSUME IInv, ReceiveFromInside PROVE IInv'
  BY <1>2, ReceiveInsidePreserves, TrafficAssumption DEF ReceiveFromInside
<1>3. QED
  BY <1>1, <1>2, PollPreserves, GotoPreserves, TreatInsidePreserves, TreatOutsidePreserves,
    SendPreserves, TickPreserves, StutterPreserves DEF Next, Gone

(***************************************************************************)
(* The inductive invariant of the worker thread holds in every state the   *)
(* loop of DefenseThread::run reaches.                                     *)
(***************************************************************************)
THEOREM InvariantHolds == Spec => []IInv
BY InitEstablishes, NextPreserves, PTL DEF Spec

\* Type correctness of the worker thread and its treatment.
THEOREM TypesHold == Spec => []TypeOK
<1>1. IInv => TypeOK
  BY DEF IInv
<1>2. QED
  BY <1>1, InvariantHolds, PTL

(***************************************************************************)
(* No buffer is ever referenced from two places, whatever order of         *)
(* segments, bursts and connections the treatment meets: take_packet,      *)
(* drop_packet, add_packet and _pkt_inf_list hand each buffer around       *)
(* exactly once.                                                           *)
(***************************************************************************)
THEOREM OwnershipHolds == Spec => []BufferOwnership
<1>1. IInv => BufferOwnership
  BY DEF IInv
<1>2. QED
  BY <1>1, InvariantHolds, PTL

(***************************************************************************)
(* Two bursts of slots are enough for each PacketContainer, for every      *)
(* BURST_SIZE and every traffic.                                           *)
(***************************************************************************)
THEOREM TwoBurstsSufficeHolds == Spec => []TwoBurstsSuffice
<1>1. IInv => TwoBurstsSuffice
  BY CapacityFacts, EmptyFacts
    DEF IInv, TypeOK, Labels, LoopInv, Receiving, Treating, TwoBurstsSuffice, Container
<1>2. QED
  BY <1>1, InvariantHolds, PTL

\* poll_packets never overwrites a packet that has not been sent.
THEOREM NothingUnsentHolds == Spec => []PollFindsNothingUnsent
<1>1. IInv => PollFindsNothingUnsent
  BY EmptyFacts DEF IInv, LoopInv, PollFindsNothingUnsent
<1>2. QED
  BY <1>1, InvariantHolds, PTL

==============================================================================
