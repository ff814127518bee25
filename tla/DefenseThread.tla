---------------------------- MODULE DefenseThread ----------------------------
(***************************************************************************)
(* One worker thread: DefenseThread::run of                                *)
(* source/Threads/DefenseThread.cpp around the Treatment it owns, the      *)
(* network card on both sides and the tick of main.                        *)
(*                                                                         *)
(* The loop polls a burst from outside, treats it and sends both           *)
(* containers; then it does the same for a burst from inside.  A poll that *)
(* finds nothing skips the treatment and the sends.  What arrives is any   *)
(* packet of FromOutside or FromInside, in any order.                      *)
(***************************************************************************)
EXTENDS Treatment

CONSTANTS
  BurstSize,    \* BURST_SIZE, the most packets one poll returns
  FromOutside,  \* packets the external network may send
  FromInside    \* packets the internal network may send

ASSUME BurstAssumption == BurstSize \in Nat \ {0} /\ Capacity >= 2 * BurstSize
ASSUME TrafficAssumption ==
  /\ FromOutside \subseteq Packet \cup {Opaque}
  /\ FromInside \subseteq Packet \cup {Opaque}

VARIABLE pc  \* where the loop of run() is

vars == <<treatVars, pc>>

Labels == {"poll_in", "receive_in", "treat_in", "send_in",
           "poll_out", "receive_out", "treat_out", "send_out"}

Init == TreatmentInit /\ pc = "poll_in"

Goto(from, to) == alive /\ pc = from /\ pc' = to

------------------------------------------------------------------------------
(* poll_packets: empty the container, take a burst from the card.          *)

PollToInside ==
  /\ Goto("poll_in", "receive_in")
  /\ toInside' = EmptyContainer
  /\ cursor' = 0
  /\ UNCHANGED <<ts, table, buf, pool, toOutside, alive>>

PollToOutside ==
  /\ Goto("poll_out", "receive_out")
  /\ toOutside' = EmptyContainer
  /\ cursor' = 0
  /\ UNCHANGED <<ts, table, buf, pool, toInside, alive>>

\* rte_eth_rx_burst fills the next slot with a buffer of the pool.
Received(k, m) == [Added(k, m) EXCEPT !.polled = @ + 1]

ReceiveOutside(p) ==
  /\ Goto("receive_in", "receive_in")
  /\ toInside.polled < BurstSize
  /\ \E m \in pool :
       /\ toInside' = Received(toInside, m)
       /\ buf' = [buf EXCEPT ![m] = p]
       /\ pool' = pool \ {m}
  /\ UNCHANGED <<ts, table, toOutside, cursor, alive>>

ReceiveInside(p) ==
  /\ Goto("receive_out", "receive_out")
  /\ toOutside.polled < BurstSize
  /\ \E m \in pool :
       /\ toOutside' = Received(toOutside, m)
       /\ buf' = [buf EXCEPT ![m] = p]
       /\ pool' = pool \ {m}
  /\ UNCHANGED <<ts, table, toInside, cursor, alive>>

ReceiveFromOutside == \E p \in FromOutside : ReceiveOutside(p)
ReceiveFromInside == \E p \in FromInside : ReceiveInside(p)

\* The burst is complete; an empty one is not treated.
BurstFromOutside ==
  /\ Goto("receive_in", IF toInside.polled > 0 THEN "treat_in" ELSE "poll_out")
  /\ UNCHANGED treatVars

BurstFromInside ==
  /\ Goto("receive_out", IF toOutside.polled > 0 THEN "treat_out" ELSE "poll_in")
  /\ UNCHANGED treatVars

------------------------------------------------------------------------------
(* The treatment of the burst, packet by packet.                           *)

TreatInside == pc = "treat_in" /\ TreatToInside /\ UNCHANGED pc
TreatOutside == pc = "treat_out" /\ TreatToOutside /\ UNCHANGED pc

TreatedInside ==
  /\ Goto("treat_in", "send_in")
  /\ cursor = toInside.polled
  /\ UNCHANGED treatVars

TreatedOutside ==
  /\ Goto("treat_out", "send_out")
  /\ cursor = toOutside.polled
  /\ UNCHANGED treatVars

------------------------------------------------------------------------------
(* send_packets on both containers.  What the card accepts is freed by the *)
(* driver once it is on the wire, what it does not accept is freed at      *)
(* once: every buffer goes back to the pool.                               *)

\* Mutation: only the container of the burst's own direction is sent.
SendInsideOnly ==
  /\ pool' = pool \cup Buffers(toInside)
  /\ buf' = [m \in Mbufs |-> IF m \in Buffers(toInside) THEN Opaque ELSE buf[m]]
  /\ toInside' = EmptyContainer
  /\ cursor' = 0
  /\ UNCHANGED <<ts, table, toOutside, alive>>

SendBoth ==
  LET sent == Buffers(toInside) \cup Buffers(toOutside) IN
  /\ pool' = pool \cup sent
  /\ buf' = [m \in Mbufs |-> IF m \in sent THEN Opaque ELSE buf[m]]
  /\ toInside' = EmptyContainer
  /\ toOutside' = EmptyContainer
  /\ cursor' = 0
  /\ UNCHANGED <<ts, table, alive>>

SendAfterInside == Goto("send_in", "poll_out") /\ SendBoth
SendAfterOutside == Goto("send_out", "poll_in") /\ SendBoth

Tick == s_increment_timestamp /\ UNCHANGED pc

\* After a crash there is no worker any more.
Gone == ~alive /\ UNCHANGED vars

Next ==
  \/ PollToInside \/ ReceiveFromOutside \/ BurstFromOutside
  \/ TreatInside \/ TreatedInside \/ SendAfterInside
  \/ PollToOutside \/ ReceiveFromInside \/ BurstFromInside
  \/ TreatOutside \/ TreatedOutside \/ SendAfterOutside
  \/ Tick
  \/ Gone

Spec == Init /\ [][Next]_vars

------------------------------------------------------------------------------
(* Correctness.                                                            *)

\* Every variable holds values of the type the code declares for it.
TypeOK ==
  /\ ts \in Ts
  /\ table \in [Conns -> Info \cup {NoEntry}]
  /\ buf \in [Mbufs -> Packet \cup {Opaque}]
  /\ pool \subseteq Mbufs
  /\ toInside \in Container
  /\ toOutside \in Container
  /\ cursor \in Nat
  /\ alive \in BOOLEAN
  /\ pc \in Labels

Held(c) == table[c].pkt_inf_list

HeldOnce ==
  \A c, d \in Conns : HasEntry(c) /\ HasEntry(d) =>
    \A i \in 1 .. Len(Held(c)), j \in 1 .. Len(Held(d)) :
      Held(c)[i] # Null /\ Held(c)[i] = Held(d)[j] => c = d /\ i = j

HeldNowhereElse ==
  \A c \in Conns : HasEntry(c) =>
    \A i \in 1 .. Len(Held(c)) :
      Held(c)[i] \notin pool \cup Buffers(toInside) \cup Buffers(toOutside)

(***************************************************************************)
(* A buffer is never referenced twice: it is free, or in one slot of one   *)
(* container, or held once for one connection.  So no packet is sent twice *)
(* or freed while a connection still holds it, whatever the order in which *)
(* take_packet, drop_packet, add_packet and the lists hand it around.      *)
(***************************************************************************)
BufferOwnership ==
  /\ Distinct(toInside)
  /\ Distinct(toOutside)
  /\ Buffers(toInside) \cap Buffers(toOutside) = {}
  /\ pool \cap (Buffers(toInside) \cup Buffers(toOutside)) = {}
  /\ HeldOnce
  /\ HeldNowhereElse

(***************************************************************************)
(* Both FINs of a connection have been seen exactly when an ACK that ends  *)
(* it is expected: in every order of first, answering and repeated FINs    *)
(* the entry can still be erased, and it is not erased before.             *)
(***************************************************************************)
TeardownConsistent ==
  \A c \in Conns : HasEntry(c) =>
    LET e == table[c] IN
    (e.finseen_to_inside /\ e.finseen_to_outside)
      <=> (e.ack_to_inside_expected \/ e.ack_to_outside_expected)

(***************************************************************************)
(* The first packet held for a connection is an ACK of that connection     *)
(* that returned a cookie computed for that connection, and it stays       *)
(* unchanged while the treatment waits for the internal host.  The offset  *)
(* is computed from it.                                                    *)
(***************************************************************************)
HeldPassedCookie ==
  \A c \in Conns : HasEntry(c) /\ Held(c) # <<>> /\ Held(c)[1] # Null =>
    LET p == buf[Held(c)[1]] IN
    /\ p # Opaque
    /\ p.conn = c
    /\ IsAck(p.flags)
    /\ \E t \in Ts : p.ack = SeqAdd(Cookie(c, t), 1)

(***************************************************************************)
(* A container never needs more than two bursts of slots: the polled ones  *)
(* and at most one added per polled packet.  The 30000 arrays and the      *)
(* u_int16_t total of PacketContainer are never exhausted.                 *)
(***************************************************************************)
TwoBurstsSuffice ==
  /\ toInside.total <= 2 * BurstSize
  /\ toOutside.total <= 2 * BurstSize

(***************************************************************************)
(* poll_packets never overwrites a packet that was added but not sent:     *)
(* both containers are empty when either is polled, although the treatment *)
(* of one direction also adds packets to the container of the other.       *)
(***************************************************************************)
PollFindsNothingUnsent ==
  pc \in {"poll_in", "poll_out"} =>
    Buffers(toInside) = {} /\ Buffers(toOutside) = {}

(***************************************************************************)
(* Once the held packets are released the translation of the connection is *)
(* settled: the offset does not change and nothing is queued again, until  *)
(* the entry is erased.                                                    *)
(***************************************************************************)
OffsetSettled ==
  [][\A c \in Conns :
       HasEntry(c) /\ Held(c) = <<>> /\ HasEntry(c)' =>
         Held(c)' = <<>> /\ table'[c].offset = table[c].offset]_vars

------------------------------------------------------------------------------
(* The inductive invariant behind these properties.                        *)

\* Nothing is stored at or beyond the total.
ClearBeyondTotal(k) == \A j \in SlotIndex : j >= k.total => k.slots[j] = Null

\* A burst is arriving in container k.
Receiving(k, other) ==
  /\ other = EmptyContainer
  /\ cursor = 0
  /\ k.total = k.polled /\ k.polled <= BurstSize
  /\ \A j \in SlotIndex : j < k.polled => k.slots[j] # Null

\* The burst in container k is treated: each packet treated so far has
\* added at most one packet to each container, none ahead has been removed.
Treating(k, other) ==
  /\ cursor <= k.polled /\ k.polled <= BurstSize
  /\ k.polled <= k.total /\ k.total <= k.polled + cursor
  /\ other.polled = 0 /\ other.total <= cursor
  /\ \A j \in SlotIndex : cursor <= j /\ j < k.polled => k.slots[j] # Null

LoopInv ==
  /\ ClearBeyondTotal(toInside) /\ ClearBeyondTotal(toOutside)
  /\ pc \in {"poll_in", "poll_out"} =>
       toInside = EmptyContainer /\ toOutside = EmptyContainer
  /\ pc = "receive_in" => Receiving(toInside, toOutside)
  /\ pc = "receive_out" => Receiving(toOutside, toInside)
  /\ pc = "treat_in" => Treating(toInside, toOutside)
  /\ pc = "treat_out" => Treating(toOutside, toInside)
  /\ pc \in {"send_in", "send_out"} => TwoBurstsSuffice

\* Only TCP packets are ever held.
HeldAreTcp ==
  \A c \in Conns : HasEntry(c) =>
    \A i \in 1 .. Len(Held(c)) : Held(c)[i] # Null => buf[Held(c)[i]] \in Packet

IInv == TypeOK /\ LoopInv /\ BufferOwnership /\ HeldAreTcp

------------------------------------------------------------------------------
(* The connection table implements ConnectionLifecycle.                    *)

Kind(f) ==
  CASE IsSynAck(f) -> "SYNACK"
    [] IsSyn(f) -> "SYN"
    [] IsRst(f) -> "RST"
    [] IsFin(f) -> "FIN"
    [] IsAck(f) -> "ACK"
    [] OTHER -> "OTHER"

PhaseOf(e) ==
  CASE e = NoEntry -> "none"
    [] e # NoEntry /\ e.pkt_inf_list = <<>> -> "open"
    [] e # NoEntry /\ e.pkt_inf_list # <<>> ->
         IF e.pkt_inf_list[1] = Null THEN "local" ELSE "pending"

FinsOf(e) ==
  {s \in {"inside", "outside"} :
     /\ e # NoEntry
     /\ \/ s = "outside" /\ e.finseen_to_inside
        \/ s = "inside" /\ e.finseen_to_outside}

SegmentOf(k, side) == [from |-> side, conn |-> Current(k).conn, kind |-> Kind(Flags(k))]

TreatedSegment ==
  IF pc = "treat_in" /\ Tcp(toInside) THEN SegmentOf(toInside, "outside")
  ELSE IF pc = "treat_out" /\ Tcp(toOutside) THEN SegmentOf(toOutside, "inside")
  ELSE Opaque

Lifecycle == INSTANCE ConnectionLifecycle WITH
  NoSegment <- Opaque,
  phase <- [c \in Conns |-> PhaseOf(table[c])],
  fins <- [c \in Conns |-> FinsOf(table[c])],
  segment <- TreatedSegment

ASSUME NoSegmentAssumption == Opaque \notin Lifecycle!Segment

(***************************************************************************)
(* Every behaviour of the worker is, seen through its connection table, a  *)
(* behaviour of ConnectionLifecycle: no order of segments, bursts and      *)
(* connections creates, opens or ends an entry in any other way.           *)
(***************************************************************************)
ImplementsLifecycle == Lifecycle!Spec

==============================================================================
