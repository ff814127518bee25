------------------------------ MODULE Treatment ------------------------------
(***************************************************************************)
(* The class Treatment of include/Treatment/Treatment.hpp: the TCP proxy   *)
(* that answers SYNs from outside with SYN cookies, opens the connection   *)
(* to the internal host once the cookie has come back, and from then on    *)
(* translates sequence and acknowledgement numbers.                        *)
(*                                                                         *)
(* The state is the connection table _densemap, the two packet containers  *)
(* of the worker thread, the buffers (mbufs) of the memory pool and the    *)
(* timestamp.  Packets are handled through pointers to their buffers, as   *)
(* in the code: a slot of a container and an element of _pkt_inf_list each *)
(* name a buffer, and buf holds what is written in it.  Every action below *)
(* treats the packet at loop index `cursor', one action per branch of the  *)
(* two functions treat_packets_to_inside and treat_packets_to_outside.     *)
(***************************************************************************)
EXTENDS SynCookie, SlotContainer, Sequences

CONSTANTS
  NoEntry,  \* the connection has no entry in _densemap
  Opaque    \* a packet that is not IPv4/TCP: never treated

VARIABLES
  ts,         \* _s_timestamp, shared by all threads and incremented by main
  table,      \* _densemap of this worker's Treatment
  buf,        \* what is written in each buffer
  pool,       \* the free buffers of _mempool
  toInside,   \* container of the packets for the internal network
  toOutside,  \* container of the packets for the external network
  cursor,     \* loop index i of the treatment in progress
  alive       \* FALSE once a null pointer has been dereferenced

treatVars == <<ts, table, buf, pool, toInside, toOutside, cursor, alive>>

------------------------------------------------------------------------------
(* Packets.                                                                *)

\* The flags the chain below tests, and one it does not: data carries it.
FlagBits == {"SYN", "ACK", "FIN", "RST", "PSH"}

Packet == [conn : Conns, flags : SUBSET FlagBits, seq : Seqs, ack : Seqs]

ASSUME OpaqueAssumption == Opaque \notin Packet

\* The conditions of the if-else chain both functions walk through.
IsSynAck(f) == {"SYN", "ACK"} \subseteq f
IsSyn(f) == "SYN" \in f /\ ~IsSynAck(f)
IsRst(f) == "RST" \in f /\ "SYN" \notin f
IsFin(f) == "FIN" \in f /\ f \cap {"SYN", "RST"} = {}
IsAck(f) == "ACK" \in f /\ f \cap {"SYN", "RST", "FIN"} = {}

------------------------------------------------------------------------------
(* Entries of the connection table: class Info.                            *)

Info == [offset : Seqs,
         finseen_to_inside : BOOLEAN, finseen_to_outside : BOOLEAN,
         ack_to_inside_expected : BOOLEAN, ack_to_outside_expected : BOOLEAN,
         pkt_inf_list : Seq(Mbufs \cup {Null})]

ASSUME NoEntryAssumption == NoEntry \notin Info

\* The constructor pushes its last argument, nullptr included.
NewInfo(pkt_inf) ==
  [offset |-> 0,
   finseen_to_inside |-> FALSE, finseen_to_outside |-> FALSE,
   ack_to_inside_expected |-> FALSE, ack_to_outside_expected |-> FALSE,
   pkt_inf_list |-> <<pkt_inf>>]

HasEntry(c) == table[c] # NoEntry

\* Mutations: insert that overwrites, erase that clears the whole map.
InsertOverwriting(c, info) == [table EXCEPT ![c] = info]
EraseAll(c) == [d \in Conns |-> NoEntry]

\* dense_hash_map::insert leaves an entry that is already there alone.
Insert(c, info) == [table EXCEPT ![c] = IF HasEntry(c) THEN @ ELSE info]
Erase(c) == [table EXCEPT ![c] = NoEntry]

\* Mutations: an offset one too high; a queue that is not cleared.
ReleasedOffByOne(e, off) == [e EXCEPT !.offset = SeqAdd(off, 1), !.pkt_inf_list = <<>>]
ReleasedUncleared(e, off) == [e EXCEPT !.offset = off]

\* A packet joins the queue; the queue is released and the offset known.
Queued(e, m) == [e EXCEPT !.pkt_inf_list = Append(@, m)]
Released(e, off) == [e EXCEPT !.offset = off, !.pkt_inf_list = <<>>]

\* Mutations: a flag forgotten; the FIN of the other direction not required.
FinAnsweredInsideForgetful(e) == [e EXCEPT !.finseen_to_inside = TRUE]
AckEndsConnectionEarly(e) == e.finseen_to_inside /\ e.ack_to_inside_expected = e.finseen_to_outside

\* A FIN that answers the one of the other side makes an ACK expected.
FinAnsweredInside(e) ==
  [e EXCEPT !.finseen_to_inside = TRUE, !.ack_to_outside_expected = TRUE]
FinAnsweredOutside(e) ==
  [e EXCEPT !.finseen_to_outside = TRUE, !.ack_to_inside_expected = TRUE]

\* That ACK ends the connection.
AckEndsConnection(e) ==
  e.finseen_to_inside /\ e.finseen_to_outside /\ e.ack_to_inside_expected
AckFromInsideEndsConnection(e) ==
  e.finseen_to_inside /\ e.finseen_to_outside /\ e.ack_to_outside_expected

------------------------------------------------------------------------------
(* The loop body common to all branches.                                   *)

\* The packet under treatment: its buffer, its content, its table entry.
Slot(k) == k.slots[cursor]
Current(k) == buf[Slot(k)]
Entry(k) == table[Current(k).conn]

\* The loop has a packet to treat, and that packet is IPv4/TCP.
Pending(k) == alive /\ cursor < k.polled
Tcp(k) == Pending(k) /\ Current(k) # Opaque

Flags(k) == Current(k).flags
Known(k) == HasEntry(Current(k).conn)

NextPacket == cursor' = cursor + 1 /\ UNCHANGED <<ts, alive>>

\* A null pointer is dereferenced: the process is gone.
Crash ==
  /\ alive' = FALSE
  /\ UNCHANGED <<ts, table, buf, pool, toInside, toOutside, cursor>>

\* The packet stays in its slot, as it came or rewritten to p.
LeaveInPlace == UNCHANGED <<buf, pool, toInside, toOutside>>

Rewrite(k, p) ==
  /\ buf' = [buf EXCEPT ![Slot(k)] = p]
  /\ UNCHANGED <<pool, toInside, toOutside>>

\* Mutations: an acknowledgement one too high; a sequence number left as it is.
RewriteAckTooHigh == Rewrite(toInside,
  [Current(toInside) EXCEPT !.ack = SeqAdd(SeqSub(@, Entry(toInside).offset), 1)])
RewriteSeqNot == LeaveInPlace

\* The acknowledgement number of a packet to inside loses the offset, the
\* sequence number of a packet to outside gains it.
RewriteAck == Rewrite(toInside,
  [Current(toInside) EXCEPT !.ack = SeqSub(@, Entry(toInside).offset)])
RewriteSeq == Rewrite(toOutside,
  [Current(toOutside) EXCEPT !.seq = SeqAdd(@, Entry(toOutside).offset)])

\* drop_packet frees the buffer; the content of a free buffer is Opaque.
DropInside ==
  /\ toInside' = Vacated(toInside, cursor)
  /\ pool' = pool \cup {Slot(toInside)}
  /\ buf' = [buf EXCEPT ![Slot(toInside)] = Opaque]
  /\ UNCHANGED toOutside

DropOutside ==
  /\ toOutside' = Vacated(toOutside, cursor)
  /\ pool' = pool \cup {Slot(toOutside)}
  /\ buf' = [buf EXCEPT ![Slot(toOutside)] = Opaque]
  /\ UNCHANGED toInside

------------------------------------------------------------------------------
(* treat_packets_to_inside: the branches for a packet from outside.        *)

\* A SYN-ACK answers a SYN of an internal host: remember the connection.
InSynAck ==
  /\ Tcp(toInside) /\ IsSynAck(Flags(toInside))
  /\ table' = Insert(Current(toInside).conn, NewInfo(Null))
  /\ LeaveInPlace
  /\ NextPacket

\* A SYN is answered with a cookie and forgotten.
InSyn ==
  /\ Tcp(toInside) /\ IsSyn(Flags(toInside))
  /\ \E m \in pool :
       LET p == Current(toInside) IN
       /\ buf' = [buf EXCEPT
            ![m] = [conn |-> p.conn, flags |-> {"SYN", "ACK"},
                    seq |-> Cookie(p.conn, ts), ack |-> SeqAdd(p.seq, 1)],
            ![Slot(toInside)] = Opaque]
       /\ pool' = (pool \ {m}) \cup {Slot(toInside)}
       /\ toOutside' = Added(toOutside, m)
       /\ toInside' = Vacated(toInside, cursor)
  /\ UNCHANGED table
  /\ NextPacket

\* An RST erases the entry, and with it the pointers to held packets.
InRst ==
  /\ Tcp(toInside) /\ IsRst(Flags(toInside))
  /\ table' = Erase(Current(toInside).conn)
  /\ LeaveInPlace
  /\ NextPacket

InFinUnknown ==
  /\ Tcp(toInside) /\ IsFin(Flags(toInside)) /\ ~Known(toInside)
  /\ DropInside
  /\ UNCHANGED table
  /\ NextPacket

\* The internal host has sent its FIN before: this one answers it.
InFinAnswer ==
  /\ Tcp(toInside) /\ IsFin(Flags(toInside)) /\ Known(toInside)
  /\ Entry(toInside).finseen_to_outside
  /\ table' = [table EXCEPT ![Current(toInside).conn] = FinAnsweredInside(@)]
  /\ RewriteAck
  /\ NextPacket

InFinFirst ==
  /\ Tcp(toInside) /\ IsFin(Flags(toInside)) /\ Known(toInside)
  /\ ~Entry(toInside).finseen_to_outside
  /\ ~Entry(toInside).finseen_to_inside
  /\ table' = [table EXCEPT ![Current(toInside).conn] =
       [@ EXCEPT !.finseen_to_inside = TRUE]]
  /\ RewriteAck
  /\ NextPacket

\* A FIN seen before and not answered yet matches no branch.
InFinRepeated ==
  /\ Tcp(toInside) /\ IsFin(Flags(toInside)) /\ Known(toInside)
  /\ ~Entry(toInside).finseen_to_outside
  /\ Entry(toInside).finseen_to_inside
  /\ UNCHANGED table
  /\ LeaveInPlace
  /\ NextPacket

CookieReturned(k) ==
  check_syn_cookie(SeqSub(Current(k).ack, 1), Current(k).conn, ts)

\* The cookie is good: hold the ACK, open the connection to the inside.
InAckLegit ==
  /\ Tcp(toInside) /\ IsAck(Flags(toInside)) /\ ~Known(toInside)
  /\ CookieReturned(toInside)
  /\ \E m \in pool :
       LET p == Current(toInside) IN
       /\ buf' = [buf EXCEPT ![m] =
            [conn |-> p.conn, flags |-> {"SYN"},
             seq |-> SeqSub(p.seq, 1), ack |-> 123 % SeqMod]]
       /\ pool' = pool \ {m}
       /\ toInside' = Vacated(Added(toInside, m), cursor)
       /\ table' = Insert(p.conn, NewInfo(Slot(toInside)))
  /\ UNCHANGED toOutside
  /\ NextPacket

\* Mutation: the RST is counted again after get_empty_packet counted it.
InAckRefusedCountedTwice ==
  /\ Tcp(toInside) /\ IsAck(Flags(toInside)) /\ ~Known(toInside)
  /\ ~CookieReturned(toInside)
  /\ \E m \in pool :
       LET p == Current(toInside) IN
       /\ buf' = [buf EXCEPT
            ![m] = [conn |-> p.conn, flags |-> {"RST"}, seq |-> p.ack, ack |-> 0],
            ![Slot(toInside)] = Opaque]
       /\ pool' = (pool \ {m}) \cup {Slot(toInside)}
       /\ toInside' = Vacated([Added(toInside, m) EXCEPT !.total = @ + 1], cursor)
  /\ UNCHANGED <<table, toOutside>>
  /\ NextPacket

\* The cookie is bad: the RST goes into the container to the inside.
InAckRefused ==
  /\ Tcp(toInside) /\ IsAck(Flags(toInside)) /\ ~Known(toInside)
  /\ ~CookieReturned(toInside)
  /\ \E m \in pool :
       LET p == Current(toInside) IN
       /\ buf' = [buf EXCEPT
            ![m] = [conn |-> p.conn, flags |-> {"RST"}, seq |-> p.ack, ack |-> 0],
            ![Slot(toInside)] = Opaque]
       /\ pool' = (pool \ {m}) \cup {Slot(toInside)}
       /\ toInside' = Vacated(Added(toInside, m), cursor)
  /\ UNCHANGED <<table, toOutside>>
  /\ NextPacket

InAckLast ==
  /\ Tcp(toInside) /\ IsAck(Flags(toInside)) /\ Known(toInside)
  /\ AckEndsConnection(Entry(toInside))
  /\ table' = Erase(Current(toInside).conn)
  /\ RewriteAck
  /\ NextPacket

\* The SYN-ACK of the internal host is still missing: queue the packet.
InAckEarly ==
  /\ Tcp(toInside) /\ IsAck(Flags(toInside)) /\ Known(toInside)
  /\ ~AckEndsConnection(Entry(toInside))
  /\ Entry(toInside).pkt_inf_list # <<>>
  /\ table' = [table EXCEPT ![Current(toInside).conn] = Queued(@, Slot(toInside))]
  /\ toInside' = Vacated(toInside, cursor)
  /\ UNCHANGED <<buf, pool, toOutside>>
  /\ NextPacket

InAckRegular ==
  /\ Tcp(toInside) /\ IsAck(Flags(toInside)) /\ Known(toInside)
  /\ ~AckEndsConnection(Entry(toInside))
  /\ Entry(toInside).pkt_inf_list = <<>>
  /\ UNCHANGED table
  /\ RewriteAck
  /\ NextPacket

\* UDP, ICMP, IPv6 ..., and TCP without any of the four flags.
Untreated(k) ==
  /\ Pending(k)
  /\ Current(k) # Opaque => Flags(k) \subseteq {"PSH"}
  /\ UNCHANGED table
  /\ LeaveInPlace
  /\ NextPacket

InUntreated == Untreated(toInside)

\* rte_pktmbuf_alloc returns nullptr and create_pkt_info dereferences it.
InOutOfBuffers ==
  /\ Tcp(toInside)
  /\ \/ IsSyn(Flags(toInside))
     \/ IsAck(Flags(toInside)) /\ ~Known(toInside)
  /\ pool = {}
  /\ Crash

------------------------------------------------------------------------------
(* treat_packets_to_outside: the branches for a packet from inside.        *)

OutSynAckUnknown ==
  /\ Tcp(toOutside) /\ IsSynAck(Flags(toOutside)) /\ ~Known(toOutside)
  /\ DropOutside
  /\ UNCHANGED table
  /\ NextPacket

(***************************************************************************)
(* The internal host has accepted the connection.  The first held packet   *)
(* fixes the offset and goes to the internal host; the others are          *)
(* rewritten, but the loop adds them to no container.  The list is         *)
(* cleared, and the SYN-ACK itself stays in its slot.                      *)
(***************************************************************************)
OutSynAckRelease ==
  LET p    == Current(toOutside)
      held == Entry(toOutside).pkt_inf_list
      off  == SeqSub(SeqSub(buf[held[1]].ack, p.seq), 1)
      late == {held[k] : k \in 2 .. Len(held)} IN
  /\ Tcp(toOutside) /\ IsSynAck(Flags(toOutside)) /\ Known(toOutside)
  /\ held # <<>>
  /\ held[1] # Null
  /\ buf' = [m \in Mbufs |->
       CASE m = held[1] -> [buf[m] EXCEPT !.ack = SeqAdd(p.seq, 1)]
         [] m \in late -> [buf[m] EXCEPT !.ack = SeqSub(@, off)]
         [] OTHER -> buf[m]]
  /\ toInside' = Added(toInside, held[1])
  /\ table' = [table EXCEPT ![p.conn] = Released(@, off)]
  /\ UNCHANGED <<pool, toOutside>>
  /\ NextPacket

\* The list of an entry made for a connection from inside holds nullptr.
OutSynAckNullHeld ==
  /\ Tcp(toOutside) /\ IsSynAck(Flags(toOutside)) /\ Known(toOutside)
  /\ Entry(toOutside).pkt_inf_list # <<>>
  /\ Entry(toOutside).pkt_inf_list[1] = Null
  /\ Crash

\* "No element in the list": a repeated SYN-ACK.
OutSynAckRepeated ==
  /\ Tcp(toOutside) /\ IsSynAck(Flags(toOutside)) /\ Known(toOutside)
  /\ Entry(toOutside).pkt_inf_list = <<>>
  /\ UNCHANGED table
  /\ LeaveInPlace
  /\ NextPacket

OutSyn ==
  /\ Tcp(toOutside) /\ IsSyn(Flags(toOutside))
  /\ UNCHANGED table
  /\ LeaveInPlace
  /\ NextPacket

OutRstUnknown ==
  /\ Tcp(toOutside) /\ IsRst(Flags(toOutside)) /\ ~Known(toOutside)
  /\ DropOutside
  /\ UNCHANGED table
  /\ NextPacket

OutRst ==
  /\ Tcp(toOutside) /\ IsRst(Flags(toOutside)) /\ Known(toOutside)
  /\ table' = Erase(Current(toOutside).conn)
  /\ RewriteSeq
  /\ NextPacket

OutFinUnknown ==
  /\ Tcp(toOutside) /\ IsFin(Flags(toOutside)) /\ ~Known(toOutside)
  /\ DropOutside
  /\ UNCHANGED table
  /\ NextPacket

\* The external host has sent its FIN before: this one answers it.
OutFinAnswer ==
  /\ Tcp(toOutside) /\ IsFin(Flags(toOutside)) /\ Known(toOutside)
  /\ Entry(toOutside).finseen_to_inside
  /\ table' = [table EXCEPT ![Current(toOutside).conn] = FinAnsweredOutside(@)]
  /\ RewriteSeq
  /\ NextPacket

OutFinFirst ==
  /\ Tcp(toOutside) /\ IsFin(Flags(toOutside)) /\ Known(toOutside)
  /\ ~Entry(toOutside).finseen_to_inside
  /\ ~Entry(toOutside).finseen_to_outside
  /\ table' = [table EXCEPT ![Current(toOutside).conn] =
       [@ EXCEPT !.finseen_to_outside = TRUE]]
  /\ RewriteSeq
  /\ NextPacket

OutFinRepeated ==
  /\ Tcp(toOutside) /\ IsFin(Flags(toOutside)) /\ Known(toOutside)
  /\ ~Entry(toOutside).finseen_to_inside
  /\ Entry(toOutside).finseen_to_outside
  /\ UNCHANGED table
  /\ LeaveInPlace
  /\ NextPacket

\* An ACK of a connection the table does not know makes an entry for it.
OutAckNew ==
  /\ Tcp(toOutside) /\ IsAck(Flags(toOutside)) /\ ~Known(toOutside)
  /\ table' = Insert(Current(toOutside).conn, NewInfo(Null))
  /\ LeaveInPlace
  /\ NextPacket

OutAckLast ==
  /\ Tcp(toOutside) /\ IsAck(Flags(toOutside)) /\ Known(toOutside)
  /\ AckFromInsideEndsConnection(Entry(toOutside))
  /\ table' = Erase(Current(toOutside).conn)
  /\ RewriteSeq
  /\ NextPacket

OutAckRegular ==
  /\ Tcp(toOutside) /\ IsAck(Flags(toOutside)) /\ Known(toOutside)
  /\ ~AckFromInsideEndsConnection(Entry(toOutside))
  /\ UNCHANGED table
  /\ RewriteSeq
  /\ NextPacket

OutUntreated == Untreated(toOutside)

------------------------------------------------------------------------------
(* The two functions and the clock.                                        *)

TreatToInside ==
  \/ InSynAck \/ InSyn \/ InRst
  \/ InFinUnknown \/ InFinAnswer \/ InFinFirst \/ InFinRepeated
  \/ InAckLegit \/ InAckRefused \/ InAckLast \/ InAckEarly \/ InAckRegular
  \/ InUntreated \/ InOutOfBuffers

TreatToOutside ==
  \/ OutSynAckUnknown \/ OutSynAckRelease \/ OutSynAckNullHeld
  \/ OutSynAckRepeated \/ OutSyn \/ OutRstUnknown \/ OutRst
  \/ OutFinUnknown \/ OutFinAnswer \/ OutFinFirst \/ OutFinRepeated
  \/ OutAckNew \/ OutAckLast \/ OutAckRegular \/ OutUntreated

\* s_increment_timestamp, called by main every 64 seconds.
s_increment_timestamp ==
  /\ alive
  /\ ts' = TsNext(ts)
  /\ UNCHANGED <<table, buf, pool, toInside, toOutside, cursor, alive>>

TreatmentInit ==
  /\ ts = 0
  /\ table = [c \in Conns |-> NoEntry]
  /\ buf = [m \in Mbufs |-> Opaque]
  /\ pool = Mbufs
  /\ toInside = EmptyContainer
  /\ toOutside = EmptyContainer
  /\ cursor = 0
  /\ alive = TRUE

==============================================================================
