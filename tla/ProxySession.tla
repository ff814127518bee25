----------------------------- MODULE ProxySession -----------------------------
(***************************************************************************)
(* One connection through the proxy, end to end: a client outside, a       *)
(* worker of module DefenseThread, a server inside and the networks        *)
(* between them.  The two hosts are ordinary TCP endpoints.  They send one *)
(* unit of data and a FIN each, one segment at a time, and send a segment  *)
(* again when it is not acknowledged.  The outside network loses and       *)
(* duplicates segments; the inside network is reliable, as Treatment       *)
(* assumes when it sends its SYN to the server once only.                  *)
(***************************************************************************)
EXTENDS DefenseThread, FiniteSets, Functions

CONSTANTS
  Conn,       \* the connection
  ClientIss,  \* initial sequence number of the client
  ServerIss,  \* initial sequence number of the server
  MaxEvents   \* bound on lost and duplicated segments and ticks, together

ASSUME SessionAssumption ==
  /\ Conn \in Conns /\ {ClientIss, ServerIss} \subseteq Seqs /\ SeqMod > 6
  /\ MaxEvents \in Nat

VARIABLES
  client, server,           \* the two endpoints
  fromClient, toClient,     \* segments on the outside network
  fromServer, toServer,     \* segments on the inside network
  strays,                   \* copies that the outside network still delays
  events                    \* how many of the bounded events have happened

endpoints == <<client, server>>
channels == <<fromClient, toClient, fromServer, toServer, strays>>
sessionVars == <<vars, endpoints, channels, events>>

------------------------------------------------------------------------------
(* TCP endpoints.  An endpoint numbers what it sends: the SYN is number 0, *)
(* the data 1, the FIN 2.  It has sent the numbers below snd, those below  *)
(* una are acknowledged; rcv and irs are the same for what it receives; st *)
(* is its state as in RFC 793, "reset" once it has given up.               *)

Fresh(st) == [st |-> st, snd |-> 0, una |-> 0, irs |-> 0, rcv |-> 0]

Numbered(e, iss, flags, n) ==
  [conn |-> Conn, flags |-> flags, seq |-> SeqAdd(iss, n),
   ack |-> IF "ACK" \in flags THEN SeqAdd(e.irs, e.rcv) ELSE 0]

Pure(e, iss) == Numbered(e, iss, {"ACK"}, e.snd)
Refusal(p) == [conn |-> Conn, flags |-> {"RST"}, seq |-> p.ack, ack |-> 0]

\* Unit n of the stream, as it is sent the first time and again.
Unit(e, iss, n) ==
  Numbered(e, iss,
    CASE n = 0 -> IF e.st = "syn_sent" THEN {"SYN"} ELSE {"SYN", "ACK"}
      [] n = 1 -> {"PSH", "ACK"}
      [] n = 2 -> {"FIN", "ACK"}, n)

\* The number a segment acknowledges, and the number it carries.
AckNo(p, iss) == SeqSub(p.ack, iss)
SeqNo(p, e) == SeqSub(p.seq, e.irs)

Carries(p) == p.flags \cap {"PSH", "FIN"} # {}
Acknowledges(p, e, iss) == "ACK" \in p.flags /\ AckNo(p, iss) \in 1 .. e.snd

\* What an established endpoint makes of a segment, and when it answers.  One
\* that is reset takes no more part.
Advanced(e, iss, p) ==
  IF ~Acknowledges(p, e, iss)
  THEN [e EXCEPT !.st = IF "RST" \in p.flags /\ SeqNo(p, e) = e.rcv THEN "reset" ELSE @]
  ELSE [e EXCEPT
     !.una = IF AckNo(p, iss) > @ THEN AckNo(p, iss) ELSE @,
     !.rcv = IF Carries(p) /\ SeqNo(p, e) = @ THEN @ + 1 ELSE @]

Answers(e, iss, p) ==
  /\ "RST" \notin p.flags
  /\ Carries(p) \/ "SYN" \in p.flags \/ ~Acknowledges(p, e, iss)

------------------------------------------------------------------------------
(* The client.                                                             *)

Connect ==
  /\ client.st = "closed"
  /\ client' = [client EXCEPT !.st = "syn_sent", !.snd = 1]
  /\ fromClient' = <<Unit(client', ClientIss, 0)>>
  /\ UNCHANGED <<vars, server, toClient, fromServer, toServer, strays, events>>

\* The next unit goes out when all before it are acknowledged.
Ready(e) == e.st = "established" /\ e.una = e.snd /\ e.snd < 3

ClientSends ==
  /\ Ready(client)
  /\ client' = [client EXCEPT !.snd = @ + 1]
  /\ fromClient' = Append(fromClient, Unit(client, ClientIss, client.snd))
  /\ UNCHANGED <<vars, server, toClient, fromServer, toServer, strays, events>>

\* The client takes the first segment of toClient, answers with `answer'.
ClientTakes(e, answer) ==
  /\ client' = e
  /\ toClient' = Tail(toClient)
  /\ fromClient' = fromClient \o answer
  /\ UNCHANGED <<vars, server, fromServer, toServer, strays, events>>

ClientOpens ==
  /\ toClient # <<>> /\ client.st = "syn_sent"
  /\ LET p == Head(toClient)
         e == [client EXCEPT !.st = "established", !.una = 1, !.irs = p.seq, !.rcv = 1] IN
     IF Acknowledges(p, client, ClientIss)
     THEN IF IsSynAck(p.flags)
          THEN ClientTakes(e, <<Pure(e, ClientIss)>>)
          ELSE ClientTakes(client, <<>>)
     ELSE ClientTakes(client, IF IsAck(p.flags) \/ IsSynAck(p.flags)
                              THEN <<Refusal(p)>> ELSE <<>>)

ClientReceives ==
  /\ toClient # <<>> /\ client.st = "established"
  /\ LET p == Head(toClient)  e == Advanced(client, ClientIss, p) IN
     ClientTakes(e, IF Answers(client, ClientIss, p) THEN <<Pure(e, ClientIss)>> ELSE <<>>)

------------------------------------------------------------------------------
(* The server.                                                             *)

ServerSends ==
  /\ Ready(server)
  /\ server' = [server EXCEPT !.snd = @ + 1]
  /\ fromServer' = Append(fromServer, Unit(server, ServerIss, server.snd))
  /\ UNCHANGED <<vars, client, toClient, fromClient, toServer, strays, events>>

ServerTakes(e, answer) ==
  /\ server' = e
  /\ toServer' = Tail(toServer)
  /\ fromServer' = fromServer \o answer
  /\ UNCHANGED <<vars, client, fromClient, toClient, strays, events>>

ServerListens ==
  /\ toServer # <<>> /\ server.st = "listen"
  /\ LET p == Head(toServer)
         e == [st |-> "syn_rcvd", snd |-> 1, una |-> 0, irs |-> p.seq, rcv |-> 1] IN
     IF IsSyn(p.flags) THEN ServerTakes(e, <<Unit(e, ServerIss, 0)>>)
     ELSE ServerTakes(server, IF "RST" \notin p.flags THEN <<Refusal(p)>> ELSE <<>>)

ServerOpens ==
  /\ toServer # <<>> /\ server.st = "syn_rcvd"
  /\ LET p == Head(toServer)
         open == [server EXCEPT !.st = "established", !.una = 1]
         e == Advanced(open, ServerIss, p) IN
     \/ /\ "RST" \in p.flags
        /\ ServerTakes(IF SeqNo(p, server) = 1 THEN Fresh("listen") ELSE server, <<>>)
     \/ /\ "RST" \notin p.flags /\ IsSyn(p.flags)
        /\ ServerTakes(server, <<Unit(server, ServerIss, 0)>>)
     \/ /\ "RST" \notin p.flags /\ ~IsSyn(p.flags) /\ Acknowledges(p, server, ServerIss)
        /\ ServerTakes(e, IF Answers(open, ServerIss, p) THEN <<Pure(e, ServerIss)>> ELSE <<>>)
     \/ /\ "RST" \notin p.flags /\ ~IsSyn(p.flags) /\ ~Acknowledges(p, server, ServerIss)
        /\ ServerTakes(server, <<Refusal(p)>>)

ServerReceives ==
  /\ toServer # <<>> /\ server.st = "established"
  /\ LET p == Head(toServer)  e == Advanced(server, ServerIss, p) IN
     ServerTakes(e, IF Answers(server, ServerIss, p) THEN <<Pure(e, ServerIss)>> ELSE <<>>)

------------------------------------------------------------------------------
(* Retransmission: the timers are long against the way of a segment.       *)

Quiet ==
  /\ fromClient = <<>> /\ toClient = <<>> /\ fromServer = <<>> /\ toServer = <<>>
  /\ toInside = EmptyContainer /\ toOutside = EmptyContainer

Outstanding(e) == e.una < e.snd /\ e.st \in {"syn_sent", "syn_rcvd", "established"}

Again(e, iss) == IF Outstanding(e) THEN <<Unit(e, iss, e.una)>> ELSE <<>>

Timeout ==
  /\ Quiet /\ (Outstanding(client) \/ Outstanding(server))
  /\ fromClient' = Again(client, ClientIss)
  /\ fromServer' = Again(server, ServerIss)
  /\ UNCHANGED <<vars, endpoints, toClient, toServer, strays, events>>

------------------------------------------------------------------------------
(* The outside network.                                                    *)

Happens == events < MaxEvents /\ events' = events + 1

Lose ==
  /\ Happens
  /\ \/ fromClient # <<>> /\ fromClient' = Tail(fromClient) /\ UNCHANGED toClient
     \/ toClient # <<>> /\ toClient' = Tail(toClient) /\ UNCHANGED fromClient
  /\ UNCHANGED <<vars, endpoints, fromServer, toServer, strays>>

\* A second copy of a segment takes a longer way.
Duplicate ==
  /\ Happens
  /\ \/ fromClient # <<>> /\ strays' = strays \cup {<<"fromClient", Head(fromClient)>>}
     \/ toClient # <<>> /\ strays' = strays \cup {<<"toClient", Head(toClient)>>}
  /\ UNCHANGED <<vars, endpoints, fromClient, toClient, fromServer, toServer>>

\* It arrives after what its channel holds has been delivered: behind it in
\* the channel would be the same.
StrayArrives ==
  /\ \E s \in strays :
       /\ strays' = strays \ {s}
       /\ \/ s[1] = "fromClient" /\ fromClient = <<>> /\ fromClient' = <<s[2]>> /\ UNCHANGED toClient
          \/ s[1] = "toClient" /\ toClient = <<>> /\ toClient' = <<s[2]>> /\ UNCHANGED fromClient
  /\ UNCHANGED <<vars, endpoints, fromServer, toServer, events>>

------------------------------------------------------------------------------
(* The worker between the networks.                                        *)

\* Which free buffer the pool hands out does not matter: one is picked.
PicksOne == \A m \in pool \ pool' : m = CHOOSE n \in Mbufs : n \in pool

ProxyReceivesOutside ==
  /\ fromClient # <<>>
  /\ ReceiveOutside(Head(fromClient)) /\ PicksOne
  /\ fromClient' = Tail(fromClient)
  /\ UNCHANGED <<endpoints, toClient, fromServer, toServer, strays, events>>

ProxyReceivesInside ==
  /\ fromServer # <<>>
  /\ ReceiveInside(Head(fromServer)) /\ PicksOne
  /\ fromServer' = Tail(fromServer)
  /\ UNCHANGED <<endpoints, toClient, fromClient, toServer, strays, events>>

\* A burst ends when it is full, nothing else has arrived or no buffer is left.
ProxyBurst ==
  /\ \/ BurstFromOutside /\ (toInside.polled = BurstSize \/ fromClient = <<>> \/ pool = {})
     \/ BurstFromInside /\ (toOutside.polled = BurstSize \/ fromServer = <<>> \/ pool = {})
  /\ UNCHANGED <<endpoints, channels, events>>

\* What a container holds, in the order of its slots.
InOrder(filled) ==
  CHOOSE f \in [1 .. Cardinality(filled) -> filled] :
    \A a, b \in DOMAIN f : a < b => f[a] < f[b]

Contents(k) ==
  LET f == InOrder({j \in SlotIndex : j < k.total /\ k.slots[j] # Null})
  IN  [n \in DOMAIN f |-> buf[k.slots[f[n]]]]

ProxySends ==
  /\ SendAfterInside \/ SendAfterOutside
  /\ toServer' = toServer \o Contents(toInside)
  /\ toClient' = toClient \o Contents(toOutside)
  /\ UNCHANGED <<endpoints, fromClient, fromServer, strays, events>>

ProxyWorks ==
  /\ \/ PollToInside \/ PollToOutside
     \/ TreatInside \/ TreatOutside \/ TreatedInside \/ TreatedOutside
  /\ PicksOne
  /\ UNCHANGED <<endpoints, channels, events>>

\* A handshake takes less than the 64 s between two ticks: it sees at most
\* one.  What an older cookie meets is in module CookieClock.
SessionTick ==
  /\ Happens
  /\ ts = 0
  /\ Tick
  /\ UNCHANGED <<endpoints, channels>>

SessionGone == Gone /\ UNCHANGED <<endpoints, channels, events>>

------------------------------------------------------------------------------

SessionInit ==
  /\ Init
  /\ client = Fresh("closed") /\ server = Fresh("listen")
  /\ fromClient = <<>> /\ toClient = <<>> /\ fromServer = <<>> /\ toServer = <<>>
  /\ strays = {}
  /\ events = 0

Client == Connect \/ ClientSends \/ ClientOpens \/ ClientReceives
Server == ServerSends \/ ServerListens \/ ServerOpens \/ ServerReceives
Proxy == ProxyReceivesOutside \/ ProxyReceivesInside \/ ProxyBurst \/ ProxySends \/ ProxyWorks
Network == Lose \/ Duplicate \/ StrayArrives

SessionNext == Client \/ Server \/ Proxy \/ Network \/ Timeout \/ SessionTick \/ SessionGone

SessionSpec ==
  /\ SessionInit /\ [][SessionNext]_sessionVars
  /\ WF_sessionVars(Client) /\ WF_sessionVars(Server) /\ WF_sessionVars(Proxy)
  /\ WF_sessionVars(Timeout)

------------------------------------------------------------------------------
(* Correctness.                                                            *)

Open == client.st = "established" /\ server.st = "established"
Failed == ~alive \/ client.st = "reset" \/ server.st = "reset"

(***************************************************************************)
(* What one host takes for acknowledged the other has received: between    *)
(* cookie, offset and queue the proxy never acknowledges a byte that is    *)
(* then lost, in spite of losses and duplicates.  The server must have     *)
(* been given the client's initial sequence number: the proxy derives it   *)
(* from the first ACK that returns the cookie, and takes a later one for   *)
(* the first if the client's data got lost on the way (Treatment.hpp:461). *)
(***************************************************************************)
AckedIsReceived ==
  server.irs = ClientIss =>
    /\ client.una <= 1 \/ client.una <= server.rcv
    /\ server.una <= 1 \/ server.una <= client.rcv

(***************************************************************************)
(* While both hosts are connected through an open entry, its offset is the *)
(* difference of the initial sequence numbers the two hosts know: the      *)
(* cookie the client accepted, of several perhaps, and the server's own.   *)
(***************************************************************************)
OffsetMatches ==
  Open /\ HasEntry(Conn) /\ Held(Conn) = <<>> =>
    table[Conn].offset = SeqSub(client.irs, ServerIss)

TreatsRst ==
  \/ pc = "treat_in" /\ Tcp(toInside) /\ IsRst(Flags(toInside))
  \/ pc = "treat_out" /\ Tcp(toOutside) /\ IsRst(Flags(toOutside))

(***************************************************************************)
(* Without an RST the entry stays until both hosts have sent their FIN,    *)
(* whatever ACKs and repeated FINs pass.                                   *)
(***************************************************************************)
EntryLastsUntilBothClose ==
  [][HasEntry(Conn) /\ ~HasEntry(Conn)' =>
       TreatsRst \/ (client.snd = 3 /\ server.snd = 3)]_sessionVars

(***************************************************************************)
(* A SYN leads to a connection of both hosts, although the proxy keeps     *)
(* nothing of it and sends its own SYN to the server only once.            *)
(***************************************************************************)
Establishes == client.st = "syn_sent" ~> Open \/ Failed

(***************************************************************************)
(* What the client sends reaches the server, also when it arrives while    *)
(* the connection to the inside is still being opened and is queued.       *)
(***************************************************************************)
ServerHears == client.snd > 1 ~> server.rcv > 1 \/ Failed

(***************************************************************************)
(* What the server sends reaches the client in the client's numbering.     *)
(***************************************************************************)
ClientHears == server.snd > 1 ~> client.rcv > 1 \/ Failed

(***************************************************************************)
(* If one host closes after it has received the FIN of the other, the      *)
(* entry is erased: no orderly close leaves it in the table.  (A delayed   *)
(* ACK may open a new entry afterwards; the property asks for a moment     *)
(* without one.)                                                           *)
(***************************************************************************)
HalfClosed ==
  \/ server.rcv = 3 /\ server.snd < 3
  \/ client.rcv = 3 /\ client.snd < 3
OrderlyCloseErases == HalfClosed ~> ~HasEntry(Conn) \/ Failed

------------------------------------------------------------------------------
(* The segments on each of the four ways, on a network, in a container or  *)
(* delayed.                                                                *)

\* The slots of the polled burst that are still to be treated.
WaitingInside ==
  IF pc \in {"receive_in", "treat_in"}
  THEN {j \in SlotIndex : cursor <= j /\ j < toInside.polled} ELSE {}
WaitingOutside ==
  IF pc \in {"receive_out", "treat_out"}
  THEN {j \in SlotIndex : cursor <= j /\ j < toOutside.polled} ELSE {}

Written(k, slots) == {buf[k.slots[j]] : j \in {s \in slots : k.slots[s] # Null}}
Strays(way) == {s[2] : s \in {r \in strays : r[1] = way}}

ClientToProxy ==
  Range(fromClient) \cup Strays("fromClient") \cup Written(toInside, WaitingInside)
ProxyToServer == Range(toServer) \cup Written(toInside, SlotIndex \ WaitingInside)
ServerToProxy == Range(fromServer) \cup Written(toOutside, WaitingOutside)
ProxyToClient ==
  Range(toClient) \cup Strays("toClient") \cup Written(toOutside, SlotIndex \ WaitingOutside)

\* The packet that waits, held, for the server to accept the connection.
HeldFirst ==
  IF HasEntry(Conn) /\ Held(Conn) # <<>> /\ Held(Conn)[1] # Null
  THEN {buf[Held(Conn)[1]]} ELSE {}

------------------------------------------------------------------------------
(* The inductive invariant behind EntryLastsUntilBothClose.                *)

Segment == {p \in Packet : p.conn = Conn}
Endpoint(states) == [st : states, snd : 0 .. 3, una : 0 .. 3, irs : Seqs, rcv : Nat]

\* The types of the variables; no other packet is anywhere in the worker.
SessionTypeOK ==
  /\ client \in Endpoint({"closed", "syn_sent", "established", "reset"})
  /\ server \in Endpoint({"listen", "syn_rcvd", "established", "reset"})
  /\ {fromClient, toClient, fromServer, toServer} \subseteq Seq(Segment)
  /\ strays \subseteq {"fromClient", "toClient"} \X Segment
  /\ events \in 0 .. MaxEvents
  /\ Written(toInside, SlotIndex) \cup Written(toOutside, SlotIndex) \cup HeldFirst
       \subseteq Segment

\* A FIN on its way, or seen by the entry, has been sent by a host that has
\* sent everything, and no host takes that back.
FinInv ==
  /\ client.st \in {"closed", "syn_sent"} => client.snd <= 1
  /\ server.st \in {"listen", "syn_rcvd"} => server.snd <= 1
  /\ \A p \in ClientToProxy : "FIN" \in p.flags => client.snd = 3
  /\ \A p \in ServerToProxy : "FIN" \in p.flags => server.snd = 3
  /\ HasEntry(Conn) =>
       /\ table[Conn].finseen_to_inside => client.snd = 3
       /\ table[Conn].finseen_to_outside => server.snd = 3

CloseInv == IInv /\ SessionTypeOK /\ FinInv

------------------------------------------------------------------------------
(* The inductive invariant behind AckedIsReceived and OffsetMatches.       *)

\* One tick at most: the cookies the session sends and those it accepts.
SessionTs == {0, TsNext(0)}
Issued == {Cookie(Conn, t) : t \in SessionTs}
Accepted == Issued \cup {Cookie(Conn, TsPrev(0))}

(***************************************************************************)
(* The numbers that the hosts and the proxy draw independently are no near *)
(* neighbours: a cookie and the initial number of a host differ by more    *)
(* than two, and no cookie is one or two above another one.                *)
(***************************************************************************)
NumbersApart ==
  /\ \A a \in Issued, iss \in {ClientIss, ServerIss} :
       SeqSub(a, iss) \notin 0 .. 2 /\ SeqSub(iss, a) \notin 0 .. 2
  /\ \A a \in Issued, b \in Accepted : SeqSub(b, a) \notin 1 .. 2

\* Number n of each direction, as its sender and as its receiver count.
FromClientNo(n) == SeqAdd(ClientIss, n)
FromServerNo(n) == SeqAdd(ServerIss, n)
AsClientSees(n) == SeqAdd(client.irs, n)
AsServerSees(n) == SeqAdd(server.irs, n)

Acks == {{"ACK"}, {"PSH", "ACK"}, {"FIN", "ACK"}}
SynAck == {"SYN", "ACK"}

SentByClient(p) ==
  \/ p.flags = {"SYN"} /\ p.seq = ClientIss
  \/ /\ p.flags \in Acks
     /\ \E k \in 1 .. client.rcv : p.ack = AsClientSees(k)
     /\ \E n \in 1 .. 3 : p.seq = FromClientNo(n)
     /\ "PSH" \in p.flags => p.seq = FromClientNo(1)
     /\ "FIN" \in p.flags => p.seq = FromClientNo(2)

ForServer(p) ==
  /\ client.rcv > 0
  /\ \/ p.flags = {"SYN"} /\ \E n \in 0 .. 2 : p.seq = FromClientNo(n)
     \/ p.flags = {"RST"} /\ \E k \in 1 .. client.rcv : p.seq = AsClientSees(k)
     \/ /\ p.flags \in Acks
        /\ \E k \in 1 .. client.rcv : p.ack \in {FromServerNo(k), AsClientSees(k)}
        /\ "PSH" \in p.flags => p.seq = FromClientNo(1)
        /\ "FIN" \in p.flags => p.seq = FromClientNo(2)

SentByServer(p) ==
  /\ client.rcv > 0
  /\ \/ p.flags = {"RST"}
     \/ /\ p.flags \in Acks \cup {SynAck}
        /\ \E k \in 1 .. server.rcv : p.ack = AsServerSees(k)
        /\ "SYN" \in p.flags => p.seq = ServerIss
        /\ "PSH" \in p.flags => p.seq = FromServerNo(1)
        /\ "FIN" \in p.flags => p.seq = FromServerNo(2)

ForClient(p) ==
  \/ p.flags = SynAck /\ p.seq \in Issued /\ p.ack = FromClientNo(1)
  \/ /\ client.rcv > 0
     /\ \/ p.flags = {"RST"}
        \/ /\ p.flags \in Acks \cup {SynAck}
           /\ \E k \in 1 .. server.rcv : p.ack = AsServerSees(k)
           /\ Carries(p) => \E n \in 1 .. 2 : p.seq \in {FromServerNo(n), AsClientSees(n)}

SegmentsInv ==
  /\ \A p \in ClientToProxy : SentByClient(p)
  /\ \A p \in ProxyToServer : ForServer(p)
  /\ \A p \in ServerToProxy : SentByServer(p)
  /\ \A p \in ProxyToClient : ForClient(p)

ClientInv ==
  /\ client.st = "closed" => client = Fresh("closed")
  /\ client.st = "syn_sent" => client = [Fresh("syn_sent") EXCEPT !.snd = 1]
  /\ client.st \in {"established", "reset"} =>
       /\ client.irs \in Issued /\ client.rcv \in 1 .. 3
       /\ client.snd \in 1 .. 3 /\ client.una \in 1 .. client.snd

ServerInv ==
  /\ server.st = "listen" => server = Fresh("listen")
  /\ server.st # "listen" =>
       /\ client.rcv > 0
       /\ \E n \in 0 .. 2 : server.irs = FromClientNo(n)
       /\ server.rcv \in 1 .. 3 /\ server.snd \in 1 .. 3
  /\ server.st = "syn_rcvd" => server.snd = 1 /\ server.una = 0 /\ server.rcv = 1

\* An open entry has the offset, one that waits for the server has none and
\* holds an ACK with nothing but the cookie.
EntryInv ==
  HasEntry(Conn) =>
    /\ client.rcv > 0
    /\ Held(Conn) = <<>> => table[Conn].offset = SeqSub(client.irs, ServerIss)
    /\ Held(Conn) # <<>> => table[Conn].offset = 0
    /\ \A p \in HeldFirst : SentByClient(p) /\ IsAck(p.flags) /\ p.ack = AsClientSees(1)

AckedInv ==
  /\ client.una <= 1 \/ \E k \in 1 .. server.rcv : FromClientNo(client.una) = AsServerSees(k)
  /\ server.una <= 1 \/ server.una <= client.rcv

SessionInv ==
  /\ CloseInv /\ ts \in SessionTs
  /\ ClientInv /\ ServerInv /\ SegmentsInv /\ EntryInv /\ AckedInv

==============================================================================
