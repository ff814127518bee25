------------------------- MODULE ConnectionLifecycle -------------------------
(***************************************************************************)
(* What the connection table of Treatment promises for each connection,    *)
(* without buffers, containers, bursts, cookies or sequence numbers: which *)
(* segments may create, advance and end the entry of a connection.         *)
(*                                                                         *)
(* A connection is "none" without an entry; "pending" while the ACK that   *)
(* returned a cookie is held and the internal host has not answered;       *)
(* "open" once the held packets are released; "local" if the entry was     *)
(* made for a segment of a connection the proxy did not open.              *)
(***************************************************************************)

CONSTANTS
  Conns,     \* the connections
  NoSegment  \* no TCP segment is being treated

Sides == {"inside", "outside"}
Kinds == {"SYNACK", "SYN", "RST", "FIN", "ACK", "OTHER"}

\* A segment: who sent it, for which connection, of which kind.
Segment == [from : Sides, conn : Conns, kind : Kinds]

VARIABLES
  phase,    \* phase of each connection
  fins,     \* which sides have sent a FIN through the proxy
  segment   \* the segment under treatment: an input

lifecycleVars == <<phase, fins, segment>>

Init ==
  /\ phase = [c \in Conns |-> "none"]
  /\ fins = [c \in Conns |-> {}]
  /\ segment = NoSegment

Treats(c, sides, kind) ==
  segment # NoSegment /\ segment.conn = c /\ segment.from \in sides /\ segment.kind = kind

Become(c, p, f) ==
  /\ phase' = [phase EXCEPT ![c] = p]
  /\ fins' = [fins EXCEPT ![c] = f]

\* An ACK from outside admits an unknown connection.
Admit(c) ==
  /\ Treats(c, {"outside"}, "ACK")
  /\ phase[c] = "none"
  /\ Become(c, "pending", {})

\* A SYN-ACK from outside or an ACK from inside makes an unknown one known.
Learn(c) ==
  /\ Treats(c, {"outside"}, "SYNACK") \/ Treats(c, {"inside"}, "ACK")
  /\ phase[c] = "none"
  /\ Become(c, "local", {})

\* Only the SYN-ACK of the internal host opens, and only what is pending.
Establish(c) ==
  /\ Treats(c, {"inside"}, "SYNACK")
  /\ phase[c] = "pending"
  /\ Become(c, "open", fins[c])

\* A FIN is never forgotten.
Finish(c) ==
  /\ phase[c] # "none"
  /\ \E s \in Sides :
       Treats(c, {s}, "FIN") /\ Become(c, phase[c], fins[c] \cup {s})

\* Only after a FIN from each side does an ACK end the connection.
Close(c) ==
  /\ Treats(c, Sides, "ACK")
  /\ phase[c] # "none" /\ fins[c] = Sides
  /\ Become(c, "none", {})

Abort(c) ==
  /\ Treats(c, Sides, "RST")
  /\ phase[c] # "none"
  /\ Become(c, "none", {})

\* Segments come in any order; treating one need not change anything.
Next ==
  /\ segment' \in Segment \cup {NoSegment}
  /\ \/ UNCHANGED <<phase, fins>>
     \/ \E c \in Conns :
          Admit(c) \/ Learn(c) \/ Establish(c) \/ Finish(c) \/ Close(c) \/ Abort(c)

Spec == Init /\ [][Next]_lifecycleVars

==============================================================================
