--------------------------- MODULE MCDefenseThread ---------------------------
(***************************************************************************)
(* Values for the constants of DefenseThread: three timestamps and a hash  *)
(* of one bit, so that a wrong cookie, an expired one and one of another   *)
(* timestamp all exist.  The first connection has one packet of every kind *)
(* the branches tell apart in each direction.  Another one, whose cookies  *)
(* differ from those of the first, has what opens, completes and ends it.  *)
(***************************************************************************)
EXTENDS DefenseThread, TLC

MCTsMod == 3
MCHashMod == 2

First == CHOOSE c \in Conns : TRUE
MCCookieHash ==
  [c \in Conns |-> [t \in 0 .. 2 |-> IF (c = First) <=> (t = 1) THEN 1 ELSE 0]]

Segment(c, f, s, a) == [conn |-> c, flags |-> f, seq |-> s, ack |-> a]

\* Acknowledgements of the first connection: of its cookie of timestamp 0, and
\* of the cookie that the other one has at timestamp 1.
MCFromOutside ==
  {Opaque} \cup
  { Segment(First, {"SYN"}, 0, 0), Segment(First, {"SYN", "ACK"}, 0, 0),
    Segment(First, {"RST"}, 0, 0), Segment(First, {"FIN", "ACK"}, 0, 2),
    Segment(First, {"ACK"}, 0, 1), Segment(First, {"ACK"}, 0, 2) } \cup
  UNION {{Segment(c, {"ACK"}, 0, 2), Segment(c, {"RST"}, 0, 0)} : c \in Conns \ {First}}

MCFromInside ==
  {Opaque} \cup
  { Segment(First, {"SYN"}, 0, 0), Segment(First, {"SYN", "ACK"}, 3, 0),
    Segment(First, {"RST"}, 0, 0), Segment(First, {"FIN", "ACK"}, 4, 0),
    Segment(First, {"ACK"}, 4, 0) } \cup
  {Segment(c, {"SYN", "ACK"}, 3, 0) : c \in Conns \ {First}}

Symmetry == Permutations(Mbufs)

==============================================================================
