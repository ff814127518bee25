--------------------------- MODULE MCProxySession ---------------------------
(***************************************************************************)
(* Values for ProxySession.  Sequence numbers have four bits, and no       *)
(* cookie is the successor of another one, so that only the handshake and  *)
(* what acknowledges no data return a valid cookie.                        *)
(***************************************************************************)
EXTENDS ProxySession

MCCookieHash == [c \in Conns |-> [t \in Ts |-> CASE t = 1 -> 2 [] t = 3 -> 1 [] OTHER -> 0]]
MCNothing == {}

ASSUME ApartAssumption == NumbersApart

==============================================================================
