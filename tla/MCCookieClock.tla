---------------------------- MODULE MCCookieClock ----------------------------
(***************************************************************************)
(* Two workers and four timestamps.  The hash of a connection differs      *)
(* between neighbouring timestamps, so that a torn cookie is visible.      *)
(***************************************************************************)
EXTENDS CookieClock, TLC

MCTsMod == 4
MCHashMod == 2
MCCookieHash == [c \in Conns |-> [t \in 0 .. 3 |-> t % 2]]

Symmetry == Permutations(Workers)

==============================================================================
