---------------------------- MODULE MCInspection ----------------------------
(***************************************************************************)
(* Values for Inspection: thresholds at the edges of the division, windows *)
(* on both sides of the smallest one allowed, weights that differ, and     *)
(* durations whose product with the frequency wraps around, also to zero.  *)
(* The weights of the claim are all one, as in Inspection_test.cpp.        *)
(***************************************************************************)
EXTENDS Inspection

MCWeights == [a \in Attacks |-> IF a = "SYNFIN" THEN 2 ELSE 1]
MCEqualWeights == [a \in Attacks |-> 1]

==============================================================================
