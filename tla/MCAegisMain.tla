----------------------------- MODULE MCAegisMain -----------------------------
(***************************************************************************)
(* Numbers of threads below, at and above the bounds, and two that become  *)
(* valid as 16-bit numbers.                                                *)
(***************************************************************************)
EXTENDS AegisMain

MCNumbers == {-65535, -1, 0, 1, 2, 3, 65538}

==============================================================================
