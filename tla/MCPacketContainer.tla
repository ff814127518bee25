-------------------------- MODULE MCPacketContainer --------------------------
(***************************************************************************)
(* PacketContainer with two arrays of two: a second array is needed, and a *)
(* reordering can leave a gap in either.  The buffers are interchangeable. *)
(***************************************************************************)
EXTENDS PacketContainer, TLC

Symmetry == Permutations(Mbufs)

==============================================================================
