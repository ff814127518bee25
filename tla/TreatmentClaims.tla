--------------------------- MODULE TreatmentClaims ---------------------------
(***************************************************************************)
(* What comments of the code say of the treatment where the code does      *)
(* something else.  Each claim is checked by a run of its own, which       *)
(* finds the behaviour that refutes it.                                    *)
(***************************************************************************)
EXTENDS MCDefenseThread

\* The step treats the SYN-ACK a connection with held packets waits for.
Releases ==
  /\ pc = "treat_out" /\ Tcp(toOutside) /\ cursor' = cursor + 1
  /\ IsSynAck(Flags(toOutside)) /\ Known(toOutside)
  /\ PhaseOf(Entry(toOutside)) = "pending"

(***************************************************************************)
(* Treatment.hpp:522: a packet that arrives while "the connection from     *)
(* inside is not fully established yet" is put into the queue.  When the   *)
(* SYN-ACK of the internal host comes, what is in the queue is to be sent  *)
(* on; the loop of OutSynAckRelease adds only its first element.           *)
(***************************************************************************)
QueueIsReleased ==
  [][Releases =>
       LET list == Entry(toOutside).pkt_inf_list IN
       \A k \in 1 .. Len(list) : list[k] \in Buffers(toInside)']_vars

(***************************************************************************)
(* Treatment.hpp:598: the lookup is there "to catch the case, that no ack  *)
(* has ever been held".  An entry made by InSynAck or OutAckNew holds a    *)
(* nullptr instead of an ACK, and OutSynAckNullHeld dereferences it.       *)
(***************************************************************************)
SynAckWithoutHeldAckIsCaught ==
  [][pc = "treat_out" /\ Tcp(toOutside) /\ IsSynAck(Flags(toOutside)) => alive']_vars

==============================================================================
