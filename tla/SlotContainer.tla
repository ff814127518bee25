---------------------------- MODULE SlotContainer ----------------------------
(***************************************************************************)
(* A packet container as the treatment sees it: slots that hold buffers    *)
(* (mbufs), addressed by one index.  A slot below `total' holds a buffer,  *)
(* or Null once its packet has been dropped or taken; the first `polled'   *)
(* slots came from the network card.  The arrays and counters of           *)
(* include/PacketDissection/PacketContainer.hpp behind it are in module    *)
(* PacketContainer.                                                        *)
(***************************************************************************)
EXTENDS Integers

CONSTANTS
  Mbufs,    \* the buffers of the memory pool
  Null,     \* nullptr
  Capacity  \* slots of a container (NUM_MBUF_ARRS * BURST_SIZE)

ASSUME NullAssumption == Null \notin Mbufs
ASSUME CapacityAssumption == Capacity \in Nat

SlotIndex == 0 .. Capacity - 1

Container == [slots : [SlotIndex -> Mbufs \cup {Null}], polled : Nat, total : Nat]

EmptyContainer ==
  [slots |-> [j \in SlotIndex |-> Null], polled |-> 0, total |-> 0]

\* Mutation: the slot keeps its pointer.
VacatedNot(k, i) == k

\* add_packet, and get_empty_packet once it has a buffer.
Added(k, m) == [k EXCEPT !.slots = [@ EXCEPT ![k.total] = m], !.total = @ + 1]

\* take_packet and drop_packet clear the slot.
Vacated(k, i) == [k EXCEPT !.slots = [@ EXCEPT ![i] = Null]]

Buffers(k) == {k.slots[j] : j \in SlotIndex} \ {Null}

\* No buffer is in two slots.
Distinct(k) ==
  \A i, j \in SlotIndex : k.slots[i] # Null /\ k.slots[i] = k.slots[j] => i = j

==============================================================================
