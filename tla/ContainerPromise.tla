--------------------------- MODULE ContainerPromise ---------------------------
(***************************************************************************)
(* What a packet container promises to the worker: a burst fills the       *)
(* slots from the front, a packet is added behind the last one, a slot is  *)
(* vacated without moving the others, and after sending nothing is left.   *)
(***************************************************************************)
EXTENDS SlotContainer

CONSTANT BurstSize  \* most packets in a burst

VARIABLE container

Init == container = EmptyContainer

\* k holds exactly a burst.
Burst(k) ==
  /\ k \in Container
  /\ k.polled = k.total /\ k.total <= BurstSize
  /\ \A j \in SlotIndex : k.slots[j] # Null <=> j < k.total
  /\ Distinct(k)

Poll == container = EmptyContainer /\ Burst(container')

Add ==
  /\ container.total < Capacity
  /\ \E m \in Mbufs \ Buffers(container) : container' = Added(container, m)

Vacate ==
  \E j \in SlotIndex :
    container.slots[j] # Null /\ container' = Vacated(container, j)

Send == container' = EmptyContainer

Next == Poll \/ Add \/ Vacate \/ Send

Spec == Init /\ [][Next]_container

===============================================================================
