----------------------------- MODULE Inspection -----------------------------
(***************************************************************************)
(* The class Inspection of include/Inspection.hpp: it walks over the       *)
(* packets a container has polled, drops the flood above a limit for each  *)
(* protocol and TCP packets with a small window or with SYN and FIN, and   *)
(* derives the limits of the next burst from what it has dropped.          *)
(*                                                                         *)
(* No thread of the program calls it; its tests do.  One step is one       *)
(* packet of analyze_container, the last one update_stats.                 *)
(***************************************************************************)
EXTENDS Integers, FiniteSets

CONSTANTS
  Thresholds,   \* values of threshold_UDP, threshold_TCP, threshold_ICMP
  Weights,      \* the weight of each attack
  MinWindow,    \* min_window_size
  Windows,      \* window sizes of TCP packets
  BurstSize,    \* packets a container polls at once (64)
  MaxDuration,  \* bound on the cycles an analysis takes
  Hz,           \* rte_get_tsc_hz()
  U16,          \* 2^16
  U64,          \* 2^64
  Null          \* a slot whose packet is gone

Protocols == {"UDP", "TCP", "ICMP"}
Attacks == {"UDP_flood", "TCP_flood", "ICMP_flood", "SYNFIN", "SMALLWINDOW"}
FloodOf(q) == CASE q = "UDP" -> "UDP_flood" [] q = "TCP" -> "TCP_flood" [] q = "ICMP" -> "ICMP_flood"

Packet ==
  [type : {"UDP", "ICMP", "other"}]
    \cup [type : {"TCP"}, window : Windows, flags : SUBSET {"SYN", "FIN"}]

ASSUME InspectionAssumption ==
  /\ Thresholds \subseteq 0 .. U16 - 1 /\ Weights \in [Attacks -> 0 .. 255]
  /\ Windows \subseteq 0 .. U16 - 1 /\ MinWindow \in 0 .. U16 - 1
  /\ U16 \in Nat \ {0} /\ U64 \in Nat \ {0} /\ BurstSize \in 0 .. U16 - 1
  /\ Hz \in Nat \ {0} /\ MaxDuration \in Nat
  /\ Null \notin Packet

VARIABLES
  threshold,     \* _threshold_*: what is configured
  current,       \* _current_threshold_*: the limits of this burst
  attack_level,
  packetrate,
  polled,        \* history: the packets as they were polled
  slots,         \* what is left of them in the container
  index,         \* the loop index of analyze_container
  packets,       \* temp_*_packets
  attacks,       \* temp_attack_*
  analyzing,     \* analyze_container is running
  alive          \* FALSE after a division by zero

vars == <<threshold, current, attack_level, packetrate, polled, slots, index,
          packets, attacks, analyzing, alive>>
lasting == <<threshold, current, attack_level, packetrate, alive>>

None(S) == [x \in S |-> 0]
Polled == DOMAIN polled

\* The current limits start as the configured ones.
Init ==
  /\ threshold \in [Protocols -> Thresholds]
  /\ current = threshold
  /\ attack_level = 0
  /\ packetrate = None(Protocols)
  /\ polled = << >> /\ slots = << >> /\ index = 1
  /\ packets = None(Protocols) /\ attacks = None(Attacks)
  /\ analyzing = FALSE
  /\ alive = TRUE

------------------------------------------------------------------------------

\* A burst; what has been taken out of the container before is missing in it.
Bursts == UNION {[1 .. n -> Packet \cup {Null}] : n \in 0 .. BurstSize}

analyze_container ==
  /\ alive /\ ~analyzing
  /\ polled' \in Bursts
  /\ slots' = polled'
  /\ analyzing' = TRUE
  /\ UNCHANGED <<lasting, index, packets, attacks>>

\* Nothing is left in the slot, or the packet is of no interest.
Type(p) == IF p = Null THEN "other" ELSE p.type

Analyzed(type) == analyzing /\ index \in Polled /\ Type(slots[index]) = type

Passed ==
  /\ index' = index + 1
  /\ UNCHANGED <<lasting, polled, analyzing>>

\* ++temp_*_packets, and the packet is dropped as an attack or left in place.
Counts(q) == packets' = [packets EXCEPT ![q] = @ + 1] /\ Passed
Forward == UNCHANGED <<slots, attacks>>

Drop(a) ==
  /\ attacks' = [attacks EXCEPT ![a] = @ + 1]
  /\ slots' = [slots EXCEPT ![index] = Null]

\* Mutation: the packet that reaches the limit is dropped as well.
FloodAtLimit(q) == packets[q] + 1 >= current[q]

\* One more packet of the protocol is one too many.
Flood(q) == packets[q] + 1 > current[q]

ignore == Analyzed("other") /\ Forward /\ Passed /\ UNCHANGED packets

flood(q) == Analyzed(q) /\ Flood(q) /\ Drop(FloodOf(q)) /\ Counts(q)

forward(q) == q # "TCP" /\ Analyzed(q) /\ ~Flood(q) /\ Forward /\ Counts(q)

SmallWindow(p) == p.window < MinWindow

\* Mutation: SYN and FIN are each forbidden.
SynFinEither(p) == {"SYN", "FIN"} \cap p.flags # {}
SynFin(p) == {"SYN", "FIN"} \subseteq p.flags

AnalyzedTcp == Analyzed("TCP") /\ ~Flood("TCP")

small_window == AnalyzedTcp /\ SmallWindow(slots[index]) /\ Drop("SMALLWINDOW") /\ Counts("TCP")

syn_fin ==
  /\ AnalyzedTcp /\ ~SmallWindow(slots[index]) /\ SynFin(slots[index])
  /\ Drop("SYNFIN") /\ Counts("TCP")

forward_tcp ==
  /\ AnalyzedTcp /\ ~SmallWindow(slots[index]) /\ ~SynFin(slots[index])
  /\ Forward /\ Counts("TCP")

------------------------------------------------------------------------------
(* update_stats; with it the container and the counters leave the scope.   *)

\* The duration is a number of cycles, multiplied by the cycles of a second
\* in 64 bits: it may wrap around to anything, zero included.
Divisor(duration) == ((IF duration > 1 THEN duration ELSE 1) * Hz) % U64

Rate(n, duration) == n \div Divisor(duration)

AttackLevel ==
  ( attacks["UDP_flood"] * Weights["UDP_flood"]
  + attacks["TCP_flood"] * Weights["TCP_flood"]
  + attacks["ICMP_flood"] * Weights["ICMP_flood"]
  + attacks["SYNFIN"] * Weights["SYNFIN"]
  + attacks["SMALLWINDOW"] * Weights["SMALLWINDOW"]) % U16

\* Mutation: a limit that may be negative.
LimitSigned(t, level) == t - (1 \div t) * level * level

\* 1 / t is a division of integers.
Limit(t, level) == (t - (1 \div t) * level * level) % U16

\* A division by zero, of packets or of 1, ends the process.
update_stats ==
  /\ analyzing /\ index \notin Polled
  /\ \E duration \in 0 .. MaxDuration :
       \/ /\ Divisor(duration) # 0 /\ \A q \in Protocols : threshold[q] # 0
          /\ packetrate' = [q \in Protocols |-> Rate(packets[q], duration)]
          /\ attack_level' = AttackLevel
          /\ current' = [q \in Protocols |-> Limit(threshold[q], attack_level')]
          /\ UNCHANGED alive
       \/ /\ Divisor(duration) = 0 \/ \E q \in Protocols : threshold[q] = 0
          /\ alive' = FALSE
          /\ UNCHANGED <<packetrate, attack_level, current>>
  /\ polled' = << >> /\ slots' = << >> /\ index' = 1
  /\ packets' = None(Protocols) /\ attacks' = None(Attacks)
  /\ analyzing' = FALSE
  /\ UNCHANGED threshold

Gone == ~alive /\ UNCHANGED vars

Next ==
  \/ analyze_container
  \/ ignore \/ (\E q \in Protocols : flood(q) \/ forward(q))
  \/ small_window \/ syn_fin \/ forward_tcp
  \/ update_stats
  \/ Gone

Spec == Init /\ [][Next]_vars

------------------------------------------------------------------------------
(* Correctness.                                                            *)

\* Every variable holds values of the type the code declares for it.
TypeOK ==
  /\ threshold \in [Protocols -> Thresholds]
  /\ current \in [Protocols -> 0 .. U16 - 1]
  /\ attack_level \in 0 .. U16 - 1
  /\ packetrate \in [Protocols -> Nat]
  /\ Polled = DOMAIN slots /\ \E n \in 0 .. BurstSize : Polled = 1 .. n
  /\ \A j \in Polled : {polled[j], slots[j]} \subseteq Packet \cup {Null}
  /\ index \in 1 .. Cardinality(Polled) + 1
  /\ packets \in [Protocols -> 0 .. BurstSize]
  /\ attacks \in [Attacks -> 0 .. BurstSize]
  /\ analyzing \in BOOLEAN /\ alive \in BOOLEAN

\* Where the packets of protocol q have been, up to slot k.
Of(q, k) == {j \in 1 .. k : Type(polled[j]) = q}

\* What deserves to be dropped: seen from the burst, not from the counters.
Illegitimate(k) ==
  \/ \E q \in Protocols : k \in Of(q, k) /\ Cardinality(Of(q, k)) > current[q]
  \/ k \in Of("TCP", k) /\ (SmallWindow(polled[k]) \/ {"SYN", "FIN"} \subseteq polled[k].flags)

Dropped == {j \in Polled : polled[j] # Null /\ slots[j] = Null}

Attacked ==
  attacks["UDP_flood"] + attacks["TCP_flood"] + attacks["ICMP_flood"]
    + attacks["SYNFIN"] + attacks["SMALLWINDOW"]

(***************************************************************************)
(* While a burst is analyzed, exactly the illegitimate packets before the  *)
(* loop index have been dropped, each counted as one attack: a packet that *)
(* is illegitimate for several reasons too, of which drop_packet must hear *)
(* only once.  (The diagram at Inspection.hpp:145 draws the checks of a    *)
(* TCP packet one after the other; in the code the first that fails ends   *)
(* them.)                                                                  *)
(***************************************************************************)
DropsExactly ==
  analyzing =>
    /\ Dropped = {j \in 1 .. index - 1 : Illegitimate(j)}
    /\ Attacked = Cardinality(Dropped)

(***************************************************************************)
(* What the sections of Inspection_test.cpp:192-226 expect of update_stats *)
(* where the attack level reaches the threshold: 5 is lowered to 0,        *)
(* "5-1/5*5*5", and 10 packets in a duration of 1 give a rate of 10.  In   *)
(* the code 1 / threshold is a division of integers, 0 for every threshold *)
(* above 1, and the duration is multiplied by the frequency of the clock   *)
(* before the packets are divided by it.                                   *)
(***************************************************************************)
UpdateAsTested ==
  [][analyzing /\ ~analyzing' /\ alive' =>
       \A q \in Protocols : packets[q] > 0 /\ attack_level' = threshold[q] =>
         /\ current'[q] = 0
         /\ \E duration \in 1 .. MaxDuration : packetrate'[q] = packets[q] \div duration]_vars

------------------------------------------------------------------------------
(* The inductive invariant behind the safety properties.                   *)

BurstInv ==
  /\ ~analyzing => /\ polled = << >> /\ index = 1
                   /\ packets = None(Protocols) /\ attacks = None(Attacks)
  /\ \A q \in Protocols : packets[q] = Cardinality(Of(q, index - 1))
  /\ \A j \in Polled : slots[j] = IF j < index /\ Illegitimate(j) THEN Null ELSE polled[j]
  /\ Attacked = Cardinality(Dropped)

IInv == TypeOK /\ BurstInv

==============================================================================
