# TLA+ models of AEGIS

AEGIS (`src/`) sits between an external and an internal network, on a DPDK host
with one network port on each side, and defends the internal hosts against
SYN floods.  It answers every SYN from outside itself, with a SYN cookie as
sequence number, and forgets it.  Only when the cookie comes back in an ACK does
it open a connection to the internal host and from then on translates sequence
and acknowledgement numbers between the two halves of the connection.

This directory holds TLA+ modules that model that behaviour, the TLC
configurations that check them and proofs for TLAPS.

## The system

| component | code | state | operations |
|---|---|---|---|
| Treatment | `include/Treatment/Treatment.hpp` | connection table `_densemap` (offset, FIN flags, held packets), `_s_timestamp`, `_cookie_secret` | `treat_packets_to_inside`, `treat_packets_to_outside`, `check_syn_cookie`, `calc_cookie_hash`, `s_increment_timestamp` |
| PacketContainer | `include/PacketDissection/PacketContainer.hpp` | two-dimensional arrays of mbuf and PacketInfo pointers, counters of polled, total, dropped packets | `poll_packets`, `send_packets`, `get_packet_at_index`, `get_empty_packet`, `add_packet`, `take_packet`, `drop_packet` |
| PacketContainerLean | `include/PacketDissection/PacketContainerLean.hpp` | the same arrays without PacketInfo objects | `poll_mbufs`, `add_mbuf`, `drop_polled_mbuf`, `send_mbufs` |
| DefenseThread | `source/Threads/DefenseThread.cpp` | its Treatment, Inspection and two containers, `_quit` | the loop of `run`: test `_quit`, statistics, then poll, treat, send for one side and for the other |
| main | `source/main.cpp` | the workers, `quit` | configuration, launch, tick of the timestamp every 64 s, shutdown |
| dissection | `PacketInfoCreator.hpp`, `PacketInfo*.hpp`, `PacketProt*.hpp` | pointers into one mbuf | create, read and write header fields, checksums |
| StatisticsThread | `source/Threads/StatisticsThread.cpp` | 16 rings of `Stats*` | `enqueue_statistics`, `run` (never launched) |
| Inspection | `include/Inspection.hpp` | thresholds, rates, attack level | `analyze_container`, `update_stats` (constructed by each worker, called by none) |
| attacker | `include/Threads/AttackThread.hpp`, `source/Attacker/main.cpp` | traffic generator, its counters, `_quit` and `_running` | launch, `iterate`, shutdown |
| Initializer, Configurator | `source/Initializer.cpp`, `source/Configurator.cpp` | number of workers, ports; the two configuration files | `init_number_threads`, reading of keys |
| Cli, DebugHelper, pkt-capture, gui | | | terminal and file I/O |

How they interact.  `main` creates one DefenseThread per worker lcore, each with
its own Treatment and two PacketContainers, launches `run` on the lcore and then
only increments the timestamp.  (It hands the containers over in swapped
order: the one named `to_outside` polls port 0 and becomes the worker's
`to_inside`; its name is all that is wrong.)  Workers share nothing but
`_s_timestamp` and the pool of mbufs: the symmetric RSS key in
`source/Initializer.cpp:15` gives all packets of a connection, in both
directions, to one worker.  Within a worker everything is sequential, but what
arrives is not: segments of both sides, of many connections, repeated and in any
order, in bursts of up to 32.

What is hard here:

* packets move by pointer between two containers, the lists of held packets and
  the memory pool.  Both treatments add to the container they walk through and
  to the other one, and slots are vacated underneath;
* an entry of the table lives through many bursts and its meaning depends on the
  order of segments of both sides: cookie ACK, SYN-ACK, two FINs and their
  answers, RSTs, retransmissions;
* `_s_timestamp` is written by `main` and read several times per packet by the
  workers, without synchronisation, and wraps around at 256;
* the pool is finite and `rte_pktmbuf_alloc` is not checked;
* the proxy keeps nothing of a SYN: what it knows of a connection it reads from
  one later ACK, and the outside network loses, repeats and delays segments;
* arrays, their counts and the PacketInfo objects must agree through removal,
  reordering and partial transmission, although each is updated on its own;
* main deletes the objects of workers that still run, and both sides of the
  shutdown communicate through plain bools.

`PROJECT.json` lists every hazard at its line with the properties that cover it.

## Modules

| module | models | role |
|---|---|---|
| `SynCookie` | sequence number arithmetic, cookie and check | pure operators |
| `SlotContainer` | a packet container as numbered slots | operators |
| `Treatment` | one action per branch of the two treatment functions, connection table | component |
| `DefenseThread` | the loop of one worker, network cards, tick; properties and inductive invariant | composition of `Treatment`, `SlotContainer`, `SynCookie` |
| `ProxySession` | a client, a worker of `DefenseThread`, a server and the networks between them | composition |
| `ConnectionLifecycle` | which segments may create, advance and end an entry | abstract specification |
| `CookieClock` | SYN and ACK branch of several workers against the tick, one step per read | component |
| `ContainerPromise` | how slots may be filled, vacated and emptied | abstract specification |
| `PacketContainer` | arrays, counters, reordering, PacketInfo objects, partial transmission; the lean class on the same arrays | component, implements `ContainerPromise` |
| `AegisMain` | main from configuration to cleanup, the loops on the lcores, flags and rings | component |
| `Inspection` | `analyze_container` and `update_stats`, with their integer arithmetic | component |
| `Attacker` | main and threads of the traffic generator: launch, iteration, shutdown, count | component |
| `MCDefenseThread`, `MCCookieClock`, `MCPacketContainer`, `MCProxySession`, `MCAegisMain`, `MCInspection` | values of the constants | TLC |
| `TreatmentClaims` | what two comments of Treatment say and the code does not do | TLC |
| `DefenseThreadProofs`, `ConnectionProofs`, `CookieProofs`, `PacketContainerProofs`, `ProxySessionProofs`, `AegisMainProofs`, `InspectionProofs`, `AttackerProofs` | theorems | TLAPS |

Correspondence with the code:

* `table[c]` is `_densemap` at key `c`, or `NoEntry`; the fields of an entry are
  those of class `Info`, its list holds buffers or `Null` (nullptr).
* `buf[m]` is what is written in mbuf `m`: a TCP packet reduced to connection,
  flags, sequence and acknowledgement number, or `Opaque` (not IPv4/TCP, or a
  free buffer).  Checksums, MAC addresses, ports, windows and payload are left
  out; both directions of a connection share one `conn`, as the key class `Data`
  normalises them.
* in `Treatment` a container is a function from slots to buffers with `polled` and
  `total` (`SlotContainer`).  `PacketContainer` models the class behind it: `c` holds
  its members (`nb_mbufs` is `_nb_mbufs_in_mbuf_arr`, `arrays` is `_nb_pkt_arrays`),
  slot `k` is position `k % BURST_SIZE` of array `k / BURST_SIZE`, and
  `send_packets` is one step per array.  With `lean` it is the class of the attacker:
  the same arrays, no PacketInfo objects, and `dropped` is `_nb_polled_pkts_dropped`.
  A PacketInfo is an address with the buffer
  it points to; `new` returns the lowest free address, since which one it is does
  not matter to the code.
* `cursor` is the loop index `i`.  Each action `In...` or `Out...` is one branch:
  its guard is the conjunction of the conditions on the way to it, and everything
  the branch does, including dropping, taking and adding, is one step: a worker
  is sequential and no other thread reads its state.
* `alive` becomes FALSE where the code dereferences a null pointer: an exhausted
  pool (`InOutOfBuffers`) or a held nullptr (`OutSynAckNullHeld`).
* the labels of `pc` are the places in the loop of `run`.  Receiving fills the
  container packet by packet (`ReceiveFromOutside`, `ReceiveFromInside`) from
  the sets of packets the two networks may send.
* `SendBoth` returns every buffer to the pool: what the card accepts is freed
  by the driver after transmission, what it refuses by the code.

* `ProxySession` adds two TCP endpoints and four channels to the worker.  They are
  external to the program; they do what `Treatment` relies on: sequence numbers
  in order, one unit of data and a FIN each, acknowledgement, retransmission of the
  oldest unacknowledged unit.  The actions of `DefenseThread` are used unchanged:
  `ReceiveFromOutside` takes its packet from a channel and `SendBoth` appends
  what it sends to two others.
* in `AegisMain`, `mpc` is the place in main and `wpc[l]` the place in the loop of the
  thread on lcore `l`.  Using a deleted object is undefined, so the process may end
  or the worker may go on with any value; `stale` records that it happened.
  `config` is what the two configuration files hold, as far as main looks at it.
  `Enqueues` is the test of `_statistics_thread`, which is read through the object too.
* in `Inspection` one step is one packet of `analyze_container`; `polled` is history.
  The divisor of the rates is kept modulo `U64`.

* in `Attacker`, `mpc` and `i` are the place and the loop index of main, `wpc` the place
  of each thread in `run` and `iterate`; the last thread is iterated by main.
  `start` and `net` are history.  Counters are kept modulo `CounterMod`.

Two things look alike and are not.  In `DefenseThread` a packet is treated with
one value of the timestamp; in `CookieClock` each read is a step.  The theorem
side uses the first, and `AcceptedAtOneInstant` of the second justifies it: a
torn check accepts nothing the atomic check would not.

## Runs

| run | configuration | question | result |
|---|---|---|---|
| `burst` | `MCDefenseThread.cfg`: 2 connections, 4 buffers, bursts of 2, 3 timestamps, 1 hash bit | all properties of the worker in every order of segments; do connections disturb each other? | holds, 2.4 million states |
| `session` | `MCProxySession.cfg`: 6 buffers, bursts of 1, two losses, duplicates or ticks | is what is acknowledged received, do the numbers fit? | holds, 2.5 million states |
| `session_live` | `MCProxySessionLive.cfg`: the same with one such event | is the connection established, used in both directions and erased? | holds, 110 thousand states |
| `clock` | `MCCookieClock.cfg`: 2 workers, 4 timestamps, 6 ticks, 2 cookies | what can the race on the timestamp do? | holds, 120 thousand states |
| `container` | `MCPacketContainer.cfg`: 2 arrays of 2, 4 buffers, 5 PacketInfo addresses, both classes | do pointers and counters keep the promise of the slots? | holds, 1.4 million states |
| `main` | `MCAegisMain.cfg`: 3 lcores, 2 rings of 3, 7 configured numbers | is every queue served, does nothing but SIGINT end the program, do rings never block? | holds, 35 thousand states |
| `inspection` | `MCInspection.cfg`: bursts of up to 3, thresholds 0 to 2, products modulo 16 | what is dropped, and which values can the divisions give? | holds, 1.4 million states |
| `attacker` | `MCAttacker.cfg`: 3 threads, counters modulo 2 | is shutdown safe, complete and certain? | holds, 130 thousand states |
| `synack_null` | `ClaimSynAckWithoutHeldAckIsCaught.cfg` | is a SYN-ACK without a held ACK caught? | violated |
| `queue_lost` | `ClaimQueueIsReleased.cfg` | are queued ACKs sent on? | violated |
| `quit` | `ClaimQuitEndsProgram.cfg` | does SIGINT always end the program? | violated |
| `update_as_tested` | `ClaimUpdateAsTested.cfg`: bursts of up to 5, threshold 5, weights 1 | do limit and rate follow the burst as the unit test expects? | violated |

The properties:

* `BufferOwnership`: a buffer is free, in one slot, or held once; never two of
  these.  A double free, a packet sent twice or a held packet that is reused
  would violate it.
* `TeardownConsistent`: both FINs have been seen exactly when a closing ACK is
  expected, in all orders of first, answering and repeated FINs.
* `HeldPassedCookie`: the packet from which the offset is computed is an
  unchanged ACK of this connection that passed the cookie check.
* `TwoBurstsSuffice`: a container needs at most 2 * BURST_SIZE slots.
* `PollFindsNothingUnsent`: the warning of `PacketContainer.hpp:117`, that a poll
  overwrites unsent packets, never comes true.
* `OffsetSettled`: after the release of the held packets offset and queue do not
  change until the entry is erased.
* `ImplementsLifecycle`: the table refines `ConnectionLifecycle` under the mapping
  `PhaseOf`, `FinsOf`, `TreatedSegment`.
* `AcceptedAtOneInstant`, `AcceptedIsYoungOrWrapped`, `RefusedOnlyForCause`: what
  ticks between two reads can and cannot change.
* `BufferConservation`: in the arrays no buffer is lost or owned twice, through adding,
  dropping, taking, reordering and partial transmission.
* `NoNullTransmitted`: the card gets no null pointer, although removal leaves gaps.
* `NoDanglingInfo`, `InfosAligned`: no PacketInfo is destroyed while a pointer to it is
  left, and while packets are treated each describes the buffer at its index.
* `ImplementsPromise`: the container refines `ContainerPromise` under the mapping
  `Slots`; what is being sent counts as gone.
* `AckedIsReceived`: what one host takes for acknowledged the other has received;
  cookie, offset and queue never acknowledge data that are then lost.
* `OffsetMatches`: while both hosts are connected, the offset of the entry is the
  difference of the initial sequence numbers the two hosts know.
* `EntryLastsUntilBothClose`: without an RST no ACK and no repeated FIN ends an entry
  before both hosts have closed.
* `Establishes`, `ServerHears`, `ClientHears`, `OrderlyCloseErases`: liveness of the
  session, from the SYN to the empty table.  A stray ACK may open a new entry after
  `OrderlyCloseErases` is met.
* `EveryQueueServed`: whatever is configured, every queue set up on the network cards
  is polled by a worker on an lcore of its own.
* `RunsUntilQuit`: with a complete configuration and a ring for every lcore in use
  nothing but SIGINT stops the program or deletes an object.
* `FullRingsNeverBlock`: a worker polls although nobody drains its statistics.
* `QuitEndsUnlessStale`: SIGINT ends the program if no deleted object was used and
  the flag is read in every round.
* `DropsExactly`: Inspection drops the illegitimate packets of a burst, each once and
  counted once.  The diagram at `Inspection.hpp:145` draws the checks of a TCP packet one
  after the other; in the code the first that fails ends them.
* `NoUseAfterDelete`, `PrintedIsComplete`, `QuitEndsProgram`: the shutdown of the
  attacker, with SIGINT at any time.

Bounds.  A connection with every kind of segment and bursts of two let a packet of a burst depend on what
an earlier one of the same burst did to the table, the container and the pool;
four buffers are enough for a held packet, a queued one and a full burst, and few
enough for the pool to run empty.  Three timestamps give a current, a previous
and an expired cookie.  Capacity is 2 * BURST_SIZE; `TwoBurstsSuffice` shows that
more is never used.  The second connection has other cookies, one of which the first
sends too, and the segments that open, complete and end an entry: what matters is
that its entry and its held packet are there while the first one is treated.  In
`CookieClock`, `MaxClock` lets the timestamp (4 values) wrap around, and
`MaxIssued` cookies suffice because a check reads one.  Its ticks are at least
one branch apart (64 s in the code).

In a session every host sends a SYN, one unit of data and a FIN, so that an ACK can
belong to the handshake, to data or to the close.  Sequence numbers have four
bits, more than a window of what is under way.  `MaxEvents` bounds losses,
duplicates and ticks together: two let a duplicate arrive after a loss or a tick.
There is at most one tick, since a handshake takes less than the 64 s between two
of them.  With one event no host is reset and no buffer is missing: the alternative
`Failed` in the liveness properties is never reached there, and the six buffers are
enough.  With two the connection can be erased early, and what keeps arriving then
opens it anew and fills the pool, so that the worker dies in `InOutOfBuffers`.
A copy that the network delays arrives when its channel is empty; behind the
segments of a channel it would arrive at the same point.

Three lcores are main's and two workers; the numbers configured lie below, at and
above the bounds, and two of them become valid only as 16-bit numbers.  Two rings
let lcore 2 index beyond the last one.  Bursts of three in `Inspection` hold two
packets of one protocol and one of another with thresholds 0, 1 and 2, the cases
of the division.  `U64` is 16 and `Hz` 6, so that durations of up to 8 give products that
wrap around to smaller divisors and to zero.  The claim has bursts of five with weights
of one, as many attacks as its threshold, and a frequency above the burst.

Two arrays of two positions need a second array and leave gaps in either; four
buffers fill both.  `NumInfos` bounds the PacketInfo objects, of which the
reordering leaks some, and leaves room for one leak beside a full container.  The
guards `total < Capacity` rest on `TwoBurstsSuffice`, and `poll_packets` is called
with an empty container because of `PollFindsNothingUnsent`.  The attacker has two
launched threads, so that main waits for one while the other runs, and the one of
main; `CounterMod` 2 makes every counter wrap around, and no run is cut short.

Fairness.  `Attacker` and `AegisMain` state weak fairness of main and of each launched
thread, because each has an lcore of its own and no step blocks.  SIGINT need not
come.  `ProxySession` states weak fairness of the client, the server, the worker,
whose loop never waits, and of the retransmission timers.  The network need not lose
or duplicate anything, and `MaxEvents` keeps it from losing everything, which is the
assumption under which TCP delivers at all.  The other specifications are about
safety.

Deadlock is checked in all passing runs; after a crash `Gone` (`SessionGone`, `Ended`)
stutters.

## What the violated claims show

* An entry made for an ACK from inside or a SYN-ACK from outside holds a list
  with a nullptr, because the constructor of `Info` pushes its argument whatever
  it is.  So the list is not empty: a SYN-ACK from inside dereferences the nullptr
  (`synack_null`), and ACKs from outside are queued for ever, which starves connections that internal hosts open.
* The loop that releases the queue adds only the first packet to a container;
  the others are forgotten with their buffers (`queue_lost`).
* main deletes threads and containers before it waits for the lcores.  A worker that
  tests `_quit` of its deleted object may never see it, and main waits for ever.
  Nor need an optimised build read `quit` again, a plain bool that nothing in the
  loop of main writes (`quit`).  `QuitEndsUnlessStale` says that there is no third reason.
* `Inspection_test.cpp:192-226` expects that at an attack level of 5 a threshold of 5 falls
  to 0 (`5-1/5*5*5`) and that 10 packets in a duration of 1 give a rate of 10.  In
  `update_stats` `1 / threshold` is a division of integers, 0 for every threshold above 1,
  so that the limit stays where it is; and the duration has been multiplied by the
  frequency of the clock, so that the rate is 0 unless the 64-bit product wraps around
  to something small (`update_as_tested`).

## Behaviour worth knowing

These follow from the modules and violate none of the properties.  The first two
points differ from what the design documents describe.

* The RST for a bad cookie goes to the internal host (`InAckRefused`), and
  the internal SYN-ACK is forwarded to the client once its entry is open.
* A cookie becomes valid again after 256 ticks: `AcceptedIsYoungOrWrapped` is the exact
  bound.
* `reorder_mbuf_arrays` moves buffers but not PacketInfo pointers.  Every send after a
  drop or a take loses the PacketInfo objects at the end of the array; they are
  never destroyed.  While packets are treated the two arrays agree (`InfosAligned`).
* The client's initial sequence number is taken from the first ACK that returns the
  cookie.  If the ACK of the handshake is lost and an acknowledgement after data
  comes first, the server gets a number that is too high; `AckedIsReceived` names the
  condition.
* Once both FINs have been seen, any ACK ends the entry, also one for something older
  if the two FINs have crossed.  Later segments of the connection then find none.
* A delayed copy of the ACK that returned the cookie opens the connection anew after
  it was erased; its entry keeps a buffer of the pool.
* A client whose cookie ages by two ticks before its ACK is treated is refused at every
  repetition: it knows no other cookie.
* A threshold of 0 and a product of duration and frequency that wraps around to 0 end in
  a division by zero (`update_stats`); with a threshold of 1 the limit falls below zero and
  wraps around.
* `BufferOwnership` says that no buffer has two owners; it does not say that there is
  always a free one.  The worker dies when the pool is exhausted (`InOutOfBuffers`).

`PrintedIsComplete` counts from `start`, the value the totals hold before the first
iteration: the constructor of AttackThread does not initialise them.

## Proofs

TLC checks the instances above; TLAPS proves the following for every value of
the constants that satisfies the named ASSUMEs of the modules, which TLC evaluates
in the runs.  All but the temporal steps are proved by SMT and Zenon.

| module | proved | for every |
|---|---|---|
| `DefenseThreadProofs` | `InvariantHolds`, `TypesHold`, `OwnershipHolds`, `TwoBurstsSufficeHolds`, `NothingUnsentHolds` | set of connections, buffers and packets, burst size with `Capacity >= 2 * BurstSize`, timestamp width of at least 2, hash function |
| `ConnectionProofs` | `TeardownHolds`, `OffsetSettledHolds`, `HeldPassedCookieHolds`, `LifecycleImplemented` | the same |
| `CookieProofs` | `InvariantHolds`, `TypesHold`, `AcceptedAtOneInstantHolds`, `AcceptedIsYoungOrWrappedHolds`, `RefusedOnlyForCauseHolds` | number of workers, timestamp width, hash function |
| `PacketContainerProofs` | `InvariantHolds`, `TypesHold`, `BufferConservationHolds`, `NoNullTransmittedHolds`, `NoDanglingInfoHolds`, `InfosAlignedHolds`, `PromiseImplemented` | set of buffers, number and length of arrays, number of PacketInfo objects, either class |
| `ProxySessionProofs` | `CloseInvHolds`, `EntryLastsHolds`; under `NumbersApart` also `SessionInvHolds`, `OffsetMatchesHolds`, `AckedIsReceivedHolds` | number of buffers, burst size, timestamp width, hash function, initial numbers, number of losses and duplicates (`MaxEvents`), with at most one tick |
| `AegisMainProofs` | `InvariantHolds`, `TypesHold`, `EveryQueueServedHolds`, `RunsUntilQuitHolds` | number of lcores and rings, set of configured numbers |
| `InspectionProofs` | `InvariantHolds`, `TypesHold`, `DropsExactlyHolds` | burst size, thresholds, weights, clock, width of the product |
| `AttackerProofs` | `InvariantHolds`, `TypesHold`, `NoUseAfterDeleteHolds`, `PrintedIsCompleteHolds` | number of threads, width of the counters |

Each module has an inductive invariant `IInv`, its initial states, one lemma per action
and the theorem, and the properties follow.  Why the invariants are needed:

* `DefenseThread`.  That taking a packet keeps buffers disjoint depends on the slot at
  `cursor` not being empty, and that adding one overwrites nothing on the slot at
  `total` being empty.  `LoopInv` says for each place in the loop what both containers
  look like: while a burst is treated no slot ahead of the cursor has been vacated,
  each packet treated so far has added at most one packet to each container, and
  slots at or beyond `total` are empty.  `HeldAreTcp` says that held packets are TCP
  packets.  The branches do one of a few things to the buffers (leave, rewrite,
  vacate, move from the pool, hold, release), each has a lemma, and a branch cites
  the one it is an instance of.
* `ConnectionProofs` adds a lemma on how a step may change the table: only the entry of
  the packet under treatment, and only in one of the ways of `ConnectionLifecycle`.
* `CookieClock`.  `IssuedInv`, `BranchInv`, `CheckInv` and `VerdictInv` relate what a worker
  has read so far to the ticks at which it read it.  That a torn check accepts
  nothing new follows from arithmetic on `%`: two stamps that agree in both reads
  are the same or one turn apart.
* `PacketContainer`.  `CountersInv` ties the count of each array to the total (`Filled`) and
  the number of arrays to it, so that an appended buffer goes to a place that is
  free and is counted; `PlacesInv` says that no pointer lies beyond the count of its
  array and that a gap below it is known as one, so that `send_packets` reorders
  before it transmits; `BuffersInv` gives every buffer exactly one owner;
  `InfosInv` every PacketInfo one pointer.  The reordering and the new PacketInfo
  objects choose elements of a set by rank; the lemmas on ranks show that the choice is a
  bijection, which is what keeps buffers from being lost or doubled.
* `PromiseImplemented` maps index `j` to the place `PlaceOf(j)`, shows the mapping
  injective and each operation an operation of `ContainerPromise` or a stutter.
* `AegisMain`.  `StartInv`: after n launches exactly the lcores 1 to n run the threads 0 to
  n - 1, and the number of threads never exceeds the lcores that are left, although it
  is cut to 16 bits before it is compared.  For `RunsUntilQuit` it adds that before
  SIGINT main is in its start or at the clock and has deleted nothing, so that no worker
  can have used a deleted object.
* `Inspection`.  `BurstInv`: the counters are the numbers of packets of each protocol
  before the loop index, and what has been dropped is what the burst itself says.
* `Attacker`.  `StopInv`: who has been told to stop, who has ended and who is deleted, by
  the place of main.  `CountInv`: the sum so far is that of the threads already deleted,
  and their counters stand still.  That a sum over one thread more is larger by its
  count follows from the definition of the fold in the community modules, once it is
  known to exist; its existence is shown from the least counterexample.
* `ProxySession`.  The proofs follow a segment along four ways (`ClientToProxy`,
  `ProxyToServer`, `ServerToProxy`, `ProxyToClient`): a way is a channel, its delayed
  copies and the slots of the container that belong to it, those before or behind the
  cursor.  The branches of Treatment move segments from way to way and rewrite their
  numbers; each has a lemma, on top of those of `DefenseThreadProofs`.  `CloseInv` adds to
  the invariant of the worker that no foreign packet is in it and (`FinInv`) that a
  FIN under way or noted in the entry was sent by a host that has sent everything.
  Alone `EntryLastsUntilBothClose` is not inductive: the step that erases the entry
  sees two flags of it, not the hosts.  `SessionInv` says what the numbers of the segments
  on every way can be in terms of what both hosts know (`SegmentsInv`), which cookie
  the client has accepted (`ClientInv`), by how much the server may be too high
  (`ServerInv`), what offset an open and what packet a waiting entry has (`EntryInv`).

`NumbersApart`, the hypothesis of three theorems, says that a cookie and the initial
number of a host are more than two apart, and so are an accepted cookie and one below
it that was sent.  The code cannot promise it: the numbers are drawn independently, and
the worker checks an acknowledgement by its value alone.  It fails with a
probability of about one in 2^24 per connection, when the hashes over two successive
timestamps agree.  Nor can it be dropped: with
`ServerIss` = 15, one below the cookie 0 (modulo 16), TLC finds `AckedIsReceived`
violated in the configuration of `session`: a repeated FIN is forwarded untranslated
(`InFinRepeated`), and its acknowledgement then counts as one of the server's data.  With two successive cookies, and with
`ClientIss` next to a cookie, no counterexample was found within two events; there the
proof uses the distance to tell segments apart.  Two is the number of units a host sends after its
SYN.  `MCProxySession` assumes `NumbersApart` of its values, so TLC evaluates it.
`SessionInv` was an invariant of the configuration of `session`, with no error, before it
was proved; it is not listed there since it follows from the theorem.

Only model-checked: liveness (`Establishes`, `ServerHears`, `ClientHears`,
`OrderlyCloseErases`, `FullRingsNeverBlock`, `QuitEndsUnlessStale`, and `QuitEndsProgram`
of the attacker), which with ENABLED is outside what the proof system can do; and
the violated claims.  Every invariant and every safety property of the steps that a
passing run checks is stated by a theorem.  No RECURSIVE operator is used.

## Not modelled, and why

Of 37.5 thousand lines of the repository's implementation about 31 thousand are two
vendored headers, `json.hpp` and `xxhash.hpp`; the program's own code is about 6
thousand lines.  Of these are left out:

* the calls of Initializer into DPDK that set up ports, queues and the pool, the parsing
  of Configurator, Cli, DebugHelper, pkt-capture and the GUI: I/O and set-up, with
  nothing that runs later;
* `StatisticsThread::run` and its monitor, which no part of the program launches;
* MbufContainer and its two subclasses, which nothing constructs, and
  `PacketContainerLean::get_empty_mbuf`, which nothing calls;
* the contents of headers beyond the four fields, and checksums: no property tells
  them apart.  Dissection appears as what it yields, a TCP packet or `Opaque`;
* the packets and the other counters of the attacker: a generator of traffic;
* XXH3, an arbitrary function here, and the random numbers that give the cookie
  secret, a constant;
* collisions of the table's reserved keys `Data(0,0,0,0)` and `Data(0,0,1,1)`, which need
  an address 0.0.0.0.

## Plan

The components that decide about packets, buffers, time and shutdown are modelled.
What would come next:

1. Several connections in `ProxySession`, with two workers and the distribution of
   packets by the RSS key in between.
2. The refinement from `DefenseThread` with `PacketContainer` in place of the slots to
   `DefenseThread` as it is: `PromiseImplemented` is its main part.
3. The payload counters of the attacker beside the count of attack packets.
