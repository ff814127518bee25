------------------------------ MODULE AegisMain ------------------------------
(***************************************************************************)
(* The program around the workers: main of source/main.cpp from reading    *)
(* the configuration to rte_eal_cleanup, the loop of DefenseThread::run on *)
(* the lcores it launches, the flags of Thread they share and the rings of *)
(* StatisticsThread the workers fill.                                      *)
(*                                                                         *)
(* What a worker does with packets is in module DefenseThread; here an     *)
(* iteration is the order in which it touches its objects, which main      *)
(* deletes.  A use of a deleted object is undefined: the process dies, or  *)
(* the worker goes on with whatever it read.                               *)
(***************************************************************************)
EXTENDS Integers

CONSTANTS
  NbLcores,    \* rte_lcore_count(); lcore 0 is the one of main
  NbRings,     \* length of _s_queue (16)
  RingRoom,    \* elements a ring of size 4 holds (3)
  Numbers,     \* integers number_of_worker_threads may be in config.json
  ThreadsMod,  \* u_int16_t: 2^16
  Absent,      \* the key is in neither file
  Text         \* the value does not convert to an int

NUM_NON_WORKER_THREADS == 1

ASSUME LcoresAssumption == NbLcores \in Nat \ {0} /\ ThreadsMod \in Nat /\ NbLcores <= ThreadsMod
ASSUME RingsAssumption == NbRings \in Nat /\ RingRoom \in Nat
ASSUME NumbersAssumption == Numbers \subseteq Int /\ Absent \notin Int /\ Text \notin Int

VARIABLES
  config,   \* what the two configuration files hold
  rereads,  \* the build reads quit in every round (debug), or once (release)
  alive,    \* FALSE once an exception or a fault has ended the process
  quit,     \* the global flag handle_quit sets
  mpc, i,   \* where main is, and the index of its loops
  lcore,    \* lcore_id of main
  nb_worker_threads,
  thread,   \* the thread whose run an lcore executes, or Nobody
  wpc,      \* where that run is
  _quit,    \* the threads whose member _quit is set
  deleted,  \* threads deleted with their containers
  stale,    \* history: a deleted object has been used
  rings,    \* the rings that rte_ring_create returned
  stored    \* elements in each ring

mainVars == <<config, rereads, mpc, i, lcore, nb_worker_threads, deleted>>
workerVars == <<thread, wpc, stale, stored>>
vars == <<config, rereads, alive, quit, mpc, i, lcore, nb_worker_threads,
          thread, wpc, _quit, deleted, stale, rings, stored>>

Lcores == 0 .. NbLcores - 1
MainLcore == 0
Workers == Lcores \ {MainLcore}
RingIds == 0 .. NbRings - 1
Threads == 0 .. ThreadsMod - 1
Nobody == -1

Config == [read : BOOLEAN, number : Numbers \cup {Absent, Text}, complete : BOOLEAN]

Init ==
  /\ config \in Config
  /\ rereads \in BOOLEAN
  /\ alive = TRUE /\ quit = FALSE
  /\ mpc = "read_config" /\ i = 0
  /\ lcore = MainLcore
  /\ nb_worker_threads = 0
  /\ thread = [l \in Lcores |-> Nobody]
  /\ wpc = [l \in Lcores |-> "wait"]
  /\ _quit = {}
  /\ deleted = {}
  /\ stale = FALSE
  /\ rings \in SUBSET RingIds
  /\ stored = [r \in RingIds |-> 0]

------------------------------------------------------------------------------
(* main: the start.                                                        *)

\* An exception that nothing catches.
Throw ==
  /\ alive' = FALSE
  /\ UNCHANGED <<mainVars, workerVars, quit, _quit, rings>>

\* The number of lcores that are left for workers.
DefaultThreadsAll == NbLcores % ThreadsMod
DefaultThreads == (NbLcores - NUM_NON_WORKER_THREADS) % ThreadsMod

\* Mutation: a number above the default is taken.
AcceptedUnbounded(n) == n % ThreadsMod > 0

\* std::stoi into a u_int16_t, then the comparison with the bounds.
Accepted(n) == n % ThreadsMod \in 1 .. DefaultThreads

At(from) == alive /\ mpc = from

read_config ==
  /\ At("read_config")
  /\ IF config.read
     THEN /\ mpc' = "init_number_threads"
          /\ UNCHANGED <<config, rereads, i, lcore, nb_worker_threads, deleted, alive>>
          /\ UNCHANGED <<workerVars, quit, _quit, rings>>
     ELSE Throw

\* entry_exists, get_config_as_string and what is made of the string.
Valid(n) == n = Absent \/ (n # Text /\ Accepted(n))

init_number_threads ==
  /\ At("init_number_threads")
  /\ IF Valid(config.number)
     THEN /\ nb_worker_threads' =
               IF config.number = Absent THEN DefaultThreads ELSE config.number % ThreadsMod
          /\ mpc' = "create"
          /\ UNCHANGED <<config, rereads, i, lcore, deleted, alive>>
          /\ UNCHANGED <<workerVars, quit, _quit, rings>>
     ELSE Throw

\* The constructor of Inspection reads its weights and thresholds; a missing
\* key is found as a null of _default_config that converts to no number.
create ==
  /\ At("create")
  /\ IF nb_worker_threads = 0 \/ config.complete
     THEN /\ mpc' = "launch" /\ i' = 0
          /\ UNCHANGED <<config, rereads, lcore, nb_worker_threads, deleted, alive>>
          /\ UNCHANGED <<workerVars, quit, _quit, rings>>
     ELSE Throw

\* rte_get_next_lcore(l, skip main, wrap)
rte_get_next_lcore(l) == IF l + 1 < NbLcores THEN l + 1 ELSE 1

\* rte_eal_remote_launch returns -EBUSY for an lcore that does not wait.
launch ==
  /\ At("launch") /\ i < nb_worker_threads
  /\ lcore' = rte_get_next_lcore(lcore)
  /\ IF lcore' \in Workers /\ wpc[lcore'] = "wait"
     THEN /\ thread' = [thread EXCEPT ![lcore'] = i]
          /\ wpc' = [wpc EXCEPT ![lcore'] = "test"]
     ELSE UNCHANGED <<thread, wpc>>
  /\ i' = i + 1
  /\ UNCHANGED <<config, rereads, alive, quit, mpc, nb_worker_threads, _quit,
                 deleted, stale, rings, stored>>

Proceed(from, to) ==
  /\ At(from) /\ i = nb_worker_threads
  /\ mpc' = to /\ i' = 0
  /\ UNCHANGED <<config, rereads, lcore, nb_worker_threads, deleted>>
  /\ UNCHANGED <<workerVars, alive, quit, _quit, rings>>

launched == Proceed("launch", "first_test")

------------------------------------------------------------------------------
(* main: the clock.  The ticks themselves are in CookieClock.              *)

MoveTo(to) ==
  /\ mpc' = to
  /\ UNCHANGED <<config, rereads, i, lcore, nb_worker_threads, deleted>>
  /\ UNCHANGED <<workerVars, alive, quit, _quit, rings>>

\* Mutation: a signal that came during the start is forgotten.
first_test_forgetful ==
  /\ At("first_test")
  /\ mpc' = "clock" /\ quit' = FALSE
  /\ UNCHANGED <<config, rereads, i, lcore, nb_worker_threads, deleted>>
  /\ UNCHANGED <<workerVars, alive, _quit, rings>>

\* Mutation: the loop is left although nobody has asked for it.
clock_unasked == At("clock") /\ MoveTo("quit")

first_test == At("first_test") /\ MoveTo(IF quit THEN "quit" ELSE "clock")

\* quit is neither atomic nor volatile, and nothing in the loop can change
\* it as far as the compiler sees: it need not be read again.
clock == At("clock") /\ rereads /\ quit /\ MoveTo("quit")

handle_quit ==
  /\ alive /\ mpc # "done"
  /\ quit' = TRUE
  /\ UNCHANGED <<mainVars, workerVars, alive, _quit, rings>>

------------------------------------------------------------------------------
(* main: the end.                                                          *)

\* Mutation: the loop runs once too often.
quit_thread_too_many ==
  /\ At("quit") /\ i <= nb_worker_threads
  /\ _quit' = _quit \cup {i}
  /\ i' = i + 1
  /\ UNCHANGED <<config, rereads, mpc, lcore, nb_worker_threads, deleted>>
  /\ UNCHANGED <<workerVars, alive, quit, rings>>

quit_thread ==
  /\ At("quit") /\ i < nb_worker_threads
  /\ _quit' = _quit \cup {i}
  /\ i' = i + 1
  /\ UNCHANGED <<config, rereads, mpc, lcore, nb_worker_threads, deleted>>
  /\ UNCHANGED <<workerVars, alive, quit, rings>>

quit_all == Proceed("quit", "delete")

\* The thread, its Treatment and its two containers.
delete_thread ==
  /\ At("delete") /\ i < nb_worker_threads
  /\ deleted' = deleted \cup {i}
  /\ i' = i + 1
  /\ UNCHANGED <<config, rereads, mpc, lcore, nb_worker_threads>>
  /\ UNCHANGED <<workerVars, alive, quit, _quit, rings>>

delete_all == Proceed("delete", "mp_wait_lcore")

rte_eal_mp_wait_lcore ==
  /\ At("mp_wait_lcore")
  /\ \A l \in Workers : wpc[l] = "wait"
  /\ MoveTo("done")

Main ==
  \/ read_config \/ init_number_threads \/ create \/ launch \/ launched
  \/ first_test \/ clock
  \/ quit_thread \/ quit_all \/ delete_thread \/ delete_all \/ rte_eal_mp_wait_lcore

------------------------------------------------------------------------------
(* DefenseThread::run on lcore l.                                          *)

Running(l, at) == alive /\ mpc # "done" /\ wpc[l] = at
Stale(l) == thread[l] \in deleted

Step(l, to) ==
  /\ wpc' = [wpc EXCEPT ![l] = to]
  /\ thread' = [thread EXCEPT ![l] = IF to = "wait" THEN Nobody ELSE @]
  /\ UNCHANGED <<mainVars, quit, _quit, rings>>

\* The worker uses its thread object: what a deleted one does is open.
Uses(l) ==
  /\ stale' = (stale \/ Stale(l))
  /\ alive' \in IF Stale(l) THEN BOOLEAN ELSE {TRUE}

test(l) ==
  /\ Running(l, "test")
  /\ \E seen \in IF Stale(l) THEN BOOLEAN ELSE {thread[l] \in _quit} :
       Step(l, IF seen THEN "stop" ELSE "enqueue")
  /\ Uses(l)
  /\ UNCHANGED stored

\* A ring that was not created is a null pointer; beyond the last ring lies
\* other memory.
Enqueues(l) ==
  /\ stale' = (stale \/ Stale(l))
  /\ alive' \in IF l \in RingIds \ rings THEN {FALSE}
               ELSE IF Stale(l) \/ l \notin RingIds THEN BOOLEAN ELSE {TRUE}

\* Mutation: the worker waits for room in its ring.
enqueue_waiting(l) ==
  /\ Running(l, "enqueue")
  /\ l \in rings => stored[l] < RingRoom
  /\ Step(l, "inside")
  /\ Enqueues(l)
  /\ stored' = [r \in RingIds |-> IF r = l /\ l \in rings THEN stored[r] + 1 ELSE stored[r]]

\* _statistics_thread is read through the thread object, the rings are static.
\* Nobody dequeues; a full ring refuses the element and the result is not
\* looked at.
enqueue_statistics(l) ==
  /\ Running(l, "enqueue")
  /\ Step(l, "inside")
  /\ Enqueues(l)
  /\ stored' = [r \in RingIds |->
                 IF r = l /\ l \in rings /\ stored[r] < RingRoom THEN stored[r] + 1 ELSE stored[r]]

\* Poll, treat and send, for one side and then for the other.
inside(l) == Running(l, "inside") /\ Step(l, "outside") /\ Uses(l) /\ UNCHANGED stored
outside(l) == Running(l, "outside") /\ Step(l, "test") /\ Uses(l) /\ UNCHANGED stored

\* _running = false; the lcore waits again.
stop(l) == Running(l, "stop") /\ Step(l, "wait") /\ Uses(l) /\ UNCHANGED stored

run(l) == test(l) \/ enqueue_statistics(l) \/ inside(l) \/ outside(l) \/ stop(l)

Ended == (~alive \/ mpc = "done") /\ UNCHANGED vars

Next == Main \/ handle_quit \/ (\E l \in Workers : run(l)) \/ Ended

\* Main and every worker have an lcore of their own.
Fairness == WF_vars(Main) /\ \A l \in Workers : WF_vars(run(l))

Spec == Init /\ [][Next]_vars /\ Fairness

------------------------------------------------------------------------------
(* Correctness.                                                            *)

\* Every variable holds values of the type the code declares for it.
TypeOK ==
  /\ config \in Config /\ rereads \in BOOLEAN
  /\ alive \in BOOLEAN /\ quit \in BOOLEAN /\ stale \in BOOLEAN
  /\ mpc \in {"read_config", "init_number_threads", "create", "launch", "first_test",
              "clock", "quit", "delete", "mp_wait_lcore", "done"}
  /\ nb_worker_threads \in Threads /\ i \in 0 .. nb_worker_threads
  /\ lcore \in Lcores
  /\ thread \in [Lcores -> Threads \cup {Nobody}]
  /\ wpc \in [Lcores -> {"wait", "test", "enqueue", "inside", "outside", "stop"}]
  /\ _quit \subseteq Threads
  /\ deleted \subseteq Threads
  /\ rings \subseteq RingIds
  /\ stored \in [RingIds -> 0 .. RingRoom]

(***************************************************************************)
(* Once main has started its threads, every queue that was set up on the   *)
(* network cards, one per worker, is polled by a worker on an lcore of its *)
(* own: the number of threads, whatever is configured, the lcores skipped  *)
(* and the launches that may fail fit together.  A queue nobody polls      *)
(* would silently lose its share of the connections.                       *)
(***************************************************************************)
EveryQueueServed ==
  mpc \in {"first_test", "clock"} =>
    \A q \in 0 .. nb_worker_threads - 1 :
      \E l \in Workers :
        /\ thread[l] = q
        /\ \A k \in Lcores : thread[k] = q => k = l

\* What main was given is complete, and so are the rings of the lcores it uses.
Provided ==
  /\ config.read /\ Valid(config.number)
  /\ nb_worker_threads = 0 \/ config.complete
  /\ 1 .. nb_worker_threads \subseteq rings

(***************************************************************************)
(* The defence stands until the operator asks for its end: with a complete *)
(* configuration and a ring for every lcore in use, no number of threads   *)
(* and no order of main and the workers ends the process or lets a worker  *)
(* use an object that has been deleted, before SIGINT.                     *)
(***************************************************************************)
RunsUntilQuit == Provided /\ ~quit => alive /\ ~stale

(***************************************************************************)
(* Statistics never hold up the traffic: although nobody drains the rings  *)
(* and they fill up, a worker that starts an iteration polls, until main   *)
(* is told to quit.                                                        *)
(***************************************************************************)
FullRingsNeverBlock ==
  \A l \in Workers : (wpc[l] = "test" /\ ~quit) ~> (wpc[l] = "inside" \/ quit \/ ~alive)

(***************************************************************************)
(* If every round reads quit and no deleted object was used, SIGINT ends   *)
(* the program, whenever it comes.                                         *)
(***************************************************************************)
QuitEndsUnlessStale == (quit /\ rereads) ~> (mpc = "done" \/ ~alive \/ stale)

(***************************************************************************)
(* DefenseThread.cpp:32 tells the operator of every worker "[Ctrl+C to     *)
(* quit]".  A worker whose object main deletes before it has read _quit    *)
(* may read FALSE for ever and main waits for it; and a build that does    *)
(* not read quit again never leaves the clock.                             *)
(***************************************************************************)
QuitEndsProgram == quit ~> (mpc = "done" \/ ~alive)

------------------------------------------------------------------------------
(* The inductive invariant behind the safety properties.                   *)

\* The first n workers run the first n threads, in order, and nobody else runs.
Launched(n) ==
  \A l \in Lcores :
    IF l \in 1 .. n
    THEN thread[l] = l - 1 /\ wpc[l] \in {"test", "enqueue", "inside", "outside"}
    ELSE thread[l] = Nobody /\ wpc[l] = "wait"

Starting == mpc \in {"read_config", "init_number_threads", "create"}
Up == mpc \in {"first_test", "clock"}

StartInv ==
  /\ nb_worker_threads <= NbLcores - NUM_NON_WORKER_THREADS
  /\ Starting => i = 0 /\ lcore = MainLcore /\ Launched(0)
  /\ mpc = "launch" => lcore = i /\ Launched(i)
  /\ Up => Launched(nb_worker_threads)
  /\ Starting \/ mpc = "launch" \/ Up => _quit = {} /\ deleted = {}
  /\ Starting \/ mpc = "launch" \/ Up \/ quit
  /\ stale => quit

IInv == TypeOK /\ StartInv /\ RunsUntilQuit

==============================================================================
