-------------------------- MODULE AegisMainProofs --------------------------
(***************************************************************************)
(* Proofs about AegisMain for every number of lcores, every configuration, *)
(* every number and size of rings.                                         *)
(*                                                                         *)
(* The inductive invariant is IInv of AegisMain.  Its part StartInv says   *)
(* which lcores run which threads while main starts them: the argument is  *)
(* that the bound of init_number_threads and the order in which            *)
(* rte_get_next_lcore returns lcores fit together.  Before SIGINT main is  *)
(* in its start or at the clock and nothing is deleted, which is why the   *)
(* defence stands until then.                                              *)
(***************************************************************************)
EXTENDS AegisMain, TLAPS

------------------------------------------------------------------------------
(* The number of threads and the order of the lcores.                      *)

\* An accepted number of threads fits on the lcores that main leaves.
LEMMA NumberFits ==
  ASSUME NEW n \in Numbers \cup {Absent, Text}, Valid(n)
  PROVE  LET nb == IF n = Absent THEN DefaultThreads ELSE n % ThreadsMod IN
         nb \in Threads /\ nb <= NbLcores - NUM_NON_WORKER_THREADS
<1>1. DefaultThreads = NbLcores - 1
  BY LcoresAssumption DEF DefaultThreads, NUM_NON_WORKER_THREADS
<1>2. CASE n = Absent
  BY <1>1, <1>2, LcoresAssumption DEF Threads, NUM_NON_WORKER_THREADS
<1>3. CASE n # Absent
  <2>1. n % ThreadsMod \in 1 .. DefaultThreads
    BY <1>3 DEF Valid, Accepted
  <2>2. QED
    BY <1>1, <1>3, <2>1, LcoresAssumption DEF Threads, NUM_NON_WORKER_THREADS
<1>4. QED
  BY <1>2, <1>3

\* While lcores are left for workers, the next one is the successor.
LEMMA NextLcore ==
  ASSUME NEW l \in Int, 0 <= l, l < NbLcores - 1
  PROVE  rte_get_next_lcore(l) = l + 1 /\ l + 1 \in Workers
BY LcoresAssumption DEF rte_get_next_lcore, Workers, Lcores, MainLcore

------------------------------------------------------------------------------
(* The initial states.                                                     *)

LEMMA InitEstablishes == Init => IInv
<1> SUFFICES ASSUME Init PROVE IInv
  OBVIOUS
<1>1. 0 \in Lcores /\ 0 \in Threads /\ RingRoom \in Nat
  BY LcoresAssumption, RingsAssumption DEF Lcores, Threads
<1>2. TypeOK
  <2>1. /\ thread \in [Lcores -> Threads \cup {Nobody}]
        /\ wpc \in [Lcores -> {"wait", "test", "enqueue", "inside", "outside", "stop"}]
    BY DEF Init
  <2>2. stored \in [RingIds -> 0 .. RingRoom]
    <3>1. 0 \in 0 .. RingRoom
      BY <1>1
    <3>2. QED
      BY <3>1 DEF Init
  <2>3. rings \subseteq RingIds /\ _quit \subseteq Threads /\ deleted \subseteq Threads
    BY DEF Init
  <2>4. lcore \in Lcores /\ nb_worker_threads \in Threads /\ i \in 0 .. nb_worker_threads
    BY <1>1 DEF Init, MainLcore
  <2>5. QED
    BY <2>1, <2>2, <2>3, <2>4 DEF Init, TypeOK
<1>3. StartInv
  BY LcoresAssumption
    DEF Init, StartInv, Starting, Up, Launched, NUM_NON_WORKER_THREADS, MainLcore, Nobody
<1>4. QED
  BY <1>2, <1>3 DEF Init, IInv, RunsUntilQuit

------------------------------------------------------------------------------
(* The start.                                                              *)

LEMMA ReadPreserves == IInv /\ (read_config \/ create) => IInv'
<1> SUFFICES ASSUME IInv, read_config \/ create PROVE IInv'
  OBVIOUS
<1>1. /\ mpc \in {"read_config", "create"}
      /\ UNCHANGED <<config, rereads, quit, lcore, nb_worker_threads, deleted, thread, wpc,
                     stale, stored, _quit, rings>>
      /\ alive' \in BOOLEAN
      /\ i = 0 /\ i' = 0
      /\ mpc' \in {mpc, "init_number_threads", "launch"}
  BY DEF read_config, create, At, Throw, mainVars, workerVars, IInv, StartInv, Starting, TypeOK
<1>2. TypeOK'
  BY <1>1 DEF IInv, TypeOK
<1>3. StartInv'
  BY <1>1 DEF IInv, StartInv, Starting, Up, Launched, MainLcore
<1>4. RunsUntilQuit'
  <2>1. alive' \/ ~config.read \/ ~(nb_worker_threads = 0 \/ config.complete)
    BY DEF read_config, create, At
  <2>2. (Provided' <=> Provided) /\ ~(stale' /\ ~quit')
    BY <1>1 DEF Provided, IInv, StartInv
  <2>3. QED
    BY <1>1, <2>1, <2>2 DEF RunsUntilQuit, Provided
<1>5. QED
  BY <1>2, <1>3, <1>4 DEF IInv

LEMMA NumberPreserves == IInv /\ init_number_threads => IInv'
<1> SUFFICES ASSUME IInv, init_number_threads PROVE IInv'
  OBVIOUS
<1>1. CASE Valid(config.number)
  <2> DEFINE nb == IF config.number = Absent THEN DefaultThreads ELSE config.number % ThreadsMod
  <2>1. /\ nb_worker_threads' = nb /\ mpc' = "create" /\ i = 0
        /\ UNCHANGED <<config, rereads, quit, alive, i, lcore, deleted, thread, wpc,
                       stale, stored, _quit, rings>>
    BY <1>1 DEF init_number_threads, At, workerVars, IInv, StartInv, Starting
  <2>2. nb \in Threads /\ nb <= NbLcores - NUM_NON_WORKER_THREADS
    BY <1>1, NumberFits DEF IInv, TypeOK, Config
  <2> HIDE DEF nb
  <2>3. TypeOK'
    BY <2>1, <2>2 DEF IInv, TypeOK, Threads
  <2>4. StartInv'
    BY <2>1, <2>2 DEF IInv, StartInv, Starting, Up, Launched, MainLcore, init_number_threads, At
  <2>5. RunsUntilQuit'
    BY <2>1 DEF RunsUntilQuit, IInv, StartInv, init_number_threads, At
  <2>6. QED
    BY <2>3, <2>4, <2>5 DEF IInv
<1>2. CASE ~Valid(config.number)
  <2>1. UNCHANGED <<config, rereads, quit, mpc, i, lcore, nb_worker_threads, deleted, thread,
                    wpc, stale, stored, _quit, rings>> /\ alive' = FALSE
    BY <1>2 DEF init_number_threads, Throw, mainVars, workerVars
  <2>2. RunsUntilQuit'
    BY <1>2, <2>1 DEF RunsUntilQuit, Provided
  <2>3. QED
    BY <2>1, <2>2 DEF IInv, TypeOK, StartInv, Starting, Up, Launched, MainLcore
<1>3. QED
  BY <1>1, <1>2

LEMMA LaunchPreserves == IInv /\ launch => IInv'
<1> SUFFICES ASSUME IInv, launch PROVE IInv'
  OBVIOUS
<1>1. /\ mpc = "launch" /\ lcore = i /\ Launched(i)
      /\ i \in Nat /\ i < nb_worker_threads /\ nb_worker_threads <= NbLcores - 1
      /\ nb_worker_threads \in Threads
  BY DEF launch, At, IInv, StartInv, Starting, Up, TypeOK, Threads, NUM_NON_WORKER_THREADS
<1>2. /\ lcore' = i + 1 /\ i + 1 \in Workers
      /\ i + 1 \in Lcores
  BY <1>1, NextLcore, LcoresAssumption DEF launch, Workers, Lcores, Threads
<1>3. wpc[i + 1] = "wait"
  BY <1>1, <1>2 DEF Launched
<1>4. /\ thread' = [thread EXCEPT ![i + 1] = i]
      /\ wpc' = [wpc EXCEPT ![i + 1] = "test"]
      /\ i' = i + 1
      /\ UNCHANGED <<config, rereads, alive, quit, mpc, nb_worker_threads, _quit,
                     deleted, stale, rings, stored>>
  BY <1>2, <1>3 DEF launch
<1>5. i \in Threads
  BY <1>1, LcoresAssumption DEF Threads
<1>6. TypeOK'
  BY <1>1, <1>2, <1>4, <1>5 DEF IInv, TypeOK
<1>7. Launched(i)'
  <2> SUFFICES ASSUME NEW l \in Lcores
               PROVE  IF l \in 1 .. i + 1
                      THEN thread'[l] = l - 1 /\ wpc'[l] \in {"test", "enqueue", "inside", "outside"}
                      ELSE thread'[l] = Nobody /\ wpc'[l] = "wait"
    BY <1>4 DEF Launched
  <2>1. CASE l = i + 1
    BY <1>1, <1>2, <1>4, <2>1 DEF IInv, TypeOK
  <2>2. CASE l # i + 1
    <3>1. thread'[l] = thread[l] /\ wpc'[l] = wpc[l]
      BY <1>4, <2>2 DEF IInv, TypeOK
    <3>2. l \in Int /\ (l \in 1 .. i + 1 <=> l \in 1 .. i)
      BY <1>1, <2>2, LcoresAssumption DEF Lcores
    <3>3. QED
      BY <1>1, <3>1, <3>2 DEF Launched
  <2>3. QED
    BY <2>1, <2>2
<1>8. StartInv'
  BY <1>1, <1>2, <1>4, <1>7 DEF IInv, StartInv, Starting, Up
<1>9. RunsUntilQuit'
  BY <1>4 DEF RunsUntilQuit, IInv, StartInv, launch, At
<1>10. QED
  BY <1>6, <1>8, <1>9 DEF IInv

------------------------------------------------------------------------------
(* The other steps of main.                                                *)

LEMMA MainLoopPreserves ==
  IInv /\ (launched \/ first_test \/ clock \/ quit_all \/ delete_all) => IInv'
<1> SUFFICES ASSUME IInv, launched \/ first_test \/ clock \/ quit_all \/ delete_all PROVE IInv'
  OBVIOUS
<1>1. /\ UNCHANGED <<config, rereads, alive, quit, lcore, nb_worker_threads, deleted, thread,
                     wpc, stale, stored, _quit, rings>>
      /\ i' \in {0, i}
      /\ \/ mpc = "launch" /\ i = nb_worker_threads /\ mpc' = "first_test"
         \/ mpc = "first_test" /\ (mpc' = "clock" \/ (mpc' = "quit" /\ quit))
         \/ /\ mpc \in {"clock", "quit", "delete"} /\ quit
            /\ mpc' \in {"quit", "delete", "mp_wait_lcore"}
      /\ alive
  BY DEF IInv, StartInv, Starting, Up, launched, first_test, clock, quit_all, delete_all,
       Proceed, MoveTo, At, workerVars
<1>2. TypeOK'
  BY <1>1 DEF IInv, TypeOK, Threads
<1>3. StartInv'
  BY <1>1 DEF IInv, StartInv, Starting, Up, Launched, MainLcore
<1>4. RunsUntilQuit'
  BY <1>1 DEF RunsUntilQuit, IInv, StartInv
<1>5. QED
  BY <1>2, <1>3, <1>4 DEF IInv

LEMMA ShutdownPreserves == IInv /\ (quit_thread \/ delete_thread) => IInv'
<1> SUFFICES ASSUME IInv, quit_thread \/ delete_thread PROVE IInv'
  OBVIOUS
<1>1. /\ UNCHANGED <<config, rereads, alive, quit, mpc, lcore, nb_worker_threads, thread,
                     wpc, stale, stored, rings>>
      /\ mpc \in {"quit", "delete"}
      /\ i' = i + 1 /\ i < nb_worker_threads
      /\ _quit' \in {_quit, _quit \cup {i}} /\ deleted' \in {deleted, deleted \cup {i}}
  BY DEF quit_thread, delete_thread, At, workerVars
<1>2. i \in Threads
  BY <1>1, LcoresAssumption DEF IInv, TypeOK, Threads
<1>3. TypeOK'
  BY <1>1, <1>2 DEF IInv, TypeOK, Threads
<1>4. QED
  BY <1>1, <1>3 DEF IInv, StartInv, Starting, Up, Launched, RunsUntilQuit

LEMMA WaitPreserves == IInv /\ rte_eal_mp_wait_lcore => IInv'
<1> SUFFICES ASSUME IInv, rte_eal_mp_wait_lcore PROVE IInv'
  OBVIOUS
<1>1. /\ UNCHANGED <<config, rereads, alive, quit, i, lcore, nb_worker_threads, deleted, thread,
                     wpc, stale, stored, _quit, rings>>
      /\ mpc = "mp_wait_lcore" /\ mpc' = "done"
  BY DEF rte_eal_mp_wait_lcore, MoveTo, At, workerVars
<1>2. QED
  BY <1>1 DEF IInv, TypeOK, StartInv, Starting, Up, RunsUntilQuit

LEMMA SignalPreserves == IInv /\ handle_quit => IInv'
<1> SUFFICES ASSUME IInv, handle_quit PROVE IInv'
  OBVIOUS
<1>1. /\ UNCHANGED <<config, rereads, alive, mpc, i, lcore, nb_worker_threads, deleted, thread,
                     wpc, stale, stored, _quit, rings>>
      /\ quit' = TRUE
  BY DEF handle_quit, mainVars, workerVars
<1>2. QED
  BY <1>1 DEF IInv, TypeOK, StartInv, Starting, Up, Launched, MainLcore, RunsUntilQuit

------------------------------------------------------------------------------
(* The workers.                                                            *)

\* What a worker does to its place, its objects and its ring.
LEMMA RunStep ==
  ASSUME IInv, NEW l \in Workers, run(l)
  PROVE  \E to \in {"test", "enqueue", "inside", "outside", "stop", "wait"} :
           /\ wpc' = [wpc EXCEPT ![l] = to]
           /\ thread' = [thread EXCEPT ![l] = IF to = "wait" THEN Nobody ELSE @]
           /\ UNCHANGED <<config, rereads, quit, mpc, i, lcore, nb_worker_threads, deleted,
                          _quit, rings>>
           /\ alive' \in BOOLEAN /\ stale' \in BOOLEAN
           /\ stored' \in [RingIds -> 0 .. RingRoom]
           /\ wpc[l] # "wait"
           /\ ~Stale(l) => stale' = stale /\ (l \in rings => alive')
           /\ thread[l] \notin _quit \cup deleted =>
                to \in {"test", "enqueue", "inside", "outside"} \/ wpc[l] = "stop"
<1> USE DEF Step, mainVars, Running
<1>1. /\ stored \in [RingIds -> 0 .. RingRoom] /\ stale \in BOOLEAN /\ alive \in BOOLEAN
      /\ rings \subseteq RingIds
  BY DEF IInv, TypeOK
<1>2. CASE test(l)
  <2>1. PICK seen \in BOOLEAN :
          /\ Step(l, IF seen THEN "stop" ELSE "enqueue")
          /\ ~Stale(l) => (seen <=> thread[l] \in _quit)
    BY <1>2 DEF test
  <2>2. /\ stale' \in BOOLEAN /\ alive' \in BOOLEAN /\ stored' = stored
        /\ ~Stale(l) => stale' = stale /\ alive'
    BY <1>1, <1>2 DEF test, Uses
  <2>3. wpc[l] = "test"
    BY <1>2 DEF test
  <2>4. CASE seen
    BY <1>1, <2>1, <2>2, <2>3, <2>4 DEF Stale
  <2>5. CASE ~seen
    BY <1>1, <2>1, <2>2, <2>3, <2>5 DEF Stale
  <2>6. QED
    BY <2>4, <2>5
<1>3. CASE enqueue_statistics(l)
  <2>1. stored' \in [RingIds -> 0 .. RingRoom]
    <3>1. \A r \in RingIds : stored[r] \in 0 .. RingRoom
      BY <1>1
    <3>2. \A r \in RingIds :
            (IF r = l /\ l \in rings /\ stored[r] < RingRoom THEN stored[r] + 1 ELSE stored[r]) \in 0 .. RingRoom
      BY <3>1, RingsAssumption
    <3>3. QED
      BY <1>3, <3>2 DEF enqueue_statistics
  <2>2. /\ stale' \in BOOLEAN /\ alive' \in BOOLEAN
        /\ ~Stale(l) => stale' = stale /\ (l \in rings => alive')
    BY <1>1, <1>3 DEF enqueue_statistics, Enqueues
  <2>3. QED
    BY <1>1, <1>3, <2>1, <2>2 DEF enqueue_statistics
<1>4. CASE inside(l) \/ outside(l) \/ stop(l)
  <2>1. /\ stale' \in BOOLEAN /\ alive' \in BOOLEAN /\ stored' = stored
        /\ ~Stale(l) => stale' = stale /\ alive'
    BY <1>1, <1>4 DEF inside, outside, stop, Uses
  <2>2. QED
    BY <1>1, <1>4, <2>1 DEF inside, outside, stop
<1>5. QED
  BY <1>2, <1>3, <1>4 DEF run

LEMMA RunPreserves == ASSUME IInv, NEW l \in Workers, run(l) PROVE IInv'
<1>1. PICK to \in {"test", "enqueue", "inside", "outside", "stop", "wait"} :
           /\ wpc' = [wpc EXCEPT ![l] = to]
           /\ thread' = [thread EXCEPT ![l] = IF to = "wait" THEN Nobody ELSE @]
           /\ UNCHANGED <<config, rereads, quit, mpc, i, lcore, nb_worker_threads, deleted,
                          _quit, rings>>
           /\ alive' \in BOOLEAN /\ stale' \in BOOLEAN
           /\ stored' \in [RingIds -> 0 .. RingRoom]
           /\ wpc[l] # "wait"
           /\ ~Stale(l) => stale' = stale /\ (l \in rings => alive')
           /\ thread[l] \notin _quit \cup deleted =>
                to \in {"test", "enqueue", "inside", "outside"} \/ wpc[l] = "stop"
  BY RunStep
<1>2. l \in Lcores
  BY DEF Workers
<1>3. TypeOK'
  BY <1>1, <1>2 DEF IInv, TypeOK
<1>4. ASSUME NEW n \in Int, Launched(n), _quit = {}, deleted = {} PROVE Launched(n)'
  <2>1. l \in 1 .. n /\ thread[l] = l - 1 /\ wpc[l] # "stop"
    BY <1>1, <1>2, <1>4 DEF Launched
  <2>2. to \in {"test", "enqueue", "inside", "outside"}
    BY <1>1, <1>4, <2>1
  <2>3. thread' = thread
    BY <1>1, <1>2, <2>2 DEF IInv, TypeOK
  <2>4. QED
    BY <1>1, <1>2, <1>4, <2>1, <2>2, <2>3 DEF IInv, TypeOK, Launched
<1>5. ASSUME ~quit PROVE ~Stale(l) /\ (Provided => l \in rings)
  <2>1. PICK n \in Int : n <= nb_worker_threads /\ Launched(n) /\ deleted = {}
    <3>1. /\ 0 \in Int /\ 0 <= nb_worker_threads /\ nb_worker_threads \in Int
          /\ i \in Int /\ i <= nb_worker_threads
      BY DEF IInv, TypeOK, Threads
    <3>2. Starting \/ mpc = "launch" \/ Up
      BY <1>5 DEF IInv, StartInv
    <3>3. deleted = {} /\ (Launched(0) \/ Launched(i) \/ Launched(nb_worker_threads))
      BY <3>2 DEF IInv, StartInv
    <3>4. QED
      BY <3>1, <3>3
  <2>2. l \in 1 .. n
    BY <1>1, <1>2, <2>1 DEF Launched
  <2>3. nb_worker_threads \in Int
    BY DEF IInv, TypeOK, Threads
  <2>4. l \in 1 .. nb_worker_threads
    BY <2>1, <2>2, <2>3
  <2>5. QED
    BY <2>1, <2>4 DEF Stale, Provided
<1>6. StartInv'
  <2>1. i \in Int /\ nb_worker_threads \in Int /\ 0 \in Int
    BY DEF IInv, TypeOK, Threads
  <2>2. ASSUME Starting PROVE Launched(0)'
    BY <1>4, <2>1, <2>2 DEF IInv, StartInv
  <2>3. ASSUME mpc = "launch" PROVE Launched(i)'
    BY <1>1, <1>4, <2>1, <2>3 DEF IInv, StartInv
  <2>4. ASSUME Up PROVE Launched(nb_worker_threads)'
    BY <1>1, <1>4, <2>1, <2>4 DEF IInv, StartInv
  <2>5. QED
    BY <1>1, <1>5, <2>2, <2>3, <2>4 DEF IInv, StartInv, Starting, Up, MainLcore
<1>7. RunsUntilQuit'
  <2> SUFFICES ASSUME Provided, ~quit PROVE alive' /\ ~stale'
    BY <1>1 DEF RunsUntilQuit, Provided
  <2>1. ~Stale(l) /\ l \in rings
    BY <1>5
  <2>2. QED
    BY <1>1, <2>1 DEF IInv, StartInv
<1>8. QED
  BY <1>3, <1>6, <1>7 DEF IInv

------------------------------------------------------------------------------
(* The theorems.                                                           *)

LEMMA StutterPreserves == IInv /\ UNCHANGED vars => IInv'
BY DEF IInv, TypeOK, StartInv, Starting, Up, Launched, RunsUntilQuit, Provided, vars

LEMMA NextPreserves == IInv /\ [Next]_vars => IInv'
BY ReadPreserves, NumberPreserves, LaunchPreserves, MainLoopPreserves, ShutdownPreserves,
  WaitPreserves, SignalPreserves, RunPreserves, StutterPreserves
  DEF Next, Main, Ended

(***************************************************************************)
(* The inductive invariant holds from reading the configuration to the     *)
(* end of the process.                                                     *)
(***************************************************************************)
THEOREM InvariantHolds == Spec => []IInv
BY InitEstablishes, NextPreserves, PTL DEF Spec

\* Type correctness of main, the workers and the rings.
THEOREM TypesHold == Spec => []TypeOK
<1>1. IInv => TypeOK
  BY DEF IInv
<1>2. QED
  BY <1>1, InvariantHolds, PTL

(***************************************************************************)
(* Whatever number of threads is configured and however many lcores there  *)
(* are, every queue of the network cards is polled by a worker of its own  *)
(* once the start is over.                                                 *)
(***************************************************************************)
THEOREM EveryQueueServedHolds == Spec => []EveryQueueServed
<1>1. IInv => EveryQueueServed
  <2> SUFFICES ASSUME IInv, mpc \in {"first_test", "clock"},
                      NEW q \in 0 .. nb_worker_threads - 1
               PROVE  \E l \in Workers : /\ thread[l] = q
                                         /\ \A k \in Lcores : thread[k] = q => k = l
    BY DEF EveryQueueServed
  <2>1. Launched(nb_worker_threads) /\ nb_worker_threads <= NbLcores - 1
    BY DEF IInv, StartInv, Up, NUM_NON_WORKER_THREADS
  <2>2. /\ nb_worker_threads \in Int /\ q + 1 \in 1 .. nb_worker_threads
        /\ q + 1 \in Workers /\ q + 1 \in Lcores
    BY <2>1, LcoresAssumption DEF IInv, TypeOK, Threads, Workers, Lcores, MainLcore
  <2>3. thread[q + 1] = q
    BY <2>1, <2>2 DEF Launched
  <2>4. ASSUME NEW k \in Lcores, thread[k] = q PROVE k = q + 1
    BY <2>1, <2>2, <2>4, LcoresAssumption DEF Launched, Nobody, Lcores
  <2>5. QED
    BY <2>2, <2>3, <2>4
<1>2. QED
  BY <1>1, InvariantHolds, PTL

(***************************************************************************)
(* For every number of lcores and every complete configuration neither     *)
(* main nor a worker ends the process or uses a deleted object before      *)
(* SIGINT.                                                                 *)
(***************************************************************************)
THEOREM RunsUntilQuitHolds == Spec => []RunsUntilQuit
<1>1. IInv => RunsUntilQuit
  BY DEF IInv
<1>2. QED
  BY <1>1, InvariantHolds, PTL

==============================================================================
