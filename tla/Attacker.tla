------------------------------- MODULE Attacker -------------------------------
(***************************************************************************)
(* The traffic generator: main of source/Attacker/main.cpp, the            *)
(* AttackThreads of include/Threads/AttackThread.hpp and the flags of      *)
(* Thread they share.                                                      *)
(*                                                                         *)
(* main launches all threads but the last on lcores of their own and calls *)
(* iterate of the last one itself.  After SIGINT it sets _quit of each     *)
(* launched thread, waits until none is running, adds up the counters and  *)
(* deletes the objects.  The build type is debug (meson.build:7), so every *)
(* test of a flag is a read of the variable.                               *)
(***************************************************************************)
EXTENDS Integers, FiniteSets, FiniteSetsExt

CONSTANTS
  NumThreads,  \* nb_worker_threads
  MaxPolled,   \* most packets of one poll, BURST_SIZE
  NbAttack,    \* _nb_attack_packets; 0 stands for attack type none, too
  CounterMod   \* counters are u_int64_t: 2^64

ASSUME ThreadsAssumption == NumThreads \in Nat \ {0}
ASSUME PacketsAssumption == MaxPolled \in Nat /\ NbAttack \in Nat
ASSUME CounterAssumption == CounterMod \in Nat \ {0}

VARIABLES
  alive,    \* FALSE once an exception has ended the process
  quit,     \* the global flag handle_quit sets
  mpc, i,   \* where main is, and the index of its loops
  wpc,      \* where each AttackThread is
  polled,   \* _nb_pkts_to_dave
  _quit, _running,  \* the members of Thread
  total,    \* _total_nb_atk_pkts
  nb_atk_pkts,      \* the sum main prints
  exists,   \* the objects of a thread that are not deleted
  start,    \* history: what total held before the first iteration
  net       \* history: packets sent to dave minus packets polled from alice

vars == <<alive, quit, mpc, i, wpc, polled, _quit, _running, total,
          nb_atk_pkts, exists, start, net>>

flags == <<_quit, _running>>
counters == <<polled, total, start, net>>

Threads == 0 .. NumThreads - 1
Own == NumThreads - 1
Launched == Threads \ {Own}

\* u_int64_t arithmetic wraps around.
Wrap(n) == n % CounterMod

\* The constructor sets _quit and _running, but none of the totals.
Init ==
  /\ alive = TRUE /\ quit = FALSE
  /\ mpc = "launch" /\ i = 0
  /\ wpc = [t \in Threads |-> "created"]
  /\ polled = [t \in Threads |-> 0]
  /\ _quit = [t \in Threads |-> FALSE]
  /\ _running = [t \in Threads |-> TRUE]
  /\ total \in [Threads -> 0 .. CounterMod - 1]
  /\ nb_atk_pkts = 0
  /\ exists = Threads
  /\ start = total
  /\ net = [t \in Threads |-> 0]

------------------------------------------------------------------------------
(* iterate: first the packets to alice, then those to dave.  The counters  *)
(* of packets and bytes to and from alice are left out.                    *)

Step(t, from, to) == wpc[t] = from /\ wpc' = [wpc EXCEPT ![t] = to]

\* What is not for alice is dropped and the rest sent; dave's poll follows.
ForwardToAlice(t) ==
  /\ Step(t, "alice", "dave")
  /\ \E n \in 0 .. MaxPolled : polled' = [polled EXCEPT ![t] = n]
  /\ UNCHANGED <<total, start, net, alive>>

\* Mutations: the polled packets are counted; the difference does not wrap.
CountedWithPolled(n, sent, p) == Wrap(n + sent)
CountedUnwrapped(n, sent, p) == n + sent - p

\* _total_nb_atk_pkts + send_mbufs() - _nb_pkts_to_dave
Counted(n, sent, p) == Wrap(n + sent - p)

\* The card accepts some of the polled and created packets.
SendToDave(t) ==
  /\ Step(t, "dave", "test")
  /\ \E sent \in 0 .. polled[t] + NbAttack :
       /\ total' = [total EXCEPT ![t] = Counted(@, sent, polled[t])]
       /\ net' = [net EXCEPT ![t] = Wrap(@ + sent - polled[t])]
  /\ UNCHANGED <<polled, start, alive>>

\* rte_pktmbuf_copy finds the pool empty: nothing catches the exception.
OutOfBuffers(t) ==
  /\ wpc[t] = "dave" /\ NbAttack > 0
  /\ alive' = FALSE
  /\ UNCHANGED <<wpc, counters>>

Iterate(t) == ForwardToAlice(t) \/ SendToDave(t) \/ OutOfBuffers(t)

------------------------------------------------------------------------------
(* run of a launched thread.                                               *)

TestQuit(t) ==
  /\ Step(t, "test", IF _quit[t] THEN "stop" ELSE "alice")
  /\ UNCHANGED <<alive, counters, flags>>

Stop(t) ==
  /\ Step(t, "stop", "returned")
  /\ _running' = [_running EXCEPT ![t] = FALSE]
  /\ UNCHANGED <<alive, counters, _quit>>

Run(t) ==
  /\ alive
  /\ \/ TestQuit(t)
     \/ Stop(t)
     \/ Iterate(t) /\ UNCHANGED flags
  /\ UNCHANGED <<quit, mpc, i, nb_atk_pkts, exists>>

------------------------------------------------------------------------------
(* main                                                                    *)

Goto(from, to) == alive /\ mpc = from /\ mpc' = to

\* One round of a for-loop from 0 to n - 1, and the exit of the loop.
Round(label, n) == Goto(label, label) /\ i < n /\ i' = i + 1
Exit(label, n, to) == Goto(label, to) /\ i = n /\ i' = 0

Launch ==
  /\ Round("launch", Own)
  /\ wpc' = [wpc EXCEPT ![i] = "test"]
  /\ UNCHANGED <<alive, quit, flags, counters, nb_atk_pkts, exists>>

\* while (quit == false) iterate the last thread.
TestGlobalQuit ==
  /\ Goto("run", IF quit THEN "quit" ELSE "iterate")
  /\ wpc' = IF quit THEN wpc ELSE [wpc EXCEPT ![Own] = "alice"]
  /\ UNCHANGED <<alive, quit, i, flags, counters, nb_atk_pkts, exists>>

IterateOwn ==
  /\ Goto("iterate", IF wpc[Own] = "dave" THEN "run" ELSE "iterate")
  /\ Iterate(Own)
  /\ UNCHANGED <<quit, i, flags, nb_atk_pkts, exists>>

\* Mutation: the flag of main's own thread is set instead.
QuitOwn ==
  /\ Round("quit", Own)
  /\ _quit' = [_quit EXCEPT ![Own] = TRUE]
  /\ UNCHANGED <<alive, quit, wpc, _running, counters, nb_atk_pkts, exists>>

QuitThread ==
  /\ Round("quit", Own)
  /\ _quit' = [_quit EXCEPT ![i] = TRUE]
  /\ UNCHANGED <<alive, quit, wpc, _running, counters, nb_atk_pkts, exists>>

\* Mutation: main does not wait.
WaitNot ==
  /\ Round("wait", Own)
  /\ UNCHANGED <<alive, quit, wpc, flags, counters, nb_atk_pkts, exists>>

\* while (is_running()) of each launched thread.
WaitForThread ==
  /\ Round("wait", Own)
  /\ ~_running[i]
  /\ UNCHANGED <<alive, quit, wpc, flags, counters, nb_atk_pkts, exists>>

\* The counters of a thread are added up, then its objects are deleted.
RescueAndDelete ==
  /\ Round("destruct", NumThreads)
  /\ nb_atk_pkts' = Wrap(nb_atk_pkts + total[i])
  /\ exists' = exists \ {i}
  /\ UNCHANGED <<alive, quit, wpc, flags, counters>>

\* rte_eal_mp_wait_lcore
WaitForLcores ==
  /\ Goto("eal_wait", "done")
  /\ \A t \in Launched : wpc[t] = "returned"
  /\ UNCHANGED <<alive, quit, i, wpc, flags, counters, nb_atk_pkts, exists>>

NextLoop ==
  /\ \/ Exit("launch", Own, "run")
     \/ Exit("quit", Own, "wait")
     \/ Exit("wait", Own, "destruct")
     \/ Exit("destruct", NumThreads, "eal_wait")
  /\ UNCHANGED <<alive, quit, wpc, flags, counters, nb_atk_pkts, exists>>

Main ==
  \/ Launch \/ TestGlobalQuit \/ IterateOwn
  \/ QuitThread \/ WaitForThread \/ RescueAndDelete \/ WaitForLcores
  \/ NextLoop

\* SIGINT, at any time.
handle_quit ==
  /\ alive /\ ~quit
  /\ quit' = TRUE
  /\ UNCHANGED <<alive, mpc, i, wpc, flags, counters, nb_atk_pkts, exists>>

Ended == mpc = "done" \/ ~alive
Terminated == Ended /\ UNCHANGED vars

Next == Main \/ (\E t \in Launched : Run(t)) \/ handle_quit \/ Terminated

\* Every thread has an lcore to itself.
Fairness == WF_vars(Main) /\ \A t \in Launched : WF_vars(Run(t))

Spec == Init /\ [][Next]_vars /\ Fairness

------------------------------------------------------------------------------
(* Correctness.                                                            *)

Counter == [Threads -> 0 .. CounterMod - 1]

\* The types of the variables.
TypeOK ==
  /\ {alive, quit} \subseteq BOOLEAN
  /\ mpc \in {"launch", "run", "iterate", "quit", "wait", "destruct", "eal_wait", "done"}
  /\ i \in 0 .. NumThreads
  /\ wpc \in [Threads -> {"created", "test", "alice", "dave", "stop", "returned"}]
  /\ polled \in [Threads -> 0 .. MaxPolled]
  /\ {_quit, _running} \subseteq [Threads -> BOOLEAN]
  /\ {total, start, net} \subseteq Counter
  /\ nb_atk_pkts \in 0 .. CounterMod - 1
  /\ exists \subseteq Threads

(***************************************************************************)
(* No launched thread is inside run, where it uses its members and its     *)
(* containers, once main has deleted them, whenever SIGINT arrives and     *)
(* however far each thread is.                                             *)
(***************************************************************************)
NoUseAfterDelete ==
  \A t \in Launched :
    wpc[t] \in {"test", "alice", "dave", "stop"} => t \in exists

\* What the counters of the threads in S stand for, added up.
Counts(S) == MapThenSumSet(LAMBDA t : start[t] + net[t], S)

(***************************************************************************)
(* The number main prints contains every iteration of every thread, the    *)
(* last ones included: what was sent to dave less what was polled from     *)
(* alice, on top of what the counters held at the start.                   *)
(***************************************************************************)
PrintedIsComplete == mpc = "done" => nb_atk_pkts = Wrap(Counts(Threads))

(***************************************************************************)
(* After SIGINT the program ends: main does not wait for ever for a thread *)
(* that has missed its flag.                                               *)
(***************************************************************************)
QuitEndsProgram == quit ~> Ended

------------------------------------------------------------------------------
(* The inductive invariant behind the safety properties.                   *)

\* main is past its last wait.
Waited == mpc \in {"destruct", "eal_wait", "done"}

StopInv ==
  /\ \A t \in Launched : ~_running[t] <=> wpc[t] = "returned"
  /\ mpc = "launch" => \A t \in Launched : t >= i => wpc[t] = "created"
  /\ mpc = "wait" => \A t \in Launched : t < i => wpc[t] = "returned"
  /\ Waited => \A t \in Launched : wpc[t] = "returned"
  /\ ~Waited => exists = Threads

\* The sum so far is that of the threads already deleted, whose counters
\* stand still.
CountInv ==
  /\ \A t \in Threads : total[t] = Wrap(start[t] + net[t])
  /\ ~Waited => nb_atk_pkts = 0
  /\ mpc = "destruct" => nb_atk_pkts = Wrap(Counts(0 .. i - 1))
  /\ mpc \in {"eal_wait", "done"} => nb_atk_pkts = Wrap(Counts(Threads))

IInv == TypeOK /\ StopInv /\ CountInv

==============================================================================
