----------------------------- MODULE CookieClock -----------------------------
(***************************************************************************)
(* Worker threads issuing and checking SYN cookies while the main thread   *)
(* increments the timestamp: the SYN branch and check_syn_cookie of        *)
(* include/Treatment/Treatment.hpp against the tick of source/main.cpp.    *)
(*                                                                         *)
(* _s_timestamp is a plain static u_int8_t without any synchronisation.    *)
(* The SYN branch reads it twice (for the hash, for the low bits), the     *)
(* check three times (for the age, for the hash, for the low bits), and    *)
(* each read is a step of its own here.  A compiler that merges two reads  *)
(* produces a behaviour in which no tick falls between them.               *)
(*                                                                         *)
(* clock counts the ticks of main without wrapping; the code sees it       *)
(* modulo TsMod.  It is history only and lets the properties speak of the  *)
(* age of a cookie.                                                        *)
(***************************************************************************)
EXTENDS SynCookie, Sequences, FiniteSets

CONSTANTS
  Workers,   \* the DefenseThreads
  NoCookie,  \* the worker is not checking a cookie
  MaxClock,  \* bound on the number of ticks
  MaxIssued  \* bound on the number of cookies

ASSUME MaxClockAssumption == MaxClock \in Nat
ASSUME MaxIssuedAssumption == MaxIssued \in Nat

VARIABLES
  clock,    \* ticks since the start; _s_timestamp is clock % TsMod
  pc,       \* where each worker is in the branch it executes
  conn,     \* the connection of the packet each worker handles
  reads,    \* the clock at each read of _s_timestamp in the branch
  cookie,   \* the issued cookie each worker checks
  verdict,  \* result of the last check of each worker
  issued    \* every cookie sent in a SYN-ACK, and the clock at its reads

vars == <<clock, pc, conn, reads, cookie, verdict, issued>>

\* _s_timestamp at a given clock.
Stamp(k) == k % TsMod

Issue == [by : Workers, conn : Conns, value : Seqs, hashed : Nat, stamped : Nat]

Init ==
  /\ clock = 0
  /\ pc = [w \in Workers |-> "idle"]
  /\ conn \in [Workers -> Conns]
  /\ reads = [w \in Workers |-> <<>>]
  /\ cookie = [w \in Workers |-> NoCookie]
  /\ verdict = [w \in Workers |-> "none"]
  /\ issued = {}

Step(w, from, to) == pc[w] = from /\ pc' = [pc EXCEPT ![w] = to]
Read(w) == reads' = [reads EXCEPT ![w] = Append(@, clock)]

------------------------------------------------------------------------------
(* A SYN from outside: hash first, then the low bits of the cookie.        *)

SynReadHash(w, c) ==
  /\ Step(w, "idle", "syn")
  /\ Cardinality(issued) < MaxIssued
  /\ conn' = [conn EXCEPT ![w] = c]
  /\ reads' = [reads EXCEPT ![w] = <<clock>>]
  /\ cookie' = [cookie EXCEPT ![w] = NoCookie]
  /\ verdict' = [verdict EXCEPT ![w] = "none"]
  /\ UNCHANGED <<clock, issued>>

SynReadLow(w) ==
  /\ Step(w, "syn", "idle")
  /\ issued' = issued \cup
       {[by |-> w, conn |-> conn[w],
         value |-> TornCookie(conn[w], Stamp(reads[w][1]), Stamp(clock)),
         hashed |-> reads[w][1], stamped |-> clock]}
  /\ reads' = [reads EXCEPT ![w] = <<>>]
  /\ UNCHANGED <<clock, conn, cookie, verdict>>

------------------------------------------------------------------------------
(* The ACK of a client that returns a cookie it was sent.  Receive-side    *)
(* scaling hands all packets of a connection to one worker, so it is       *)
(* checked with the secret it was made with.                               *)

\* The first read decides whether the cookie is young enough.
Young(value) == CookieTimestamp(value) \in {Stamp(clock), TsPrev(Stamp(clock))}

\* Mutation: a cookie that is too old is only checked for its hash.
AckTooOldAgeIgnored(w, i) ==
  /\ pc[w] = "idle"
  /\ i.by = w /\ ~Young(i.value)
  /\ cookie' = [cookie EXCEPT ![w] = i]
  /\ conn' = [conn EXCEPT ![w] = i.conn]
  /\ reads' = [reads EXCEPT ![w] = <<clock>>]
  /\ verdict' = [verdict EXCEPT ![w] =
       IF i.value = Cookie(i.conn, CookieTimestamp(i.value)) THEN "accepted" ELSE "refused"]
  /\ UNCHANGED <<clock, pc, issued>>

AckTooOld(w, i) ==
  /\ pc[w] = "idle"
  /\ i.by = w /\ ~Young(i.value)
  /\ cookie' = [cookie EXCEPT ![w] = i]
  /\ conn' = [conn EXCEPT ![w] = i.conn]
  /\ reads' = [reads EXCEPT ![w] = <<clock>>]
  /\ verdict' = [verdict EXCEPT ![w] = "refused"]
  /\ UNCHANGED <<clock, pc, issued>>

AckReadAge(w, i) ==
  /\ Step(w, "idle", "aged")
  /\ i.by = w /\ Young(i.value)
  /\ cookie' = [cookie EXCEPT ![w] = i]
  /\ conn' = [conn EXCEPT ![w] = i.conn]
  /\ reads' = [reads EXCEPT ![w] = <<clock>>]
  /\ verdict' = [verdict EXCEPT ![w] = "none"]
  /\ UNCHANGED <<clock, issued>>

AckReadHash(w) ==
  /\ Step(w, "aged", "hashed")
  /\ Read(w)
  /\ UNCHANGED <<clock, conn, cookie, verdict, issued>>

AckReadLow(w) ==
  /\ Step(w, "hashed", "idle")
  /\ Read(w)
  /\ verdict' = [verdict EXCEPT ![w] =
       IF TornCheck(cookie[w].value, conn[w],
                    Stamp(reads[w][1]), Stamp(reads[w][2]), Stamp(clock))
       THEN "accepted" ELSE "refused"]
  /\ UNCHANGED <<clock, conn, cookie, issued>>

------------------------------------------------------------------------------
(***************************************************************************)
(* main increments the timestamp every 64 seconds.  A branch takes far     *)
(* less than that, so at most one tick falls between two reads of the same *)
(* branch.                                                                 *)
(***************************************************************************)
s_increment_timestamp ==
  /\ clock < MaxClock
  /\ \A w \in Workers : pc[w] # "idle" => reads[w][1] = clock
  /\ clock' = clock + 1
  /\ UNCHANGED <<pc, conn, reads, cookie, verdict, issued>>

Next ==
  \/ \E w \in Workers, c \in Conns : SynReadHash(w, c)
  \/ \E w \in Workers : SynReadLow(w)
  \/ \E w \in Workers, i \in issued : AckTooOld(w, i) \/ AckReadAge(w, i)
  \/ \E w \in Workers : AckReadHash(w) \/ AckReadLow(w)
  \/ s_increment_timestamp

Spec == Init /\ [][Next]_vars

------------------------------------------------------------------------------
(* Correctness.                                                            *)

\* The types of the variables.
TypeOK ==
  /\ clock \in 0 .. MaxClock
  /\ pc \in [Workers -> {"idle", "syn", "aged", "hashed"}]
  /\ conn \in [Workers -> Conns]
  /\ reads \in [Workers -> Seq(0 .. MaxClock)]
  /\ cookie \in [Workers -> Issue \cup {NoCookie}]
  /\ verdict \in [Workers -> {"none", "accepted", "refused"}]
  /\ issued \subseteq Issue

\* Ticks between the SYN-ACK that carried the cookie and the check.
Age(w) == reads[w][1] - cookie[w].stamped

(***************************************************************************)
(* Whatever ticks fall into it, the check accepts only what it would       *)
(* accept with a single read of the timestamp at its start: the race       *)
(* between worker and main never lets a wrong cookie through.              *)
(***************************************************************************)
AcceptedAtOneInstant ==
  \A w \in Workers : verdict[w] = "accepted" =>
    check_syn_cookie(cookie[w].value, conn[w], Stamp(reads[w][1]))

(***************************************************************************)
(* An accepted cookie is at most one tick old, or the u_int8_t timestamp   *)
(* has wrapped around in the meantime.                                     *)
(***************************************************************************)
AcceptedIsYoungOrWrapped ==
  \A w \in Workers : verdict[w] = "accepted" => Age(w) <= 1 \/ Age(w) >= TsMod

(***************************************************************************)
(* A client that answers within one tick is refused only if a tick fell    *)
(* between two reads: of the branch that made its cookie, or of the check. *)
(***************************************************************************)
RefusedOnlyForCause ==
  \A w \in Workers : verdict[w] = "refused" =>
    \/ Age(w) > 1
    \/ cookie[w].hashed # cookie[w].stamped
    \/ reads[w][1] # reads[w][Len(reads[w])]

------------------------------------------------------------------------------
(* The inductive invariant behind the safety properties.                   *)

\* A cookie was made with two reads, at most one tick apart.
IssuedInv ==
  \A x \in issued :
    /\ x.value = TornCookie(x.conn, Stamp(x.hashed), Stamp(x.stamped))
    /\ x.hashed <= x.stamped /\ x.stamped <= x.hashed + 1 /\ x.stamped <= clock

\* While worker w is in a branch at most one tick has passed since its first read.
BranchInv(w) ==
  /\ pc[w] \in {"syn", "aged"} => Len(reads[w]) = 1
  /\ pc[w] = "hashed" => Len(reads[w]) = 2 /\ reads[w][1] <= reads[w][2] /\ reads[w][2] <= clock
  /\ pc[w] # "idle" => verdict[w] = "none" /\ reads[w][1] <= clock /\ clock <= reads[w][1] + 1

\* What worker w checks, or has checked, is a cookie of that connection.
CheckInv(w) ==
  pc[w] \in {"aged", "hashed"} \/ verdict[w] # "none" =>
    /\ cookie[w] \in issued /\ conn[w] = cookie[w].conn
    /\ Len(reads[w]) > 0 /\ cookie[w].stamped <= reads[w][1]

\* The verdict is that of the reads: of the first if the cookie was too old.
VerdictInv(w) ==
  \/ verdict[w] = "none"
  \/ /\ verdict[w] = "refused" /\ Len(reads[w]) = 1
     /\ CookieTimestamp(cookie[w].value) \notin {Stamp(reads[w][1]), TsPrev(Stamp(reads[w][1]))}
  \/ /\ Len(reads[w]) = 3
     /\ reads[w][1] <= reads[w][2] /\ reads[w][2] <= reads[w][3] /\ reads[w][3] <= reads[w][1] + 1
     /\ verdict[w] = IF TornCheck(cookie[w].value, conn[w], Stamp(reads[w][1]),
                                  Stamp(reads[w][2]), Stamp(reads[w][3]))
                     THEN "accepted" ELSE "refused"

IInv == TypeOK /\ IssuedInv /\ \A w \in Workers : BranchInv(w) /\ CheckInv(w) /\ VerdictInv(w)

==============================================================================
