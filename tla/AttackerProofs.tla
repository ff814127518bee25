--------------------------- MODULE AttackerProofs ---------------------------
(***************************************************************************)
(* Proofs about Attacker for every number of threads, of packets and every *)
(* width of the counters.                                                  *)
(*                                                                         *)
(* The inductive invariant is IInv of Attacker.  Its part StopInv follows  *)
(* the flag _running from the thread that clears it to main, which deletes *)
(* only what has been waited for.  Its part CountInv follows the counters  *)
(* into the sum: what main has added so far is what the threads it has     *)
(* deleted have counted.  The sum is a fold over a set, so the lemmas on   *)
(* it come first; they are inductions over the size of a set, in the form  *)
(* that a non-empty set of numbers has a least one.                        *)
(***************************************************************************)
EXTENDS Attacker, FiniteSetTheorems, WellFoundedInduction, TLAPS

------------------------------------------------------------------------------
(* The sum over a set of threads.                                          *)

\* Division with remainder.
LEMMA DivMod == ASSUME NEW a \in Int, NEW m \in Nat \ {0}
  PROVE a = m * (a \div m) + (a % m) /\ a % m \in 0 .. m - 1 /\ a \div m \in Int
OBVIOUS

\* The remainder is the only one.
LEMMA ModUnique == ASSUME NEW m \in Nat \ {0}, NEW q \in Int, NEW r \in 0 .. m - 1
  PROVE (m * q + r) % m = r
OBVIOUS

\* A sum may be reduced early.
LEMMA ModSum == ASSUME NEW m \in Nat \ {0}, NEW a \in Int, NEW b \in Int
  PROVE ((a % m) + b) % m = (a + b) % m
<1>1. PICK q \in Int : a = m * q + (a % m)
  BY DivMod
<1> DEFINE s == (a % m) + b
<1>2. s \in Int /\ a % m \in Int
  BY DivMod
<1>3. PICK p \in Int : s = m * p + (s % m)
  BY DivMod, <1>2
<1>4. a + b = m * (q + p) + (s % m)
  BY <1>1, <1>2, <1>3
<1>5. s % m \in 0 .. m - 1 /\ q + p \in Int
  BY <1>2, DivMod
<1>6. (m * (q + p) + (s % m)) % m = s % m
  BY <1>5, ModUnique
<1>7. QED
  BY <1>4, <1>6

\* Every non-empty set of numbers has a least one.
LEMMA Minimum == ASSUME NEW T, T \subseteq Nat, T # {}
  PROVE \E n \in T : \A m \in T : n <= m
<1>1. \E x \in T : \A y \in T : ~(<<y, x>> \in OpToRel(<, Nat))
  BY NatLessThanWellFounded, WFMin
<1>2. PICK n \in T : \A y \in T : ~(<<y, n>> \in OpToRel(<, Nat))
  BY <1>1
<1>3. ASSUME NEW m \in T PROVE n <= m
  <2>1. m \in Nat /\ n \in Nat OBVIOUS
  <2>2. m < n => <<m, n>> \in OpToRel(<, Nat)
    BY <2>1 DEF OpToRel
  <2>3. ~(m < n) BY <2>2, <1>2
  <2>4. QED BY <2>1, <2>3
<1>4. QED BY <1>3

\* The equation of the fold that Counts stands for: the element it takes
\* first, one step, the whole function, and the function for small sets only.
First(s) == CHOOSE x \in s : TRUE
Folded(f, s) ==
  IF s = {} THEN 0 ELSE start[First(s)] + net[First(s)] + f[s \ {First(s)}]
SumOver(f, S) == f = [s \in SUBSET S |-> Folded(f, s)]
SumUpTo(f, S, n) == \A s \in SUBSET S : Cardinality(s) <= n => f[s] = Folded(f, s)

\* The fold takes an element of the set.
LEMMA FirstIn == ASSUME NEW s, s # {} PROVE First(s) \in s
BY DEF First

\* What the fold leaves is smaller.
LEMMA CardOfRest == ASSUME NEW S, IsFiniteSet(S), NEW s \in SUBSET S, s # {}
  PROVE /\ Cardinality(s) \in Nat \ {0}
        /\ s \ {First(s)} \in SUBSET S
        /\ Cardinality(s \ {First(s)}) = Cardinality(s) - 1
<1>1. IsFiniteSet(s)
  BY FS_Subset
<1>2. First(s) \in s
  BY FirstIn
<1>3. Cardinality(s) \in Nat /\ Cardinality(s) # 0
  BY <1>1, FS_CardinalityType, FS_EmptySet
<1>4. QED
  BY <1>1, <1>2, <1>3, FS_RemoveElement

\* The fold exists for all subsets up to each size: a least size without it would
\* be reached from the one below.
LEMMA PartialSums == ASSUME NEW S, IsFiniteSet(S), NEW n \in Nat
  PROVE \E f : SumUpTo(f, S, n)
<1> DEFINE T == {k \in Nat : ~(\E f : SumUpTo(f, S, k))}
<1>1. SUFFICES T = {}
  OBVIOUS
<1>2. SUFFICES ASSUME T # {} PROVE FALSE
  OBVIOUS
<1>3. PICK k \in T : \A m \in T : k <= m
  <2>1. T \subseteq Nat
    OBVIOUS
  <2>2. QED
    BY <1>2, <2>1, Minimum
<1>4. k # 0
  <2>1. ASSUME k = 0 PROVE FALSE
    <3> DEFINE f == [s \in SUBSET S |-> 0]
    <3>1. ASSUME NEW s \in SUBSET S, s # {} PROVE ~(Cardinality(s) <= 0)
      <4>1. Cardinality(s) \in Nat \ {0}
        BY <3>1, CardOfRest
      <4>2. QED
        BY <4>1
    <3>2. SumUpTo(f, S, 0)
      BY <3>1 DEF SumUpTo, Folded
    <3>3. QED
      BY <2>1, <3>2
  <2>2. QED
    BY <2>1
<1>5. PICK f : SumUpTo(f, S, k - 1)
  <2>1. k - 1 \in Nat /\ ~(k <= k - 1)
    BY <1>4
  <2>2. k - 1 \notin T
    BY <2>1, <1>3
  <2>3. QED
    BY <2>1, <2>2
<1> DEFINE g == [s \in SUBSET S |-> Folded(f, s)]
<1>6. ASSUME NEW s \in SUBSET S, Cardinality(s) <= k - 1 PROVE g[s] = f[s]
  BY <1>5, <1>6 DEF SumUpTo, Folded
<1>7. ASSUME NEW s \in SUBSET S, Cardinality(s) <= k, s # {}
      PROVE g[s \ {First(s)}] = f[s \ {First(s)}]
  <2>1. /\ s \ {First(s)} \in SUBSET S
        /\ Cardinality(s \ {First(s)}) <= k - 1
    BY <1>7, CardOfRest
  <2> HIDE DEF g
  <2>2. QED
    BY <2>1, <1>6
<1>8. SumUpTo(g, S, k)
  <2> SUFFICES ASSUME NEW s \in SUBSET S, Cardinality(s) <= k
      PROVE g[s] = Folded(g, s)
    BY DEF SumUpTo, Folded
  <2>1. CASE s = {}
    BY <2>1 DEF Folded
  <2>2. CASE s # {}
    <3>1. g[s \ {First(s)}] = f[s \ {First(s)}]
      BY <2>2, <1>7
    <3>2. g[s] = start[First(s)] + net[First(s)] + f[s \ {First(s)}]
      BY <2>2 DEF Folded
    <3>3. QED
      BY <2>2, <3>1, <3>2 DEF Folded
  <2>3. QED
    BY <2>1, <2>2
<1>9. QED
  BY <1>8

\* The function that the fold defines exists.
LEMMA SumExists == ASSUME NEW S, IsFiniteSet(S) PROVE \E f : SumOver(f, S)
<1>1. Cardinality(S) \in Nat
  BY FS_CardinalityType
<1>2. PICK f : SumUpTo(f, S, Cardinality(S))
  BY <1>1, PartialSums
<1> DEFINE g == [s \in SUBSET S |-> f[s]]
<1>3. ASSUME NEW s \in SUBSET S
      PROVE f[s] = Folded(f, s)
  <2>1. Cardinality(s) <= Cardinality(S)
    BY FS_Subset
  <2>2. QED
    BY <2>1, <1>2 DEF SumUpTo, Folded
<1>4. ASSUME NEW s \in SUBSET S PROVE g[s \ {First(s)}] = f[s \ {First(s)}]
  OBVIOUS
<1>5. ASSUME NEW s \in SUBSET S
      PROVE f[s] = Folded(g, s)
  BY <1>3, <1>4 DEF Folded
<1>6. g = [s \in SUBSET S |-> Folded(g, s)]
  <2> DEFINE h == [s \in SUBSET S |-> Folded(g, s)]
  <2>1. \A s \in SUBSET S : h[s] = f[s]
    <3> HIDE DEF g
    <3>1. QED
      BY <1>5
  <2> HIDE DEF h
  <2>2. h = [s \in SUBSET S |-> h[s]]
    BY DEF h
  <2>3. g = h
    BY <2>1, <2>2
  <2>4. QED
    BY <2>3 DEF h
<1>7. QED
  BY <1>6 DEF SumOver, Folded

\* Counts is its value.
LEMMA CountsIsSum == ASSUME NEW S, IsFiniteSet(S) PROVE \E f : SumOver(f, S) /\ Counts(S) = f[S]
<1>1. PICK h : SumOver(h, S)
  BY SumExists
<1> DEFINE c == CHOOSE f : SumOver(f, S)
<1>2. SumOver(c, S)
  BY <1>1
<1>3. Counts(S) = c[S]
  BY DEF Counts, MapThenSumSet, MapThenFoldSet, SumOver, Folded, First
<1>4. QED
  BY <1>2, <1>3

\* Every non-empty set of subsets of a finite set has a smallest member.
LEMMA SmallestSet ==
  ASSUME NEW S, IsFiniteSet(S), NEW B, B \subseteq SUBSET S, B # {}
  PROVE  \E s \in B : \A r \in B : r \subseteq s => r = s
<1> DEFINE T == {Cardinality(s) : s \in B}
<1>1. \A s \in B : IsFiniteSet(s) /\ Cardinality(s) \in Nat
  BY FS_Subset, FS_CardinalityType
<1>2. T \subseteq Nat /\ T # {}
  BY <1>1
<1>3. PICK n \in T : \A m \in T : n <= m
  BY <1>2, Minimum
<1>4. PICK s \in B : n = Cardinality(s)
  OBVIOUS
<1>5. ASSUME NEW r \in B, r \subseteq s PROVE r = s
  <2>1. Cardinality(s) <= Cardinality(r)
    BY <1>3, <1>4
  <2>2. Cardinality(r) <= Cardinality(s) /\ (Cardinality(s) = Cardinality(r) => s = r)
    BY <1>1, <1>5, FS_Subset
  <2>3. QED
    BY <2>1, <2>2, <1>1
<1>6. QED
  BY <1>5

\* The fold of a subset is the same in the fold of the whole.
LEMMA SumsAgree ==
  ASSUME NEW S, IsFiniteSet(S), NEW T \in SUBSET S,
         NEW f, SumOver(f, S), NEW g, SumOver(g, T)
  PROVE  f[T] = g[T]
<1> DEFINE B == {s \in SUBSET T : f[s] # g[s]}
<1>1. IsFiniteSet(T)
  BY FS_Subset
<1>2. SUFFICES ASSUME B # {} PROVE FALSE
  OBVIOUS
<1>3. PICK s \in B : \A r \in B : r \subseteq s => r = s
  <2>1. B \subseteq SUBSET T
    OBVIOUS
  <2> HIDE DEF B
  <2>2. QED
    BY <1>1, <1>2, <2>1, SmallestSet
<1>4. /\ f[s] = Folded(f, s)
      /\ g[s] = Folded(g, s)
  BY DEF SumOver, Folded
<1>5. s # {} => f[s \ {First(s)}] = g[s \ {First(s)}]
  <2>1. s # {} => s \ {First(s)} \subseteq s /\ s \ {First(s)} # s
    BY FirstIn
  <2>2. QED
    BY <2>1, <1>3
<1>6. QED
  BY <1>4, <1>5 DEF Folded

\* A sum of numbers is a number.
LEMMA SumType ==
  ASSUME NEW S, IsFiniteSet(S), NEW f, SumOver(f, S),
         \A t \in S : start[t] + net[t] \in Int
  PROVE  \A s \in SUBSET S : f[s] \in Int
<1> DEFINE B == {s \in SUBSET S : f[s] \notin Int}
<1>1. SUFFICES ASSUME B # {} PROVE FALSE
  OBVIOUS
<1>2. PICK s \in B : \A r \in B : r \subseteq s => r = s
  <2>1. B \subseteq SUBSET S
    OBVIOUS
  <2> HIDE DEF B
  <2>2. QED
    BY <1>1, <2>1, SmallestSet
<1>3. f[s] = Folded(f, s)
  BY DEF SumOver, Folded
<1>4. s # {}
  BY <1>3 DEF Folded
<1>5. First(s) \in s
  BY <1>4, FirstIn
<1>6. f[s \ {First(s)}] \in Int
  BY <1>5, <1>2
<1>7. QED
  BY <1>3, <1>4, <1>5, <1>6 DEF Folded

\* The order does not matter: any element may be added last.
LEMMA AnyFirst ==
  ASSUME NEW S, IsFiniteSet(S), NEW f, SumOver(f, S),
         \A t \in S : start[t] + net[t] \in Int
  PROVE  \A s \in SUBSET S : \A x \in s : f[s] = start[x] + net[x] + f[s \ {x}]
<1> DEFINE B == {s \in SUBSET S : ~(\A x \in s : f[s] = start[x] + net[x] + f[s \ {x}])}
<1>1. SUFFICES ASSUME B # {} PROVE FALSE
  OBVIOUS
<1>2. PICK s \in B : \A r \in B : r \subseteq s => r = s
  <2>1. B \subseteq SUBSET S
    OBVIOUS
  <2> HIDE DEF B
  <2>2. QED
    BY <1>1, <2>1, SmallestSet
<1>3. PICK x \in s : f[s] # start[x] + net[x] + f[s \ {x}]
  OBVIOUS
<1> DEFINE p == First(s)
<1>4. p \in s
  BY FirstIn
<1>5. f[s] = start[p] + net[p] + f[s \ {p}]
  BY DEF SumOver, Folded
<1>6. x # p
  BY <1>3, <1>5
<1> HIDE DEF p
<1>7. f[s \ {p}] = start[x] + net[x] + f[(s \ {p}) \ {x}]
  <2>1. s \ {p} \notin B /\ x \in s \ {p}
    BY <1>2, <1>4, <1>6
  <2>2. QED
    BY <2>1
<1>8. f[s \ {x}] = start[p] + net[p] + f[(s \ {x}) \ {p}]
  <2>1. s \ {x} \notin B /\ p \in s \ {x}
    BY <1>2, <1>4, <1>6
  <2>2. QED
    BY <2>1
<1>9. (s \ {x}) \ {p} = (s \ {p}) \ {x}
  OBVIOUS
<1> DEFINE a == start[x] + net[x]
           b == start[p] + net[p]
           c == f[(s \ {p}) \ {x}]
<1>10. a \in Int /\ b \in Int /\ c \in Int
  BY <1>4, SumType
<1>11. b + (a + c) = a + (b + c)
  BY <1>10
<1>12. QED
  BY <1>3, <1>5, <1>7, <1>8, <1>9, <1>11

\* One more thread adds its counter.
LEMMA CountsAdd ==
  ASSUME NEW S, IsFiniteSet(S), NEW x, x \notin S,
         \A t \in S \cup {x} : start[t] + net[t] \in Int
  PROVE  /\ Counts(S \cup {x}) = Counts(S) + (start[x] + net[x])
         /\ Counts(S) \in Int
<1> DEFINE U == S \cup {x}
<1>1. IsFiniteSet(U) /\ S \in SUBSET U /\ U \ {x} = S /\ x \in U
  BY FS_AddElement
<1>2. PICK f : SumOver(f, U) /\ Counts(U) = f[U]
  BY <1>1, CountsIsSum
<1>3. PICK g : SumOver(g, S) /\ Counts(S) = g[S]
  BY CountsIsSum
<1>4. f[S] = g[S]
  BY <1>1, <1>2, <1>3, SumsAgree
<1> HIDE DEF U
<1>5. f[U] = start[x] + net[x] + f[S]
  <2>1. \A t \in U : start[t] + net[t] \in Int
    BY DEF U
  <2>2. IsFiniteSet(U) /\ SumOver(f, U) /\ U \in SUBSET U /\ x \in U /\ U \ {x} = S
    BY <1>1, <1>2
  <2>3. f[U] = start[x] + net[x] + f[U \ {x}]
    BY <2>1, <2>2, AnyFirst
  <2>4. QED
    BY <2>2, <2>3
<1>6. g[S] \in Int /\ start[x] + net[x] \in Int
  <2>1. \A s \in SUBSET S : g[s] \in Int
    BY <1>3, SumType
  <2>2. QED
    BY <2>1
<1>7. Counts(U) = Counts(S) + (start[x] + net[x]) /\ Counts(S) \in Int
  BY <1>2, <1>3, <1>4, <1>5, <1>6
<1>8. QED
  BY <1>7 DEF U

\* No thread, no packets.
LEMMA CountsEmpty == Counts({}) = 0
<1>1. PICK f : SumOver(f, {}) /\ Counts({}) = f[{}]
  BY CountsIsSum, FS_EmptySet
<1>2. QED
  BY <1>1 DEF SumOver, Folded

------------------------------------------------------------------------------
(* The types.                                                              *)

LEMMA WrapType == ASSUME NEW n \in Int PROVE Wrap(n) \in 0 .. CounterMod - 1
BY CounterAssumption DEF Wrap

LEMMA InitEstablishes == Init => IInv
<1> SUFFICES ASSUME Init PROVE IInv
  OBVIOUS
<1>1. 0 \in 0 .. CounterMod - 1 /\ 0 \in 0 .. MaxPolled /\ 0 \in 0 .. NumThreads
  BY CounterAssumption, PacketsAssumption, ThreadsAssumption
<1>2. TypeOK
  BY <1>1 DEF Init, TypeOK, Counter
<1>3. StopInv
  BY DEF Init, StopInv, Launched, Waited
<1>4. CountInv
  <2>1. ASSUME NEW t \in Threads PROVE total[t] = Wrap(start[t] + net[t])
    <3>1. start[t] = total[t] /\ net[t] = 0 /\ total[t] \in 0 .. CounterMod - 1
      BY DEF Init
    <3>2. total[t] % CounterMod = total[t]
      BY <3>1, CounterAssumption
    <3>3. QED
      BY <3>1, <3>2 DEF Wrap
  <2>2. QED
    BY <2>1 DEF CountInv, Init, Waited
<1>5. QED
  BY <1>2, <1>3, <1>4 DEF IInv

\* What an iteration may do, whoever calls it.
LEMMA IterateStep ==
  ASSUME TypeOK, NEW t \in Threads, Iterate(t)
  PROVE  /\ polled' \in [Threads -> 0 .. MaxPolled]
         /\ {total', start', net'} \subseteq Counter
         /\ alive' \in BOOLEAN
         /\ \E to \in {"dave", "test"} :
              wpc' = wpc \/ (wpc[t] \in {"alice", "dave"} /\ wpc' = [wpc EXCEPT ![t] = to])
         /\ wpc[t] \in {"alice", "dave"}
<1>1. CASE ForwardToAlice(t)
  <2>1. PICK n \in 0 .. MaxPolled : polled' = [polled EXCEPT ![t] = n]
    BY <1>1 DEF ForwardToAlice
  <2>2. QED
    BY <1>1, <2>1 DEF ForwardToAlice, Step, TypeOK
<1>2. CASE SendToDave(t)
  <2>1. PICK sent \in 0 .. polled[t] + NbAttack :
          /\ total' = [total EXCEPT ![t] = Counted(@, sent, polled[t])]
          /\ net' = [net EXCEPT ![t] = Wrap(@ + sent - polled[t])]
    BY <1>2 DEF SendToDave
  <2>2. /\ sent \in Int /\ polled[t] \in Int
        /\ total[t] \in Int /\ net[t] \in Int
    BY <2>1, PacketsAssumption, CounterAssumption DEF TypeOK, Counter
  <2>3. Counted(total[t], sent, polled[t]) \in 0 .. CounterMod - 1
    BY <2>2, WrapType DEF Counted
  <2>4. Wrap(net[t] + sent - polled[t]) \in 0 .. CounterMod - 1
    BY <2>2, WrapType
  <2>5. total' \in Counter /\ net' \in Counter
    BY <2>1, <2>3, <2>4 DEF TypeOK, Counter
  <2>6. QED
    BY <1>2, <2>5 DEF SendToDave, Step, TypeOK
<1>3. CASE OutOfBuffers(t)
  BY <1>3 DEF OutOfBuffers, counters, TypeOK
<1>4. QED
  BY <1>1, <1>2, <1>3 DEF Iterate

------------------------------------------------------------------------------
(* The counters.                                                           *)

\* Wrapping around early or late is the same.
LEMMA WrapSum ==
  ASSUME NEW a \in Int, NEW b \in Int
  PROVE  Wrap(Wrap(a) + b) = Wrap(a + b) /\ Wrap(a) \in Int
<1>1. CounterMod \in Nat \ {0}
  BY CounterAssumption
<1>2. ((a % CounterMod) + b) % CounterMod = (a + b) % CounterMod
  BY <1>1, ModSum
<1>3. a % CounterMod \in Int
  BY <1>1, DivMod
<1>4. QED
  BY <1>2, <1>3 DEF Wrap

\* What touches no counter and does not move main.
LEMMA CountStays ==
  CountInv /\ UNCHANGED <<start, net, total, mpc, i, nb_atk_pkts>> => CountInv'
BY DEF CountInv, Waited, Counts, MapThenSumSet, MapThenFoldSet

\* What main does to no counter before it has waited.
LEMMA CountEarly ==
  ASSUME CountInv, ~Waited, ~Waited', UNCHANGED <<start, net, total, nb_atk_pkts>>
  PROVE  CountInv'
BY DEF CountInv, Waited

\* The terms of the sum.
LEMMA TermsAreNumbers == TypeOK => \A t \in Threads : start[t] \in Int /\ net[t] \in Int
BY CounterAssumption DEF TypeOK, Counter

\* An iteration moves the counter of its thread and what it stands for alike.
LEMMA IterateCounts ==
  ASSUME TypeOK, CountInv, NEW t \in Threads, Iterate(t),
         ~Waited, ~Waited', UNCHANGED nb_atk_pkts
  PROVE  CountInv'
<1>1. nb_atk_pkts' = 0
  BY DEF CountInv
<1>2. start' = start
  BY DEF Iterate, ForwardToAlice, SendToDave, OutOfBuffers, counters
<1>3. ASSUME NEW u \in Threads PROVE total'[u] = Wrap(start'[u] + net'[u])
  <2>1. total[u] = Wrap(start[u] + net[u])
    BY DEF CountInv
  <2>2. CASE SendToDave(t)
    <3>1. PICK sent \in 0 .. polled[t] + NbAttack :
            /\ total' = [total EXCEPT ![t] = Counted(@, sent, polled[t])]
            /\ net' = [net EXCEPT ![t] = Wrap(@ + sent - polled[t])]
      BY <2>2 DEF SendToDave
    <3>2. CASE u = t
      <4>1. /\ sent \in Int /\ polled[t] \in Int
            /\ start[t] \in Int /\ net[t] \in Int /\ total[t] \in Int
        BY PacketsAssumption, CounterAssumption DEF TypeOK, Counter
      <4> DEFINE d == sent - polled[t]
                 n == net[t]
                 s == start[t]
      <4>2. d \in Int /\ s \in Int /\ n \in Int
        BY <4>1
      <4>3. total'[t] = Wrap(total[t] + d)
        <5>1. total'[t] = Wrap(total[t] + sent - polled[t])
          BY <3>1 DEF TypeOK, Counter, Counted
        <5>2. total[t] + sent - polled[t] = total[t] + d
          BY <4>1
        <5>3. QED
          BY <5>1, <5>2
      <4>4. net'[t] = Wrap(n + d)
        <5>1. net'[t] = Wrap(net[t] + sent - polled[t])
          BY <3>1 DEF TypeOK, Counter
        <5>2. net[t] + sent - polled[t] = n + d
          BY <4>1
        <5>3. QED
          BY <5>1, <5>2
      <4>5. total[t] = Wrap(s + n)
        BY <2>1, <3>2
      <4> HIDE DEF d, n, s
      <4>6. Wrap(Wrap(s + n) + d) = Wrap((s + n) + d)
        BY <4>2, WrapSum
      <4>7. Wrap(Wrap(n + d) + s) = Wrap((n + d) + s) /\ Wrap(n + d) \in Int
        <5>1. n + d \in Int
          BY <4>2
        <5>2. QED
          BY <4>2, <5>1, WrapSum
      <4>8. (s + n) + d = (n + d) + s /\ s + net'[t] = net'[t] + s
        BY <4>2, <4>4, <4>7
      <4>9. total'[t] = Wrap(s + net'[t])
        BY <4>3, <4>4, <4>5, <4>6, <4>7, <4>8
      <4>10. QED
        BY <4>9, <3>2, <1>2 DEF s
    <3>3. CASE u # t
      BY <3>1, <3>3, <1>2, <2>1 DEF TypeOK, Counter
    <3>4. QED
      BY <3>2, <3>3
  <2>3. CASE ForwardToAlice(t) \/ OutOfBuffers(t)
    BY <2>1, <2>3 DEF ForwardToAlice, OutOfBuffers, counters
  <2>4. QED
    BY <2>2, <2>3 DEF Iterate
<1>4. QED
  BY <1>1, <1>3 DEF CountInv, Waited

\* main adds the counter of the thread it deletes.
LEMMA DeleteCounts ==
  ASSUME TypeOK, CountInv, mpc = "destruct", mpc' = "destruct", i < NumThreads, i' = i + 1,
         nb_atk_pkts' = Wrap(nb_atk_pkts + total[i]),
         UNCHANGED <<total, start, net>>
  PROVE  CountInv'
<1>1. i \in Threads /\ i \in Nat
  BY ThreadsAssumption DEF TypeOK, Threads
<1>2. /\ start[i] + net[i] \in Int
      /\ \A t \in (0 .. i - 1) \cup {i} : start[t] + net[t] \in Int
  <2>1. \A t \in (0 .. i - 1) \cup {i} : t \in Threads
    BY <1>1, ThreadsAssumption DEF Threads
  <2>2. QED
    BY <1>1, <2>1, TermsAreNumbers
<1>3. /\ Counts((0 .. i - 1) \cup {i}) = Counts(0 .. i - 1) + (start[i] + net[i])
      /\ Counts(0 .. i - 1) \in Int
  <2>1. IsFiniteSet(0 .. i - 1) /\ i \notin 0 .. i - 1
    BY <1>1, FS_Interval
  <2>2. QED
    BY <1>2, <2>1, CountsAdd
<1>4. (0 .. i - 1) \cup {i} = 0 .. i' - 1
  BY <1>1
<1>5. nb_atk_pkts' = Wrap(Counts(0 .. i' - 1))
  <2> DEFINE a == Counts(0 .. i - 1)
             b == start[i] + net[i]
  <2>1. a \in Int /\ b \in Int
    BY <1>2, <1>3
  <2>2. nb_atk_pkts' = Wrap(Wrap(a) + Wrap(b))
    BY <1>1 DEF CountInv
  <2>3. Counts(0 .. i' - 1) = a + b
    BY <1>3, <1>4
  <2> HIDE DEF a, b
  <2>4. Wrap(Wrap(a) + Wrap(b)) = Wrap(a + Wrap(b)) /\ Wrap(b) \in Int
    BY <2>1, WrapSum
  <2>5. a + Wrap(b) = Wrap(b) + a /\ a + b = b + a
    BY <2>1, <2>4
  <2>6. Wrap(Wrap(b) + a) = Wrap(b + a)
    BY <2>1, WrapSum
  <2>7. QED
    BY <2>2, <2>3, <2>4, <2>5, <2>6
<1>6. Counts(0 .. i - 1)' = Counts(0 .. i' - 1)
  BY DEF Counts, MapThenSumSet, MapThenFoldSet
<1>7. QED
  BY <1>5, <1>6 DEF CountInv, Waited

\* main goes to the next of its loops.
LEMMA LoopCounts ==
  ASSUME IInv, NextLoop
  PROVE  CountInv'
<1>1. /\ UNCHANGED <<counters, nb_atk_pkts>>
      /\ i' = 0
      /\ \/ mpc = "launch" /\ mpc' = "run"
         \/ mpc = "quit" /\ mpc' = "wait"
         \/ mpc = "wait" /\ mpc' = "destruct"
         \/ mpc = "destruct" /\ mpc' = "eal_wait" /\ i = NumThreads
  BY DEF NextLoop, Exit, Goto
<1>2. (\A t \in Threads : total[t] = Wrap(start[t] + net[t]))'
  BY <1>1 DEF IInv, CountInv, counters
<1>3. CASE mpc = "destruct"
  <2>1. nb_atk_pkts' = Wrap(Counts(Threads))
    BY <1>1, <1>3 DEF IInv, CountInv, Threads
  <2>2. Counts(Threads)' = Counts(Threads)
    BY <1>1 DEF Counts, MapThenSumSet, MapThenFoldSet, counters
  <2>3. QED
    BY <1>1, <1>2, <1>3, <2>1, <2>2 DEF CountInv, Waited
<1>4. CASE mpc = "wait"
  <2>1. nb_atk_pkts' = 0
    BY <1>1, <1>4 DEF IInv, CountInv, Waited
  <2>2. Counts(0 .. i - 1)' = Counts({})'
    <3>1. (0 .. i - 1)' = {}
      BY <1>1
    <3>2. QED
      BY <3>1
  <2>3. Counts({})' = 0
    <3>1. Counts({}) = 0
      BY CountsEmpty
    <3>2. QED
      BY <1>1, CountsEmpty DEF Counts, MapThenSumSet, MapThenFoldSet, counters
  <2>4. Wrap(0) = 0
    BY CounterAssumption DEF Wrap
  <2>5. QED
    BY <1>1, <1>2, <1>4, <2>1, <2>2, <2>3, <2>4 DEF CountInv, Waited
<1>5. CASE mpc \in {"launch", "quit"}
  BY <1>1, <1>2, <1>5 DEF IInv, CountInv, Waited
<1>6. QED
  BY <1>1, <1>3, <1>4, <1>5

------------------------------------------------------------------------------
(* The launched threads.                                                   *)

LEMMA RunPreserves == ASSUME IInv, NEW t \in Launched, Run(t) PROVE IInv'
<1> t \in Threads
  BY DEF Launched
<1>1. TypeOK /\ StopInv /\ CountInv
  BY DEF IInv
<1>2. UNCHANGED <<quit, mpc, i, nb_atk_pkts, exists>>
  BY DEF Run
<1>3. CASE TestQuit(t)
  <2>1. TypeOK'
    BY <1>1, <1>2, <1>3 DEF TestQuit, Step, counters, flags, TypeOK
  <2>2. StopInv'
    BY <1>1, <1>2, <1>3 DEF TestQuit, Step, flags, TypeOK, StopInv, Waited, Launched
  <2>3. CountInv'
    BY <1>1, <1>2, <1>3, CountStays DEF TestQuit, counters
  <2>4. QED
    BY <2>1, <2>2, <2>3 DEF IInv
<1>4. CASE Stop(t)
  <2>1. TypeOK'
    BY <1>1, <1>2, <1>4 DEF Stop, Step, counters, TypeOK
  <2>2. StopInv'
    BY <1>1, <1>2, <1>4 DEF Stop, Step, TypeOK, StopInv, Waited, Launched
  <2>3. CountInv'
    BY <1>1, <1>2, <1>4, CountStays DEF Stop, counters
  <2>4. QED
    BY <2>1, <2>2, <2>3 DEF IInv
<1>5. CASE Iterate(t) /\ UNCHANGED flags
  <2>1. TypeOK'
    BY <1>1, <1>2, <1>5, IterateStep DEF flags, TypeOK
  <2>2. StopInv'
    BY <1>1, <1>2, <1>5, IterateStep DEF flags, TypeOK, StopInv, Waited, Launched
  <2>3. ~Waited /\ ~Waited'
    BY <1>1, <1>2, <1>5, IterateStep DEF StopInv, Waited
  <2>4. CountInv'
    BY <1>1, <1>2, <1>5, <2>3, IterateCounts
  <2>5. QED
    BY <2>1, <2>2, <2>4 DEF IInv
<1>6. QED
  BY <1>3, <1>4, <1>5 DEF Run

------------------------------------------------------------------------------
(* main.                                                                   *)

LEMMA OwnThread == Own \in Threads /\ Own \in Nat /\ Own < NumThreads
BY ThreadsAssumption DEF Own, Threads

\* What changes no thread and no flag, and deletes nothing.
LEMMA LaunchPreserves == IInv /\ Launch => IInv'
<1> SUFFICES ASSUME IInv, Launch PROVE IInv'
  OBVIOUS
<1>1. /\ mpc = "launch" /\ mpc' = "launch" /\ i < Own /\ i' = i + 1
      /\ wpc' = [wpc EXCEPT ![i] = "test"]
      /\ UNCHANGED <<alive, quit, flags, counters, nb_atk_pkts, exists>>
  BY DEF Launch, Round, Goto
<1>2. i \in Launched /\ i \in Nat /\ i' \in 0 .. NumThreads
  BY <1>1, ThreadsAssumption DEF IInv, TypeOK, Launched, Threads, Own
<1>3. TypeOK'
  BY <1>1, <1>2 DEF IInv, TypeOK, Launched, flags, counters
<1>4. wpc[i] = "created" /\ _running[i]
  <2>1. i >= i
    BY <1>2
  <2>2. wpc[i] = "created"
    BY <1>1, <1>2, <2>1 DEF IInv, StopInv
  <2>3. QED
    BY <1>2, <2>2 DEF IInv, StopInv
<1>5. StopInv'
  BY <1>1, <1>2, <1>4 DEF IInv, TypeOK, StopInv, Waited, Launched, Threads, flags
<1>6. CountInv'
  BY <1>1, CountEarly DEF IInv, Waited, counters
<1>7. QED
  BY <1>3, <1>5, <1>6 DEF IInv

LEMMA OwnPreserves == IInv /\ (TestGlobalQuit \/ IterateOwn) => IInv'
<1> SUFFICES ASSUME IInv, TestGlobalQuit \/ IterateOwn PROVE IInv'
  OBVIOUS
<1>1. CASE TestGlobalQuit
  <2>1. TypeOK'
    BY <1>1, OwnThread DEF TestGlobalQuit, Goto, IInv, TypeOK, flags, counters
  <2>2. StopInv'
    BY <1>1, OwnThread DEF TestGlobalQuit, Goto, IInv, TypeOK, StopInv, Waited, Launched, flags
  <2>3. CountInv'
    BY <1>1, CountEarly DEF TestGlobalQuit, Goto, IInv, Waited, counters
  <2>4. QED
    BY <2>1, <2>2, <2>3 DEF IInv
<1>2. CASE IterateOwn
  <2>1. TypeOK'
    BY <1>2, OwnThread, IterateStep DEF IterateOwn, Goto, IInv, TypeOK, flags
  <2>2. StopInv'
    BY <1>2, OwnThread, IterateStep
      DEF IterateOwn, Goto, IInv, TypeOK, StopInv, Waited, Launched, flags
  <2>3. CountInv'
    BY <1>2, OwnThread, IterateCounts DEF IterateOwn, Goto, IInv, Waited
  <2>4. QED
    BY <2>1, <2>2, <2>3 DEF IInv
<1>3. QED
  BY <1>1, <1>2

LEMMA QuitPreserves == IInv /\ QuitThread => IInv'
<1> SUFFICES ASSUME IInv, QuitThread PROVE IInv'
  OBVIOUS
<1>1. /\ mpc = "quit" /\ mpc' = "quit" /\ i < Own /\ i' = i + 1
      /\ _quit' = [_quit EXCEPT ![i] = TRUE]
      /\ UNCHANGED <<alive, quit, wpc, _running, counters, nb_atk_pkts, exists>>
  BY DEF QuitThread, Round, Goto
<1>2. i \in Threads /\ i' \in 0 .. NumThreads
  BY <1>1, ThreadsAssumption DEF IInv, TypeOK, Threads, Own
<1>3. TypeOK'
  BY <1>1, <1>2 DEF IInv, TypeOK, counters
<1>4. StopInv'
  BY <1>1 DEF IInv, StopInv, Waited
<1>5. CountInv'
  BY <1>1, CountEarly DEF IInv, Waited, counters
<1>6. QED
  BY <1>3, <1>4, <1>5 DEF IInv

\* The wait for a thread is what makes its deletion safe.
LEMMA WaitPreserves == IInv /\ WaitForThread => IInv'
<1> SUFFICES ASSUME IInv, WaitForThread PROVE IInv'
  OBVIOUS
<1>1. /\ mpc = "wait" /\ mpc' = "wait" /\ i < Own /\ i' = i + 1
      /\ ~_running[i]
      /\ UNCHANGED <<alive, quit, wpc, flags, counters, nb_atk_pkts, exists>>
  BY DEF WaitForThread, Round, Goto
<1>2. i \in Launched /\ i' \in 0 .. NumThreads
  BY <1>1, ThreadsAssumption DEF IInv, TypeOK, Launched, Threads, Own
<1>3. TypeOK'
  BY <1>1, <1>2 DEF IInv, TypeOK, counters, flags
<1>4. wpc[i] = "returned"
  BY <1>1, <1>2 DEF IInv, StopInv
<1>5. ASSUME NEW t \in Launched, t < i' PROVE wpc'[t] = "returned"
  BY <1>1, <1>2, <1>4, <1>5 DEF IInv, StopInv, TypeOK, Launched, Threads
<1>6. StopInv'
  BY <1>1, <1>5 DEF IInv, StopInv, Waited, flags
<1>7. CountInv'
  BY <1>1, CountEarly DEF IInv, Waited, counters
<1>8. QED
  BY <1>3, <1>6, <1>7 DEF IInv

LEMMA DeletePreserves == IInv /\ (RescueAndDelete \/ WaitForLcores) => IInv'
<1> SUFFICES ASSUME IInv, RescueAndDelete \/ WaitForLcores PROVE IInv'
  OBVIOUS
<1>1. CASE RescueAndDelete
  <2>1. /\ mpc = "destruct" /\ mpc' = "destruct" /\ i < NumThreads /\ i' = i + 1
        /\ nb_atk_pkts' = Wrap(nb_atk_pkts + total[i]) /\ exists' = exists \ {i}
        /\ UNCHANGED <<alive, quit, wpc, flags, counters>>
    BY <1>1 DEF RescueAndDelete, Round, Goto
  <2>2. i \in Threads /\ i' \in 0 .. NumThreads
    BY <2>1, ThreadsAssumption DEF IInv, TypeOK, Threads
  <2>3. nb_atk_pkts \in Int /\ total[i] \in Int
    BY <2>2, CounterAssumption DEF IInv, TypeOK, Counter
  <2>4. TypeOK'
    BY <2>1, <2>2, <2>3, WrapType DEF IInv, TypeOK, counters, flags
  <2>5. StopInv'
    BY <2>1 DEF IInv, StopInv, Waited, flags
  <2>6. CountInv'
    BY <2>1, DeleteCounts DEF IInv, counters
  <2>7. QED
    BY <2>4, <2>5, <2>6 DEF IInv
<1>2. CASE WaitForLcores
  <2>1. (TypeOK /\ StopInv)'
    BY <1>2 DEF WaitForLcores, Goto, IInv, TypeOK, StopInv, Waited, flags, counters
  <2>2. Counts(Threads)' = Counts(Threads)
    BY <1>2 DEF WaitForLcores, Counts, MapThenSumSet, MapThenFoldSet, counters
  <2>3. CountInv'
    BY <1>2, <2>2 DEF WaitForLcores, Goto, IInv, CountInv, Waited, counters
  <2>4. QED
    BY <2>1, <2>3 DEF IInv
<1>3. QED
  BY <1>1, <1>2

LEMMA LoopPreserves == IInv /\ NextLoop => IInv'
<1> SUFFICES ASSUME IInv, NextLoop PROVE IInv'
  OBVIOUS
<1>1. /\ UNCHANGED <<alive, quit, wpc, flags, counters, nb_atk_pkts, exists>>
      /\ i' = 0
      /\ \/ mpc = "launch" /\ mpc' = "run"
         \/ mpc = "quit" /\ mpc' = "wait"
         \/ mpc = "wait" /\ mpc' = "destruct" /\ i = Own
         \/ mpc = "destruct" /\ mpc' = "eal_wait"
  BY DEF NextLoop, Exit, Goto
<1>2. 0 \in 0 .. NumThreads
  BY ThreadsAssumption
<1>3. TypeOK'
  BY <1>1, <1>2 DEF IInv, TypeOK, counters, flags
<1>4. \A t \in Launched : t < Own /\ ~(t < 0)
  BY ThreadsAssumption DEF Launched, Threads, Own
<1>5. StopInv'
  BY <1>1, <1>4 DEF IInv, StopInv, Waited, flags
<1>6. CountInv'
  BY LoopCounts
<1>7. QED
  BY <1>3, <1>5, <1>6 DEF IInv

LEMMA OtherPreserves == IInv /\ (handle_quit \/ UNCHANGED vars) => IInv'
<1> SUFFICES ASSUME IInv, handle_quit \/ UNCHANGED vars PROVE IInv'
  OBVIOUS
<1>1. (TypeOK /\ StopInv)'
  BY DEF handle_quit, vars, flags, counters, IInv, TypeOK, StopInv, Waited
<1>2. CountInv'
  BY CountStays DEF handle_quit, vars, counters, IInv
<1>3. QED
  BY <1>1, <1>2 DEF IInv

LEMMA NextPreserves == IInv /\ [Next]_vars => IInv'
BY RunPreserves, LaunchPreserves, OwnPreserves, QuitPreserves, WaitPreserves, DeletePreserves,
  LoopPreserves, OtherPreserves
  DEF Next, Main, Terminated

------------------------------------------------------------------------------
(* The theorems.                                                           *)

(***************************************************************************)
(* The inductive invariant holds from the launch of the threads to the end *)
(* of main.                                                                *)
(***************************************************************************)
THEOREM InvariantHolds == Spec => []IInv
BY InitEstablishes, NextPreserves, PTL DEF Spec

\* Type correctness of main and the attack threads.
THEOREM TypesHold == Spec => []TypeOK
<1>1. IInv => TypeOK
  BY DEF IInv
<1>2. QED
  BY <1>1, InvariantHolds, PTL

(***************************************************************************)
(* However many attack threads there are, main deletes none that is still  *)
(* inside run: all of them have cleared _running, which each does last.    *)
(***************************************************************************)
THEOREM NoUseAfterDeleteHolds == Spec => []NoUseAfterDelete
<1>1. IInv => NoUseAfterDelete
  BY DEF IInv, StopInv, NoUseAfterDelete, Launched
<1>2. QED
  BY <1>1, InvariantHolds, PTL

(***************************************************************************)
(* However many attack threads there are and however wide their counters,  *)
(* what main prints at the end is what all of them have sent to dave less  *)
(* what they have polled from alice, on top of what the counters held at   *)
(* the start: no iteration comes too late to be counted.                   *)
(***************************************************************************)
THEOREM PrintedIsCompleteHolds == Spec => []PrintedIsComplete
<1>1. IInv => PrintedIsComplete
  BY DEF IInv, CountInv, PrintedIsComplete
<1>2. QED
  BY <1>1, InvariantHolds, PTL

==============================================================================
