---------------------------- MODULE CookieProofs ----------------------------
(***************************************************************************)
(* Proofs about SynCookie and CookieClock for every keyed hash, every      *)
(* width of the timestamp and of the hash, and any number of connections,  *)
(* workers, ticks and cookies.                                             *)
(*                                                                         *)
(* The inductive invariant is IInv of CookieClock: at most one tick falls  *)
(* into a branch, a verdict is what check_syn_cookie makes of its three    *)
(* reads, and the cookie checked is one that was sent.  The properties     *)
(* follow from it by the arithmetic of stamps: two times less than a round *)
(* of the timestamp apart have different stamps.                           *)
(***************************************************************************)
EXTENDS CookieClock, SequenceTheorems, TLAPS

------------------------------------------------------------------------------
(* Stamps: residues modulo TsMod.                                          *)

LEMMA StampType == ASSUME NEW k \in Int PROVE Stamp(k) \in Ts /\ TsPrev(k) \in Ts
BY TsModAssumption DEF Stamp, TsPrev, Ts

\* A factor that is a natural number and not 0 does not make a product smaller.
LEMMA Product == ASSUME NEW a \in Nat, NEW b \in Nat, a >= 1 PROVE a * b \in Nat /\ a * b >= b
<1>1. a * b = b + (a - 1) * b /\ (a - 1) * b \in Nat
  OBVIOUS
<1>2. QED
  BY <1>1

\* Quotient and remainder are unique.
LEMMA Division ==
  ASSUME NEW q \in Int, NEW x \in Ts
  PROVE  (q * TsMod + x) % TsMod = x
<1> DEFINE n == q * TsMod + x
           d == n \div TsMod
           r == n % TsMod
<1>1. TsMod \in Nat /\ TsMod >= 2 /\ x \in Nat /\ x < TsMod
  BY TsModAssumption DEF Ts
<1>2. d \in Int /\ r \in Nat /\ r < TsMod /\ q * TsMod + x = d * TsMod + r
  BY <1>1
<1> HIDE DEF d, r, n
<1>3. CASE q > d
  <2>1. (q - d) * TsMod >= TsMod
    BY <1>1, <1>2, <1>3, Product
  <2>2. q * TsMod - d * TsMod = (q - d) * TsMod
    BY <1>1, <1>2
  <2>3. QED
    BY <1>1, <1>2, <2>1, <2>2
<1>4. CASE d > q
  <2>1. (d - q) * TsMod >= TsMod
    BY <1>1, <1>2, <1>4, Product
  <2>2. d * TsMod - q * TsMod = (d - q) * TsMod
    BY <1>1, <1>2
  <2>3. QED
    BY <1>1, <1>2, <2>1, <2>2
<1>5. CASE q = d
  BY <1>1, <1>2, <1>5 DEF r, n
<1>6. QED
  BY <1>2, <1>3, <1>4, <1>5

\* Times that are less than one round apart have different stamps.
LEMMA SameStamp ==
  ASSUME NEW a \in Int, NEW b \in Int, a <= b, b < a + TsMod, Stamp(a) = Stamp(b)
  PROVE  a = b
<1> DEFINE q == a \div TsMod
           r == a % TsMod
           p == b \div TsMod
<1>1. TsMod \in Nat /\ TsMod >= 2
  BY TsModAssumption
<1>2. q \in Int /\ p \in Int /\ r \in Nat /\ a = q * TsMod + r /\ b = p * TsMod + r
  BY <1>1 DEF Stamp
<1> HIDE DEF q, p, r
<1>3. CASE p > q
  <2>1. (p - q) * TsMod >= TsMod
    BY <1>1, <1>2, <1>3, Product
  <2>2. p * TsMod - q * TsMod = (p - q) * TsMod
    BY <1>1, <1>2
  <2>3. QED
    BY <1>1, <1>2, <2>1, <2>2
<1>4. CASE q > p
  <2>1. (q - p) * TsMod >= TsMod
    BY <1>1, <1>2, <1>4, Product
  <2>2. q * TsMod - p * TsMod = (q - p) * TsMod
    BY <1>1, <1>2
  <2>3. QED
    BY <1>1, <1>2, <2>1, <2>2
<1>5. CASE p = q
  BY <1>2, <1>5
<1>6. QED
  BY <1>2, <1>3, <1>4, <1>5

\* The stamp before that of a time is the stamp of the time before.
LEMMA StampBefore == ASSUME NEW k \in Int PROVE TsPrev(Stamp(k)) = Stamp(k - 1)
<1> DEFINE q == k \div TsMod
           r == k % TsMod
           x == (r - 1) % TsMod
           d == (r - 1) \div TsMod
<1>1. TsMod \in Nat /\ TsMod >= 2
  BY TsModAssumption
<1>2. q \in Int /\ r \in Nat /\ k = q * TsMod + r
  BY <1>1
<1>3. d \in Int /\ x \in Ts /\ r - 1 = d * TsMod + x
  BY <1>1, <1>2 DEF Ts
<1> HIDE DEF q, r, x, d
<1>4. k - 1 = (q + d) * TsMod + x
  <2>1. (q + d) * TsMod = q * TsMod + d * TsMod
    BY <1>1, <1>2, <1>3
  <2>2. x \in Int
    BY <1>3, <1>1 DEF Ts
  <2>3. QED
    BY <1>1, <1>2, <1>3, <2>1, <2>2
<1>5. (k - 1) % TsMod = x
  BY <1>2, <1>3, <1>4, Division
<1>6. QED
  BY <1>5 DEF Stamp, TsPrev, r, x

------------------------------------------------------------------------------
(* Cookies.                                                                *)

LEMMA HashType ==
  ASSUME NEW c \in Conns, NEW t \in Ts
  PROVE  CookieHash[c][t] \in Int /\ 0 <= CookieHash[c][t] /\ CookieHash[c][t] <= HashMod - 1
BY CookieHashAssumption, HashModAssumption

\* The low bits of a cookie are the timestamp they were made of.
LEMMA LowBits ==
  ASSUME NEW c \in Conns, NEW a \in Ts, NEW b \in Ts
  PROVE  CookieTimestamp(TornCookie(c, a, b)) = b
BY HashType, Division DEF CookieTimestamp, TornCookie

\* The hash leaves room for the timestamp: a cookie is a sequence number.
LEMMA CookieType ==
  ASSUME NEW c \in Conns, NEW a \in Ts, NEW b \in Ts
  PROVE  TornCookie(c, a, b) \in Seqs
<1> DEFINE h == CookieHash[c][a]
<1>1. h \in Nat /\ HashMod - 1 - h \in Nat /\ TsMod \in Nat /\ HashMod \in Nat
  BY HashType, HashModAssumption, TsModAssumption
<1> HIDE DEF h
<1>2. h * TsMod \in Nat /\ (HashMod - 1 - h) * TsMod \in Nat
  BY <1>1
<1>3. HashMod * TsMod = (HashMod - 1 - h) * TsMod + h * TsMod + TsMod
  BY <1>1
<1>4. b \in Nat /\ b < TsMod
  BY TsModAssumption DEF Ts
<1>5. h * TsMod + b \in 0 .. HashMod * TsMod - 1
  BY <1>1, <1>2, <1>3, <1>4
<1>6. QED
  BY <1>5 DEF TornCookie, Seqs, SeqMod, h

(***************************************************************************)
(* If at most one tick falls into the check and it accepts, no tick fell   *)
(* between the reads that matter: one read at the start gives the same.    *)
(***************************************************************************)
LEMMA TornCheckIsCheck ==
  ASSUME NEW v, NEW c \in Conns, NEW a \in Int, NEW b \in Int, NEW k \in Int,
         a <= b, b <= k, k <= a + 1, TornCheck(v, c, Stamp(a), Stamp(b), Stamp(k))
  PROVE  check_syn_cookie(v, c, Stamp(a))
<1>1. a < a + TsMod /\ k < a + TsMod /\ a <= k /\ k - 1 < a - 1 + TsMod /\ a - 1 <= k - 1
  BY TsModAssumption
<1>2. a = k => b = a
  OBVIOUS
<1>3. CASE CookieTimestamp(v) = Stamp(a) /\ v = TornCookie(c, Stamp(b), Stamp(k))
  <2>1. CookieTimestamp(v) = Stamp(k)
    BY <1>3, StampType, LowBits
  <2>2. a = k
    BY <1>1, <1>3, <2>1, SameStamp
  <2>3. QED
    BY <1>2, <1>3, <2>2 DEF check_syn_cookie, TornCheck
<1>4. CASE /\ CookieTimestamp(v) = TsPrev(Stamp(a))
           /\ v = TornCookie(c, TsPrev(Stamp(b)), TsPrev(Stamp(k)))
  <2>1. /\ CookieTimestamp(v) = Stamp(a - 1)
        /\ v = TornCookie(c, Stamp(b - 1), Stamp(k - 1))
    BY <1>4, StampBefore
  <2>2. b - 1 \in Int /\ k - 1 \in Int /\ a - 1 \in Int
    OBVIOUS
  <2>3. CookieTimestamp(v) = Stamp(k - 1)
    BY <2>1, <2>2, StampType, LowBits
  <2>4. a - 1 = k - 1
    BY <1>1, <2>1, <2>2, <2>3, SameStamp
  <2>5. a = k
    BY <2>4
  <2>6. QED
    BY <1>2, <1>4, <2>5 DEF check_syn_cookie, TornCheck
<1>5. QED
  BY <1>3, <1>4 DEF TornCheck

\* A cookie made without a tick and at most one tick ago is accepted.
LEMMA FreshIsAccepted ==
  ASSUME NEW c \in Conns, NEW s \in Int, NEW k \in Int, s <= k, k <= s + 1
  PROVE  check_syn_cookie(Cookie(c, Stamp(s)), c, Stamp(k))
<1>1. CookieTimestamp(Cookie(c, Stamp(s))) = Stamp(s)
  BY StampType, LowBits DEF Cookie
<1>2. CASE k = s
  BY <1>1, <1>2 DEF check_syn_cookie, TornCheck, Cookie
<1>3. CASE k = s + 1
  <2>1. TsPrev(Stamp(k)) = Stamp(s)
    <3>1. k - 1 = s
      BY <1>3
    <3>2. QED
      BY <3>1, StampBefore
  <2>2. QED
    BY <1>1, <2>1 DEF check_syn_cookie, TornCheck, Cookie
<1>4. QED
  BY <1>2, <1>3

------------------------------------------------------------------------------
(* The invariant.                                                          *)

LEMMA InitEstablishes == Init => IInv
<1> SUFFICES ASSUME Init PROVE IInv
  OBVIOUS
<1>1. 0 \in 0 .. MaxClock
  BY MaxClockAssumption
<1>2. TypeOK
  BY <1>1 DEF Init, TypeOK
<1>3. IssuedInv
  BY DEF Init, IssuedInv
<1>4. ASSUME NEW w \in Workers PROVE BranchInv(w) /\ CheckInv(w) /\ VerdictInv(w)
  BY DEF Init, BranchInv, CheckInv, VerdictInv
<1>5. QED
  BY <1>2, <1>3, <1>4 DEF IInv

\* The reads of a branch are times of the clock.
LEMMA ReadsAreTimes ==
  ASSUME IInv, NEW w \in Workers, NEW j \in 1 .. Len(reads[w])
  PROVE  reads[w][j] \in 0 .. MaxClock /\ reads[w][j] \in Nat
<1>1. reads[w] \in Seq(0 .. MaxClock)
  BY DEF IInv, TypeOK
<1>2. reads[w][j] \in 0 .. MaxClock
  BY <1>1, ElementOfSeq
<1>3. QED
  BY <1>2, MaxClockAssumption

\* A step of worker w that leaves the cookies alone has to be looked at for w only.
LEMMA OthersKeep ==
  ASSUME IInv, NEW w \in Workers, NEW u \in Workers, u # w, clock' = clock,
         pc'[u] = pc[u], conn'[u] = conn[u], reads'[u] = reads[u], cookie'[u] = cookie[u],
         verdict'[u] = verdict[u], issued \subseteq issued'
  PROVE  (BranchInv(u) /\ CheckInv(u) /\ VerdictInv(u))'
BY DEF IInv, BranchInv, CheckInv, VerdictInv

LEMMA SynReadHashPreserves ==
  ASSUME IInv, NEW w \in Workers, NEW c \in Conns, SynReadHash(w, c)
  PROVE  IInv'
<1>1. clock \in 0 .. MaxClock /\ <<clock>> \in Seq(0 .. MaxClock)
  BY DEF IInv, TypeOK
<1>2. TypeOK'
  BY <1>1 DEF SynReadHash, Step, IInv, TypeOK
<1>3. IssuedInv'
  BY DEF SynReadHash, IInv, IssuedInv, Stamp
<1>4. ASSUME NEW u \in Workers PROVE (BranchInv(u) /\ CheckInv(u) /\ VerdictInv(u))'
  <2>1. CASE u = w
    <3>1. pc'[w] = "syn" /\ reads'[w] = <<clock>> /\ verdict'[w] = "none" /\ clock' = clock
      BY DEF SynReadHash, Step, IInv, TypeOK
    <3>2. clock \in Int /\ clock <= clock /\ clock <= clock + 1
      BY <1>1, MaxClockAssumption
    <3>3. QED
      BY <2>1, <3>1, <3>2 DEF BranchInv, CheckInv, VerdictInv
  <2>2. CASE u # w
    BY <2>2, OthersKeep DEF SynReadHash, Step, IInv, TypeOK
  <2>3. QED
    BY <2>1, <2>2
<1>5. QED
  BY <1>2, <1>3, <1>4 DEF IInv

LEMMA SynReadLowPreserves ==
  ASSUME IInv, NEW w \in Workers, SynReadLow(w)
  PROVE  IInv'
<1> DEFINE x == [by |-> w, conn |-> conn[w],
                 value |-> TornCookie(conn[w], Stamp(reads[w][1]), Stamp(clock)),
                 hashed |-> reads[w][1], stamped |-> clock]
<1>1. /\ clock \in Nat /\ conn[w] \in Conns
      /\ Len(reads[w]) = 1 /\ reads[w][1] \in Nat /\ verdict[w] = "none"
      /\ reads[w][1] <= clock /\ clock <= reads[w][1] + 1
  <2>1. pc[w] = "syn" /\ BranchInv(w)
    BY DEF SynReadLow, Step, IInv
  <2>2. reads[w] \in Seq(0 .. MaxClock) /\ clock \in 0 .. MaxClock /\ conn[w] \in Conns
    BY DEF IInv, TypeOK
  <2>3. reads[w][1] \in Nat
    BY <2>1, ReadsAreTimes DEF BranchInv
  <2>4. QED
    BY <2>1, <2>2, <2>3 DEF BranchInv
<1>2. x \in Issue
  BY <1>1, StampType, CookieType DEF Issue
<1>3. issued' = issued \cup {x} /\ clock' = clock
  BY DEF SynReadLow
<1>4. TypeOK'
  <2>1. issued' \subseteq Issue
    BY <1>2, <1>3 DEF IInv, TypeOK
  <2>2. <<>> \in Seq(0 .. MaxClock)
    OBVIOUS
  <2>3. QED
    BY <2>1, <2>2 DEF SynReadLow, Step, IInv, TypeOK
<1>5. IssuedInv'
  BY <1>1, <1>3 DEF IInv, IssuedInv, Stamp
<1>6. ASSUME NEW u \in Workers PROVE (BranchInv(u) /\ CheckInv(u) /\ VerdictInv(u))'
  <2>1. CASE u = w
    <3>1. pc'[w] = "idle" /\ verdict'[w] = "none"
      BY <1>1 DEF SynReadLow, Step, IInv, TypeOK
    <3>2. QED
      BY <2>1, <3>1 DEF BranchInv, CheckInv, VerdictInv
  <2>2. CASE u # w
    BY <1>3, <2>2, OthersKeep DEF SynReadLow, Step, IInv, TypeOK
  <2>3. QED
    BY <2>1, <2>2
<1>7. QED
  BY <1>4, <1>5, <1>6 DEF IInv

\* The cookie a client returns was sent to its connection, before the check.
LEMMA ReturnedCookie ==
  ASSUME IInv, NEW x \in issued
  PROVE  x \in Issue /\ x.conn \in Conns /\ x.stamped \in Nat /\ x.stamped <= clock
BY DEF IInv, TypeOK, IssuedInv, Issue

LEMMA AckFirstPreserves ==
  ASSUME IInv, NEW w \in Workers, NEW x \in issued, AckTooOld(w, x) \/ AckReadAge(w, x)
  PROVE  IInv'
<1>1. clock \in 0 .. MaxClock /\ clock \in Int /\ <<clock>> \in Seq(0 .. MaxClock)
  BY MaxClockAssumption DEF IInv, TypeOK
<1>2. /\ cookie' = [cookie EXCEPT ![w] = x] /\ conn' = [conn EXCEPT ![w] = x.conn]
      /\ reads' = [reads EXCEPT ![w] = <<clock>>]
      /\ UNCHANGED <<clock, issued>>
      /\ \/ /\ pc[w] = "idle" /\ pc' = pc /\ verdict' = [verdict EXCEPT ![w] = "refused"]
            /\ ~Young(x.value)
         \/ pc' = [pc EXCEPT ![w] = "aged"] /\ verdict' = [verdict EXCEPT ![w] = "none"]
  BY DEF AckTooOld, AckReadAge, Step
<1>3. TypeOK'
  BY <1>1, <1>2, ReturnedCookie DEF IInv, TypeOK
<1>4. IssuedInv'
  BY <1>2 DEF IInv, IssuedInv, Stamp
<1>5. ASSUME NEW u \in Workers PROVE (BranchInv(u) /\ CheckInv(u) /\ VerdictInv(u))'
  <2>1. CASE u = w
    <3>1. cookie'[w] = x /\ conn'[w] = x.conn /\ reads'[w] = <<clock>>
      BY <1>2 DEF IInv, TypeOK
    <3>2. \/ pc'[w] = "idle" /\ verdict'[w] = "refused" /\ ~Young(x.value)
          \/ pc'[w] = "aged" /\ verdict'[w] = "none"
      BY <1>2 DEF IInv, TypeOK
    <3>3. BranchInv(w)'
      BY <1>1, <1>2, <3>1, <3>2 DEF BranchInv
    <3>4. CheckInv(w)'
      BY <1>1, <1>2, <3>1, ReturnedCookie DEF CheckInv
    <3>5. VerdictInv(w)'
      BY <3>1, <3>2 DEF VerdictInv, Young, Stamp
    <3>6. QED
      BY <2>1, <3>3, <3>4, <3>5
  <2>2. CASE u # w
    BY <1>2, <2>2, OthersKeep DEF IInv, TypeOK
  <2>3. QED
    BY <2>1, <2>2
<1>6. QED
  BY <1>3, <1>4, <1>5 DEF IInv

\* What a further read of the timestamp adds to the reads of a branch.
LEMMA ReadAdds ==
  ASSUME IInv, NEW w \in Workers, Read(w), NEW n \in 1 .. 2, Len(reads[w]) = n
  PROVE  /\ reads' \in [Workers -> Seq(0 .. MaxClock)]
         /\ Len(reads'[w]) = n + 1 /\ reads'[w][n + 1] = clock
         /\ \A j \in 1 .. n : reads'[w][j] = reads[w][j] /\ reads[w][j] \in Nat
         /\ clock \in Nat
<1>1. reads[w] \in Seq(0 .. MaxClock) /\ clock \in 0 .. MaxClock
  BY DEF IInv, TypeOK
<1>2. reads' = [reads EXCEPT ![w] = Append(reads[w], clock)]
  BY DEF Read
<1>3. reads'[w] = Append(reads[w], clock)
  BY <1>2 DEF IInv, TypeOK
<1>4. /\ Append(reads[w], clock) \in Seq(0 .. MaxClock)
      /\ Len(Append(reads[w], clock)) = n + 1
      /\ \A j \in 1 .. n : Append(reads[w], clock)[j] = reads[w][j]
      /\ Append(reads[w], clock)[n + 1] = clock
  BY <1>1, AppendProperties
<1>5. \A j \in 1 .. n : reads[w][j] \in Nat
  BY ReadsAreTimes
<1>6. QED
  BY <1>1, <1>2, <1>3, <1>4, <1>5, MaxClockAssumption DEF IInv, TypeOK

LEMMA AckReadHashPreserves ==
  ASSUME IInv, NEW w \in Workers, AckReadHash(w)
  PROVE  IInv'
<1>1. /\ pc[w] = "aged" /\ pc' = [pc EXCEPT ![w] = "hashed"] /\ Read(w)
      /\ UNCHANGED <<clock, conn, cookie, verdict, issued>>
      /\ BranchInv(w) /\ CheckInv(w) /\ VerdictInv(w)
  BY DEF AckReadHash, Step, IInv
<1>2. /\ Len(reads[w]) = 1 /\ verdict[w] = "none"
      /\ reads[w][1] <= clock /\ clock <= reads[w][1] + 1
  BY <1>1 DEF BranchInv
<1>3. /\ reads' \in [Workers -> Seq(0 .. MaxClock)]
      /\ Len(reads'[w]) = 2 /\ reads'[w][2] = clock /\ reads'[w][1] = reads[w][1]
      /\ reads[w][1] \in Nat /\ clock \in Nat
  <2>1. /\ reads' \in [Workers -> Seq(0 .. MaxClock)]
        /\ Len(reads'[w]) = 1 + 1 /\ reads'[w][1 + 1] = clock
        /\ \A j \in 1 .. 1 : reads'[w][j] = reads[w][j] /\ reads[w][j] \in Nat
        /\ clock \in Nat
    BY <1>1, <1>2, ReadAdds
  <2>2. QED
    BY <2>1
<1>4. TypeOK'
  BY <1>1, <1>3 DEF IInv, TypeOK
<1>5. IssuedInv'
  BY <1>1 DEF IInv, IssuedInv, Stamp
<1>6. ASSUME NEW u \in Workers PROVE (BranchInv(u) /\ CheckInv(u) /\ VerdictInv(u))'
  <2>1. CASE u = w
    <3>1. pc'[w] = "hashed" /\ verdict'[w] = "none"
      BY <1>1, <1>2 DEF IInv, TypeOK
    <3>2. BranchInv(w)'
      BY <1>1, <1>2, <1>3, <3>1 DEF BranchInv
    <3>3. CheckInv(w)'
      BY <1>1, <1>2, <1>3, <3>1 DEF CheckInv
    <3>4. VerdictInv(w)'
      BY <3>1 DEF VerdictInv
    <3>5. QED
      BY <2>1, <3>2, <3>3, <3>4
  <2>2. CASE u # w
    BY <1>1, <2>2, OthersKeep DEF Read, IInv, TypeOK
  <2>3. QED
    BY <2>1, <2>2
<1>7. QED
  BY <1>4, <1>5, <1>6 DEF IInv

LEMMA AckReadLowPreserves ==
  ASSUME IInv, NEW w \in Workers, AckReadLow(w)
  PROVE  IInv'
<1>1. /\ pc[w] = "hashed" /\ pc' = [pc EXCEPT ![w] = "idle"] /\ Read(w)
      /\ verdict' = [verdict EXCEPT ![w] =
           IF TornCheck(cookie[w].value, conn[w],
                        Stamp(reads[w][1]), Stamp(reads[w][2]), Stamp(clock))
           THEN "accepted" ELSE "refused"]
      /\ UNCHANGED <<clock, conn, cookie, issued>>
      /\ BranchInv(w) /\ CheckInv(w)
  BY DEF AckReadLow, Step, IInv
<1>2. /\ Len(reads[w]) = 2 /\ reads[w][1] <= reads[w][2] /\ reads[w][2] <= clock
      /\ reads[w][1] <= clock /\ clock <= reads[w][1] + 1
  BY <1>1 DEF BranchInv
<1>3. /\ reads' \in [Workers -> Seq(0 .. MaxClock)]
      /\ Len(reads'[w]) = 3 /\ reads'[w][3] = clock
      /\ reads'[w][1] = reads[w][1] /\ reads'[w][2] = reads[w][2]
      /\ reads[w][1] \in Nat /\ reads[w][2] \in Nat /\ clock \in Nat
  <2>1. /\ reads' \in [Workers -> Seq(0 .. MaxClock)]
        /\ Len(reads'[w]) = 2 + 1 /\ reads'[w][2 + 1] = clock
        /\ \A j \in 1 .. 2 : reads'[w][j] = reads[w][j] /\ reads[w][j] \in Nat
        /\ clock \in Nat
    BY <1>1, <1>2, ReadAdds
  <2>2. QED
    BY <2>1
<1>4. TypeOK'
  BY <1>1, <1>3 DEF IInv, TypeOK
<1>5. IssuedInv'
  BY <1>1 DEF IInv, IssuedInv, Stamp
<1>6. ASSUME NEW u \in Workers PROVE (BranchInv(u) /\ CheckInv(u) /\ VerdictInv(u))'
  <2>1. CASE u = w
    <3>1. /\ pc'[w] = "idle"
          /\ verdict'[w] = IF TornCheck(cookie[w].value, conn[w],
                              Stamp(reads[w][1]), Stamp(reads[w][2]), Stamp(clock))
                           THEN "accepted" ELSE "refused"
      BY <1>1 DEF IInv, TypeOK
    <3>2. BranchInv(w)'
      BY <3>1 DEF BranchInv
    <3>3. CheckInv(w)'
      BY <1>1, <1>3 DEF CheckInv
    <3>4. VerdictInv(w)'
      BY <1>1, <1>2, <1>3, <3>1 DEF VerdictInv, Stamp
    <3>5. QED
      BY <2>1, <3>2, <3>3, <3>4
  <2>2. CASE u # w
    BY <1>1, <2>2, OthersKeep DEF Read, IInv, TypeOK
  <2>3. QED
    BY <2>1, <2>2
<1>7. QED
  BY <1>4, <1>5, <1>6 DEF IInv

\* main ticks only if every worker in a branch has seen none in it.
LEMMA TickPreserves == IInv /\ s_increment_timestamp => IInv'
<1> SUFFICES ASSUME IInv, s_increment_timestamp PROVE IInv'
  OBVIOUS
<1>1. /\ clock \in Nat /\ clock' = clock + 1 /\ clock' \in 0 .. MaxClock
      /\ \A w \in Workers : pc[w] # "idle" => reads[w][1] = clock
      /\ UNCHANGED <<pc, conn, reads, cookie, verdict, issued>>
  BY MaxClockAssumption DEF s_increment_timestamp, IInv, TypeOK
<1>2. TypeOK'
  BY <1>1 DEF IInv, TypeOK
<1>3. IssuedInv'
  <2> SUFFICES ASSUME NEW x \in issued
               PROVE  /\ x.value = TornCookie(x.conn, Stamp(x.hashed), Stamp(x.stamped))
                      /\ x.hashed <= x.stamped /\ x.stamped <= x.hashed + 1
                      /\ x.stamped <= clock'
    BY <1>1 DEF IssuedInv, Stamp
  <2>1. QED
    BY <1>1, ReturnedCookie DEF IInv, IssuedInv
<1>4. ASSUME NEW w \in Workers PROVE (BranchInv(w) /\ CheckInv(w) /\ VerdictInv(w))'
  <2>1. BranchInv(w) /\ CheckInv(w) /\ VerdictInv(w)
    BY DEF IInv
  <2>2. BranchInv(w)'
    <3>1. CASE pc[w] = "idle"
      BY <1>1, <3>1 DEF BranchInv
    <3>2. CASE pc[w] = "hashed"
      <4>1. /\ Len(reads[w]) = 2 /\ reads[w][1] <= reads[w][2] /\ reads[w][2] <= clock
            /\ reads[w][1] = clock /\ verdict[w] = "none"
        BY <1>1, <2>1, <3>2 DEF BranchInv
      <4>2. reads[w][2] \in Nat
        BY <4>1, ReadsAreTimes
      <4>3. QED
        BY <1>1, <2>1, <3>2, <4>1, <4>2 DEF BranchInv
    <3>3. CASE pc[w] \in {"syn", "aged"}
      BY <1>1, <2>1, <3>3 DEF BranchInv
    <3>4. QED
      BY <3>1, <3>2, <3>3 DEF IInv, TypeOK
  <2>3. CheckInv(w)' /\ VerdictInv(w)'
    BY <1>1, <2>1 DEF CheckInv, VerdictInv, Stamp
  <2>4. QED
    BY <2>2, <2>3
<1>5. QED
  BY <1>2, <1>3, <1>4 DEF IInv

LEMMA StutterPreserves == IInv /\ UNCHANGED vars => IInv'
BY DEF vars, IInv, TypeOK, IssuedInv, BranchInv, CheckInv, VerdictInv, Stamp

LEMMA NextPreserves == IInv /\ [Next]_vars => IInv'
BY SynReadHashPreserves, SynReadLowPreserves, AckFirstPreserves, AckReadHashPreserves,
  AckReadLowPreserves, TickPreserves, StutterPreserves
  DEF Next

------------------------------------------------------------------------------
(* The theorems.                                                           *)

\* The inductive invariant holds whatever ticks fall between two reads.
THEOREM InvariantHolds == Spec => []IInv
BY InitEstablishes, NextPreserves, PTL DEF Spec

\* Type correctness of main's clock, the workers and the cookies they sent.
THEOREM TypesHold == Spec => []TypeOK
<1>1. IInv => TypeOK
  BY DEF IInv
<1>2. QED
  BY <1>1, InvariantHolds, PTL

\* What the invariant says of a check that is over.
LEMMA CheckedCookie ==
  ASSUME IInv, NEW w \in Workers, verdict[w] # "none"
  PROVE  /\ cookie[w] \in issued /\ conn[w] = cookie[w].conn /\ conn[w] \in Conns
         /\ cookie[w].value = TornCookie(conn[w], Stamp(cookie[w].hashed), Stamp(cookie[w].stamped))
         /\ cookie[w].hashed \in Int /\ cookie[w].stamped \in Int
         /\ cookie[w].stamped <= reads[w][1]
         /\ Len(reads[w]) \in {1, 3}
         /\ \A j \in 1 .. Len(reads[w]) : reads[w][j] \in Int
<1>1. CheckInv(w) /\ VerdictInv(w) /\ IssuedInv /\ reads[w] \in Seq(0 .. MaxClock)
  BY DEF IInv, TypeOK
<1>2. cookie[w] \in issued /\ cookie[w] \in Issue /\ conn[w] = cookie[w].conn
  BY <1>1, ReturnedCookie DEF CheckInv
<1>3. Len(reads[w]) \in {1, 3}
  BY <1>1 DEF VerdictInv
<1>4. \A j \in 1 .. Len(reads[w]) : reads[w][j] \in Int
  BY ReadsAreTimes
<1>5. cookie[w].stamped <= reads[w][1]
  BY <1>1 DEF CheckInv
<1>6. cookie[w].value = TornCookie(conn[w], Stamp(cookie[w].hashed), Stamp(cookie[w].stamped))
  BY <1>1, <1>2 DEF IssuedInv
<1>7. cookie[w].hashed \in Int /\ cookie[w].stamped \in Int /\ cookie[w].conn \in Conns
  BY <1>2 DEF Issue
<1>8. QED
  BY <1>2, <1>3, <1>4, <1>5, <1>6, <1>7

(***************************************************************************)
(* Whatever the hash, and whatever ticks fall into the check, it accepts   *)
(* only what a single read of the timestamp would have accepted.           *)
(***************************************************************************)
THEOREM AcceptedAtOneInstantHolds == Spec => []AcceptedAtOneInstant
<1>1. IInv => AcceptedAtOneInstant
  <2> SUFFICES ASSUME IInv, NEW w \in Workers, verdict[w] = "accepted"
               PROVE  check_syn_cookie(cookie[w].value, conn[w], Stamp(reads[w][1]))
    BY DEF AcceptedAtOneInstant
  <2>1. /\ Len(reads[w]) = 3
        /\ reads[w][1] <= reads[w][2] /\ reads[w][2] <= reads[w][3]
        /\ reads[w][3] <= reads[w][1] + 1
        /\ TornCheck(cookie[w].value, conn[w], Stamp(reads[w][1]),
                     Stamp(reads[w][2]), Stamp(reads[w][3]))
    BY DEF IInv, VerdictInv
  <2>2. conn[w] \in Conns /\ \A j \in 1 .. 3 : reads[w][j] \in Int
    BY <2>1, CheckedCookie
  <2>3. QED
    BY <2>1, <2>2, TornCheckIsCheck
<1>2. QED
  BY <1>1, InvariantHolds, PTL

(***************************************************************************)
(* An accepted cookie is at most one tick old, or at least one full round  *)
(* of the timestamp, for every width of the timestamp.                     *)
(***************************************************************************)
THEOREM AcceptedIsYoungOrWrappedHolds == Spec => []AcceptedIsYoungOrWrapped
<1>1. IInv => AcceptedIsYoungOrWrapped
  <2> SUFFICES ASSUME IInv, NEW w \in Workers, verdict[w] = "accepted",
                      ~(Age(w) >= TsMod)
               PROVE  Age(w) <= 1
    BY DEF AcceptedIsYoungOrWrapped
  <2> DEFINE s == cookie[w].stamped
             k == reads[w][1]
  <2>1. /\ s \in Int /\ k \in Int /\ s <= k /\ cookie[w].hashed \in Int
        /\ cookie[w].value = TornCookie(conn[w], Stamp(cookie[w].hashed), Stamp(s))
        /\ conn[w] \in Conns
    BY CheckedCookie
  <2>2. k < s + TsMod /\ k - 1 < s + TsMod
    BY <2>1, TsModAssumption DEF Age
  <2>3. CookieTimestamp(cookie[w].value) = Stamp(s)
    BY <2>1, StampType, LowBits
  <2>4. Stamp(s) \in {Stamp(k), TsPrev(Stamp(k))}
    BY <2>3 DEF IInv, VerdictInv, TornCheck
  <2>5. CASE Stamp(s) = Stamp(k)
    <3>1. s = k
      BY <2>1, <2>2, <2>5, SameStamp
    <3>2. QED
      BY <2>1, <3>1 DEF Age
  <2>6. CASE Stamp(s) = TsPrev(Stamp(k))
    <3>1. Stamp(s) = Stamp(k - 1) /\ k - 1 \in Int
      BY <2>1, <2>6, StampBefore
    <3>2. CASE s <= k - 1
      <4>1. s = k - 1
        BY <2>1, <2>2, <3>1, <3>2, SameStamp
      <4>2. QED
        BY <2>1, <4>1 DEF Age
    <3>3. CASE ~(s <= k - 1)
      BY <2>1, <3>3 DEF Age
    <3>4. QED
      BY <3>2, <3>3
  <2>7. QED
    BY <2>4, <2>5, <2>6
<1>2. QED
  BY <1>1, InvariantHolds, PTL

(***************************************************************************)
(* A client that answers within one tick is refused only if a tick fell    *)
(* into the branch that made its cookie or into the check.                 *)
(***************************************************************************)
THEOREM RefusedOnlyForCauseHolds == Spec => []RefusedOnlyForCause
<1>1. IInv => RefusedOnlyForCause
  <2> SUFFICES ASSUME IInv, NEW w \in Workers, verdict[w] = "refused", ~(Age(w) > 1),
                      cookie[w].hashed = cookie[w].stamped,
                      reads[w][1] = reads[w][Len(reads[w])]
               PROVE  FALSE
    BY DEF RefusedOnlyForCause
  <2> DEFINE s == cookie[w].stamped
             k == reads[w][1]
  <2>1. /\ s \in Int /\ s <= k /\ conn[w] \in Conns
        /\ cookie[w].value = Cookie(conn[w], Stamp(s))
        /\ Len(reads[w]) \in {1, 3}
        /\ \A j \in 1 .. Len(reads[w]) : reads[w][j] \in Int
    BY CheckedCookie DEF Cookie
  <2>2. k \in Int
    BY <2>1
  <2>3. check_syn_cookie(cookie[w].value, conn[w], Stamp(k))
    BY <2>1, <2>2, FreshIsAccepted DEF Age
  <2>4. CookieTimestamp(cookie[w].value) \in {Stamp(k), TsPrev(Stamp(k))}
    BY <2>3 DEF check_syn_cookie, TornCheck
  <2>5. /\ Len(reads[w]) = 3
        /\ reads[w][1] <= reads[w][2] /\ reads[w][2] <= reads[w][3]
        /\ ~TornCheck(cookie[w].value, conn[w], Stamp(reads[w][1]),
                      Stamp(reads[w][2]), Stamp(reads[w][3]))
    BY <2>4 DEF IInv, VerdictInv
  <2>6. reads[w][2] = k /\ reads[w][3] = k
    BY <2>1, <2>5
  <2>7. QED
    BY <2>3, <2>5, <2>6 DEF check_syn_cookie
<1>2. QED
  BY <1>1, InvariantHolds, PTL

==============================================================================
