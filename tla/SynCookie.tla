------------------------------ MODULE SynCookie ------------------------------
(***************************************************************************)
(* The SYN cookies of include/Treatment/Treatment.hpp and the arithmetic   *)
(* of TCP sequence numbers they live in.                                   *)
(*                                                                         *)
(* A cookie is a 32-bit sequence number: the upper 24 bits are a keyed     *)
(* hash of the connection and of a timestamp, the lower 8 bits are the     *)
(* timestamp itself.  Here a sequence number is below HashMod * TsMod      *)
(* (2^24 * 2^8 in the code) and the keyed hash is an arbitrary function    *)
(* CookieHash, fixed for the life of the process like _cookie_secret.      *)
(***************************************************************************)
EXTENDS Integers

CONSTANTS
  Conns,      \* the connections: values of the key class Data
  TsMod,      \* number of values of the u_int8_t timestamp (256)
  HashMod,    \* number of values of the masked hash (2^24)
  CookieHash  \* CookieHash[c][t]: masked XXH3 hash of c, t and the secret

\* The values of _s_timestamp, and of a sequence or acknowledgement number.
Ts == 0 .. TsMod - 1
SeqMod == HashMod * TsMod
Seqs == 0 .. SeqMod - 1

ASSUME TsModAssumption == TsMod \in Nat /\ TsMod >= 2
ASSUME HashModAssumption == HashMod \in Nat \ {0}
ASSUME CookieHashAssumption == CookieHash \in [Conns -> [Ts -> 0 .. HashMod - 1]]

\* Mutations, each a plausible slip in the definition it precedes.
\* A difference that does not wrap around; a timestamp that stops at 0.
SeqSubUnbounded(a, b) == a - b
TsPrevSaturating(t) == IF t = 0 THEN 0 ELSE t - 1

\* u_int32_t and u_int8_t arithmetic wraps around.
SeqAdd(a, b) == (a + b) % SeqMod
SeqSub(a, b) == (a - b) % SeqMod
TsNext(t) == (t + 1) % TsMod
TsPrev(t) == (t - 1) % TsMod

\* Mutation: the hash is not cut to 24 bits.
TornCookieUnmasked(c, tHash, tLow) ==
  (CookieHash[c][tHash] + HashMod) * TsMod + tLow

(***************************************************************************)
(* The cookie the SYN branch sends: the hash over the timestamp tHash with *)
(* the timestamp tLow in the low bits.  The code reads _s_timestamp once   *)
(* for each, so the two may differ (module CookieClock).                   *)
(***************************************************************************)
TornCookie(c, tHash, tLow) == CookieHash[c][tHash] * TsMod + tLow
Cookie(c, t) == TornCookie(c, t, t)

CookieTimestamp(v) == v % TsMod

\* Mutations: the hash is not compared; the age is not compared; the age
\* is compared with the last read instead of the first; an age of 1 is old.
TornCheckAgeOnly(v, c, tAge, tHash, tLow) ==
  CookieTimestamp(v) \in {tAge, TsPrev(tAge)}
TornCheckHashOnly(v, c, tAge, tHash, tLow) == v = Cookie(c, CookieTimestamp(v))
TornCheckFresh(v, c, tAge, tHash, tLow) ==
  CookieTimestamp(v) = tAge /\ v = TornCookie(c, tHash, tLow)
TornCheckFreshRead(v, c, tAge, tHash, tLow) ==
  v \in {TornCookie(c, tHash, tLow), TornCookie(c, TsPrev(tHash), TsPrev(tLow))}

(***************************************************************************)
(* check_syn_cookie.  The function reads _s_timestamp for the age of the   *)
(* cookie, for the expected hash and for the expected low bits: tAge,      *)
(* tHash and tLow.  An age of 0 or 1 ticks is young enough.                *)
(***************************************************************************)
TornCheck(v, c, tAge, tHash, tLow) ==
  \/ /\ CookieTimestamp(v) = tAge
     /\ v = TornCookie(c, tHash, tLow)
  \/ /\ CookieTimestamp(v) = TsPrev(tAge)
     /\ v = TornCookie(c, TsPrev(tHash), TsPrev(tLow))

check_syn_cookie(v, c, t) == TornCheck(v, c, t, t, t)

==============================================================================
