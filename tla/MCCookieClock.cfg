SPECIFICATION Spec
CONSTANTS
  Conns = {c1}
  Workers = {w1, w2}
  NoCookie = NoCookie
  MaxClock = 6
  MaxIssued = 2
  TsMod <- MCTsMod
  HashMod <- MCHashMod
  CookieHash <- MCCookieHash
SYMMETRY Symmetry
INVARIANTS
  TypeOK
  AcceptedAtOneInstant
  AcceptedIsYoungOrWrapped
  RefusedOnlyForCause
