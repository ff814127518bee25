SPECIFICATION Spec
CONSTANTS
  Conns = {c1, c2}
  Mbufs = {m1, m2, m3, m4}
  Null = Null
  NoEntry = NoEntry
  Opaque = Opaque
  Capacity = 4
  BurstSize = 2
  TsMod <- MCTsMod
  HashMod <- MCHashMod
  CookieHash <- MCCookieHash
  FromOutside <- MCFromOutside
  FromInside <- MCFromInside
SYMMETRY Symmetry
INVARIANTS
  TypeOK
  BufferOwnership
  TeardownConsistent
  HeldPassedCookie
  TwoBurstsSuffice
  PollFindsNothingUnsent
PROPERTIES
  ImplementsLifecycle
  OffsetSettled
