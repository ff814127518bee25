SPECIFICATION SessionSpec
CONSTANTS
  Conns = {c1}
  Conn = c1
  Mbufs = {m1, m2, m3, m4, m5, m6}
  Null = Null
  NoEntry = NoEntry
  Opaque = Opaque
  Capacity = 2
  BurstSize = 1
  TsMod = 4
  HashMod = 4
  CookieHash <- MCCookieHash
  FromOutside <- MCNothing
  FromInside <- MCNothing
  ClientIss = 3
  ServerIss = 5
  MaxEvents = 1
PROPERTIES
  Establishes
  ServerHears
  ClientHears
  OrderlyCloseErases
