SPECIFICATION Spec
CONSTANTS
  Mbufs = {m1, m2, m3, m4}
  Null = Null
  Capacity = 4
  BurstSize = 2
  NumArrs = 2
  NumInfos = 5
SYMMETRY Symmetry
INVARIANTS
  TypeOK
  BufferConservation
  NoNullTransmitted
  NoDanglingInfo
  InfosAligned
PROPERTIES
  ImplementsPromise
