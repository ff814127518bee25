SPECIFICATION Spec
CONSTANTS
  Thresholds = {0, 1, 2}
  Weights <- MCWeights
  MinWindow = 1
  Windows = {0, 1}
  BurstSize = 3
  MaxDuration = 8
  Hz = 6
  U16 = 65536
  U64 = 16
  Null = Null
INVARIANTS
  TypeOK
  DropsExactly
