SPECIFICATION Spec
CONSTANTS
  Thresholds = {5}
  Weights <- MCEqualWeights
  MinWindow = 1
  Windows = {0}
  BurstSize = 5
  MaxDuration = 1
  Hz = 8
  U16 = 65536
  U64 = 65536
  Null = Null
PROPERTY UpdateAsTested
