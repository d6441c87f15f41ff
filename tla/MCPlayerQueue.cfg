CONSTANTS
  a = a
  b = b
  c = c
  NoTrack = NoTrack
  Tracks = {a, b, c}
  MaxQueue = 3
  MaxAnswer = 2
  MaxSimilar = 1
  MaxCalls = 1
SPECIFICATION Spec
SYMMETRY TrackSymmetry
INVARIANTS
  TypeOK
  CurrentIsQueued
PROPERTIES
  DuplicatesOnlyFromSimilar
CHECK_DEADLOCK FALSE
