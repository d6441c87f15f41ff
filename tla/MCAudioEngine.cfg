CONSTANTS
  a = a
  m = m
  NoTrack = NoTrack
  l1 = l1
  l2 = l2
  Tracks = {a, m}
  Mixes = {m}
  Loads = {l1, l2}
SPECIFICATION Spec
SYMMETRY LoadSymmetry
INVARIANTS
  HeardIsCurrent
  FadesKeepVolume

  
CHECK_DEADLOCK FALSE
