CONSTANTS
  t1 = t1
  t2 = t2
  t3 = t3
  p1 = p1
  p2 = p2
  c1 = c1
  d1 = d1
  d2 = d2
  l1 = l1
  l2 = l2
  e1 = e1
  e2 = e2
  NoTrack = NoTrack
  Tracks = {t1, t2, t3}
  Lists = {p1, p2}
  EmptyLists = {p2}
  Calls = {c1}
  Downloads = {d1, d2}
  Ids = {l1, l2}
  Edits = {e1, e2}
  MaxTracks = 1
  MaxActs = 3
  MaxTroubles = 1
  MaxLength = 2
SPECIFICATION CollectionSpec
SYMMETRY LibrarySymmetry
INVARIANTS
  ImportedOncePerLoss
  
  OfflineWithinLimit
  
PROPERTIES
  
  KeepsWhatItRead
CHECK_DEADLOCK FALSE
