CONSTANTS
  t1 = t1
  t2 = t2
  p1 = p1
  c1 = c1
  d1 = d1
  l1 = l1
  e1 = e1
  NoTrack = NoTrack
  Tracks = {t1, t2}
  Lists = {p1}
  EmptyLists = {}
  Calls = {c1}
  Downloads = {d1}
  Ids = {l1}
  Edits = {e1}
  MaxTracks = 1
  MaxActs = 4
  MaxTroubles = 1
  MaxLength = 2
SPECIFICATION CollectionSpec
SYMMETRY LibrarySymmetry
PROPERTIES
  GuestLibraryKept
CHECK_DEADLOCK FALSE
