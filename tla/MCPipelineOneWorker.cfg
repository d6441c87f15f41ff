CONSTANTS
  t1 = t1
  j1 = j1
  j2 = j2
  w1 = w1
  s1 = s1
  s2 = s2
  r1 = r1
  r2 = r2
  a1 = a1
  NoTrack = NoTrack
  NoJob = NoJob
  Tracks = {t1}
  JobIds = {j1, j2}
  Workers = {w1}
  Slots = {s1, s2}
  Requests = {r1, r2}
  Admins = {a1}
  MaxAttempts = 2
  Moderation = TRUE
  Limit <- CrashAndReplay
SPECIFICATION Spec
SYMMETRY SlotSymmetry
INVARIANTS
  TypeOK
  OneRunPerJob
  AttemptsBounded
  ActiveJobInFlight
PROPERTIES
  CompletedStays
