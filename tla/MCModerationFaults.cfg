CONSTANTS
  t1 = t1
  t2 = t2
  j1 = j1
  j2 = j2
  w1 = w1
  w2 = w2
  s1 = s1
  s2 = s2
  r1 = r1
  m1 = m1
  m2 = m2
  NoTrack = NoTrack
  NoJob = NoJob
  Tracks = {t1}
  JobIds = {j1}
  Workers = {w1}
  Slots = {s1}
  Requests = {r1}
  Admins = {}
  MaxAttempts = 1
  Moderation = TRUE
  Limit <- StopsAndFaults
  Moderators = {m1, m2}
  ModeratesFrom <- UnderReview
SPECIFICATION ModerationSpec
SYMMETRY PeerSymmetry
CONSTRAINT TwoDisturbances
INVARIANTS
  OneNoticePerRelease
