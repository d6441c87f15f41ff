CONSTANTS
  t1 = t1
  j1 = j1
  j2 = j2
  j3 = j3
  w1 = w1
  w2 = w2
  s1 = s1
  s2 = s2
  r1 = r1
  m1 = m1
  m2 = m2
  NoTrack = NoTrack
  NoJob = NoJob
  Tracks = {t1}
  JobIds = {j1, j2, j3}
  Workers = {w1}
  Slots = {s1, s2}
  Requests = {r1}
  Admins = {}
  MaxAttempts = 2
  Moderation = TRUE
  Limit <- Undisturbed
  Moderators = {m1}
  ModeratesFrom <- UnderReview
SPECIFICATION ModerationFairSpec
INVARIANTS
  ReleasedIsReviewed
PROPERTIES
  FollowsLifecycle
  ScheduleIsKept
