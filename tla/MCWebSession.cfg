CONSTANTS
  t1 = t1
  t2 = t2
  q1 = q1
  q2 = q2
  r1 = r1
  r2 = r2
  NoTab = NoTab
  NoRefresh = NoRefresh
  Tabs = {t1, t2}
  Requests = {q1, q2}
  Refreshes = {r1, r2}
  MaxTokens = 3
  MaxOpen = 2
SPECIFICATION Spec
CONSTRAINT NotDoubled
SYMMETRY SessionSymmetry

  
  
PROPERTIES
  StaysSignedIn
CHECK_DEADLOCK FALSE
