CONSTANTS
  r1 = r1
  r2 = r2
  c1 = c1
  c2 = c2
  NoRow = NoRow
  Rows = {r1, r2}
  Calls = {c1, c2}
  Tries = 2
  MaxFlows = 2
  MaxActs = 3
  MaxTroubles = 1
SPECIFICATION ConsoleSpec
INVARIANTS
  SoloPreview
PROPERTIES
  
  
  WizardSettles
CHECK_DEADLOCK FALSE
