SPECIFICATION FairSpec
CONSTANTS
  r1 = r1
  r2 = r2
  j1 = j1
  c1 = c1
  Runs = {r1, r2}
  Calls = {j1, c1}
  RunOf <- TwoRuns
  Jobs = {j1}
  MaxOps = 2
  MaxRunEnds = 1
  MaxEvents = 0
  MaxDials = 2
INVARIANT RepliesSurviveReconnects
CHECK_DEADLOCK FALSE
