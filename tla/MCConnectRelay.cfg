SPECIFICATION FairSpec
CONSTANTS
  r1 = r1
  r2 = r2
  j1 = j1
  c1 = c1
  Runs = {r1}
  Calls = {j1, c1}
  RunOf <- OneRun
  Jobs = {j1}
  MaxOps = 1
  MaxRunEnds = 1
  MaxEvents = 1
  MaxDials = 2
INVARIANTS TypeOK OutcomeIsTrue NoProcessOutlivesItsRunsEnd ClosedToTheRelay
PROPERTIES EndedRunsLeaveNothingRunning
CHECK_DEADLOCK FALSE
