SPECIFICATION Spec
CONSTANTS
  r1 = r1
  r2 = r2
  c1 = c1
  NoRun = NoRun
  Runs = {r1, r2}
  Deferred = {r2}
  Attached = {}
  Slow = {}
  Chats = {c1}
  ChatOf <- OneChat
  MaxFollowups = 0
  MaxText = 0
  MaxRounds = 0
  SettleAttempts = 1
  MaxCrashes = 1
  WritesFail = TRUE
PROPERTIES RecoveryLeavesOwnedRuns
CHECK_DEADLOCK FALSE
