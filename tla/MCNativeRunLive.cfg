SPECIFICATION FairSpec
CONSTANTS
  r1 = r1
  r2 = r2
  c1 = c1
  NoRun = NoRun
  Runs = {r1}
  Deferred = {r1}
  Attached = {r1}
  Slow = {r1}
  Chats = {c1}
  ChatOf <- OneChat
  MaxFollowups = 1
  MaxText = 0
  MaxRounds = 1
  SettleAttempts = 1
  MaxCrashes = 1
  WritesFail = TRUE
PROPERTIES EveryRunEnds
CHECK_DEADLOCK FALSE
