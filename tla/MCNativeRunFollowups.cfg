SPECIFICATION Spec
CONSTANTS
  r1 = r1
  r2 = r2
  c1 = c1
  NoRun = NoRun
  Runs = {r1}
  Deferred = {}
  Attached = {}
  Slow = {}
  Chats = {c1}
  ChatOf <- OneChat
  MaxFollowups = 3
  MaxText = 1
  MaxRounds = 1
  SettleAttempts = 2
  MaxCrashes = 0
  WritesFail = TRUE
INVARIANTS TypeOK AnswerLeavesNoFollowup
PROPERTIES AnswerReadEveryFollowup StoredTextIsKept
CHECK_DEADLOCK FALSE
