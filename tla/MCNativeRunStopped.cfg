SPECIFICATION Spec
CONSTANTS
  r1 = r1
  r2 = r2
  c1 = c1
  NoRun = NoRun
  Runs = {r1}
  Deferred = {}
  Attached = {}
  Slow = {}
  Chats = {c1}
  ChatOf <- OneChat
  MaxFollowups = 0
  MaxText = 1
  MaxRounds = 0
  SettleAttempts = 1
  MaxCrashes = 0
  WritesFail = FALSE
PROPERTIES StoppedAnswerKeepsText
CHECK_DEADLOCK FALSE
