SPECIFICATION Spec
CONSTANTS
  r1 = r1
  r2 = r2
  c1 = c1
  NoRun = NoRun
  Runs = {r1}
  Deferred = {r1}
  Attached = {r1}
  Slow = {r1}
  Chats = {c1}
  ChatOf <- OneChat
  MaxFollowups = 1
  MaxText = 1
  MaxRounds = 1
  SettleAttempts = 2
  MaxCrashes = 1
  WritesFail = TRUE
INVARIANTS AnswerInvariant OwnershipInvariant NoCallRunsInEndedRun
PROPERTIES EndedRunIsFinal PublishedAnswerStands KeepsContract
CHECK_DEADLOCK FALSE
