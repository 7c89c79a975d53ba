SPECIFICATION Spec
CONSTANTS
  c1 = c1
  c2 = c2
  x1 = x1
  w1 = w1
  w2 = w2
  NoJob = NoJob
  Commands = {c1, c2}
  Forgets = {c1}
  Extracts = {}
  SourceOf <- OneSource
  Workers = {w1, w2}
  MaxAttempts = 2
  MaxLost = 1
  MaxResets = 1
SYMMETRY WorkerSymmetry
INVARIANTS TypeOK ReceiptTellsTheEffect ForgetKeepsLaterCommands ClassifierPaidAtMostTwice
PROPERTIES CommandsTakeEffectInOrder
CHECK_DEADLOCK FALSE
