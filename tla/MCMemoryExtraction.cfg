SPECIFICATION FairSpec
CONSTANTS
  c1 = c1
  c2 = c2
  x1 = x1
  w1 = w1
  w2 = w2
  NoJob = NoJob
  Commands = {c1}
  Forgets = {c1}
  Extracts = {x1}
  SourceOf <- OneSource
  Workers = {w1, w2}
  MaxAttempts = 2
  MaxLost = 1
  MaxResets = 1
PROPERTIES NothingObsoleteTakesEffect EveryCommandSettles
CHECK_DEADLOCK FALSE
