SPECIFICATION Spec
CONSTANTS
  main = main
  helper = helper
  write = write
  Main = main
  Threads = {helper}
  Effects = {write}
  MaxRuns = 3
  MaxCalls = 3
  MaxClock = 2
INVARIANT WordsAreNewerThanTheDoubt
CHECK_DEADLOCK FALSE
