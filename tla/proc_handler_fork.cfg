SPECIFICATION Spec
CONSTANTS
  MaxThreads = 3
  Signals = {1}
  Files = {f1}
  Linked = Linked
  Calls <- HandlerPrograms
  EndsOthers = TRUE
  HandlerForks = TRUE
  TestThreads = 3
  Rounds = 1
  MaxPid = 4
INVARIANTS StacksDisjoint
