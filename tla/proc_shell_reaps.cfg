SPECIFICATION Spec
CONSTANTS
  MaxThreads = 3
  Signals = {}
  Files = {f1}
  Linked = Linked
  Calls <- Stoppers
  EndsOthers = TRUE
  HandlerForks = FALSE
  TestThreads = 3
  Rounds = 1
  MaxPid = 4
PROPERTIES ParentCollects
