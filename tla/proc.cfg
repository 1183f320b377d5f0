SPECIFICATION FairSpec
CONSTANTS
  MaxThreads = 3
  Signals = {1, 2}
  Files = {f1}
  Linked = Linked
  Calls <- AllCalls
  EndsOthers = FALSE
  HandlerForks = FALSE
  TestThreads = 3
  Rounds = 1
  MaxPid = 2
INVARIANTS TypeOK RunQueueExact PidsUnique WaitsForSameTask HandlerContext StacksDisjoint
PROPERTIES ParentCollects SignalsKept EveryTaskRuns WaitpidReturns
