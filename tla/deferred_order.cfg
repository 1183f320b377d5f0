SPECIFICATION FairSpec
CONSTANTS
  a = a
  b = b
  c = c
  Msgs <- ThreeSlots
  TimerPool = 3
  TaskPool = 3
  Tick = 2
  Delays <- SomeDelays
  TaskTests = FALSE
  Programs = TRUE
  Horizon = 4
PROPERTIES PrintsInOrder UnmaskedTimeoutsFire
