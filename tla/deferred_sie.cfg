SPECIFICATION FairSpec
CONSTANTS
  a = a
  b = b
  c = c
  Msgs <- TwoSlots
  TimerPool = 2
  TaskPool = 2
  Tick = 2
  Delays <- OneDelay
  TaskTests = FALSE
  Programs = TRUE
  Horizon = 2
PROPERTIES TimeoutsFire
