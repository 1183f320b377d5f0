SPECIFICATION Spec
CONSTANTS
  a = a
  b = b
  c = c
  Msgs <- TwoSlots
  TimerPool = 2
  TaskPool = 2
  Tick = 2
  Delays <- SomeDelays
  TaskTests = TRUE
  Programs = TRUE
  Horizon = 3
SYMMETRY Alike
INVARIANTS TypeOK EarliestArmed SlotsOwned PrioritiesNest
PROPERTIES HigherRunsFirst
