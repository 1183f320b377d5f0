SPECIFICATION Spec
CONSTANTS
  LastTask = 1
  Values = {0}
  Depth = 2
  QuietWindow = FALSE
INVARIANT UserRunsUserCode
