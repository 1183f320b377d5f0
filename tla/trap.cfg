SPECIFICATION Spec
CONSTANTS
  LastTask = 3
  Values = {0, 1}
  Depth = 2
  QuietWindow = TRUE
INVARIANTS TypeOK KernelResumes KernelStackReady ExitMasked
PROPERTY RegistersKept
