SPECIFICATION Spec
CONSTANTS
  Bytes <- SomeBytes
  Calls = {"getc"}
  UartBufSize = 3
  FifoDepth = 2
  MaxBytes = 2
INVARIANTS ImageFaithful
