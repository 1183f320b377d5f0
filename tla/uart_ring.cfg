SPECIFICATION FairSpec
CONSTANTS
  Bytes <- SomeBytes
  Calls = {"getc", "try"}
  UartBufSize = 3
  FifoDepth = 2
  MaxBytes = 5
INVARIANTS TypeOK BytesInPlace
PROPERTIES RingIsQueue GetcReturns
