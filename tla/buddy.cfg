SPECIFICATION FairSpec
CONSTANTS
  FrameCount = 9
  MaxOrder = 2
  Size <- PowersOfTwo
  PageSize = 4
  PoolSizes <- TwoPools
  ArrayPages = 2
  Regions <- BootRegions
  Requests <- SmallRequests
INVARIANTS TypeOK ListsExact PagesOwned Unfragmented ChunksOnce FrameArrayApart
PROPERTIES IsHeap CallsReturn
