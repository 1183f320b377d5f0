SPECIFICATION Spec
CONSTANTS
  Entries = 4
  EarlyGib = 2
  Mmio <- Windows2
  EarlyPtes = 2
  Static = 4
  Pool <- PoolPages
  Trees <- FirmwareTrees
  Archives <- FirmwareArchives
  Ramdisk = 17
  Text = 1
  Stack = 2
  DeviceTree = 3
  PlicBase = 24
  PlicContext = 28
  UserProg = 18
  MaxSize = 8
  Names <- FileNames
  UserVas <- Vas
INVARIANTS TypeOK AddressesReach RequestPrefix LookupsRight FilesFound
PROPERTIES TablesAreMaps
