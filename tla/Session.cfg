CONSTANTS
  SYSTEM = SYSTEM
  PRODINFO = PRODINFO
  BCPKG21 = BCPKG21
  NoName = NoName
  Name <- Names
  Layout <- Table
  Crypt <- Crypts
  Fat <- Fats
  MmcMayFail = FALSE
  MaxStale = 1
SPECIFICATION SessionSpec
INVARIANTS
  ConnectedDeviceIsActive MountedFromConnectedDevice AccessReachesWhatIsMeant
  ExplorerReachesItsPartition
PROPERTY MoveStaysOnItsVolume
