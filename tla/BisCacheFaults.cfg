\* Any access to the eMMC may fail.
CONSTANTS
  NumClusters = 3
  SectorsPerCluster = 2
  MaxEntries = 2
  Part = {USER}
  NoPart = NoPart
  Value = {a}
  Garbage = Garbage
  Empty = Empty
  MaxCount = 3
  MaxDirty = 2
  ReadsMayFail = TRUE
  WritesMayFail = TRUE
SPECIFICATION FairSpec
INVARIANTS SlotsOwned DirtyCounted
PROPERTY CallsReturn
