\* Two partitions, no faults: the cache implements the plain disk.
CONSTANTS
  NumClusters = 3
  SectorsPerCluster = 1
  MaxEntries = 2
  Part = {USER, SAFE}
  NoPart = NoPart
  Value = {a, b}
  Garbage = Garbage
  Empty = Empty
  MaxCount = 2
  MaxDirty = 2
  ReadsMayFail = FALSE
  WritesMayFail = FALSE
SPECIFICATION Spec
INVARIANTS NothingDirtyBetweenCalls CleanSlotsMatchEmmc
PROPERTIES ImplementsDisk OnlyClientData
