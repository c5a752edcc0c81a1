\* A failed read leaves a slot behind that the next read is served from.
CONSTANTS
  NumClusters = 3
  SectorsPerCluster = 2
  MaxEntries = 2
  Part = {USER}
  NoPart = NoPart
  Value = {a, b}
  Garbage = Garbage
  Empty = Empty
  MaxCount = 2
  MaxDirty = 2
  ReadsMayFail = TRUE
  WritesMayFail = FALSE
SPECIFICATION Spec
SYMMETRY Symmetry
PROPERTY ReadsServeTheCluster
