\* Blocks of 0 to 7 units in up to 18 units: several blocks at once, rests
\* that are worth a node and rests that are not.
CONSTANTS
  Start = 1
  MinLeft = 4
  Request = {0, 2, 7}
  MaxTop = 18
  MaxNodes = 5
SPECIFICATION FairSpec
INVARIANTS Tiled Coalesced
PROPERTIES GrowsOnlyWhenFull CallsReturn ImplementsStore
