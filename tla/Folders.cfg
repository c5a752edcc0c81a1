CONSTANTS
  a = a
  ab = ab
  f = f
  x = x
  y = y
  Names = {a, ab, f}
  NameStarts <- MCNameStarts
  Chunks = {x, y}
  Trees <- MCTrees
  MaxDepth = 4
  MaxCalls = 2
  MaxFaults = 1
  ClosesMayFail = FALSE
  ScriptsOverlap = FALSE
SPECIFICATION Spec
INVARIANTS TypeOK CopyIsWhole OnlyTargetChanges DeleteIsWhole RecursionBounded
PROPERTIES StopsAtFirstError CallsReturn
CHECK_DEADLOCK FALSE
