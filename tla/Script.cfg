\* Scripts of up to four statements over two variables.
CONSTANTS
  Vars = {x, y}
  Keys = {k}
  Statements <- AllStatements
  Expressions <- AllExpressions
  Cells = 3
  TagLimit = 256
  MaxFrames = 6
  MaxLength = 4
  MaxTags = 6
  Features = {}
SYMMETRY Symmetry
SPECIFICATION Spec
INVARIANTS TypeOK NoDangling CountsExact ExitStops
CHECK_DEADLOCK FALSE
