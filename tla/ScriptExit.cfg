\* break() may be called as well; one variable, five statements.
CONSTANTS
  Vars = {x}
  Keys = {k}
  Statements <- LoopStatements
  Expressions <- AllExpressions
  Cells = 3
  TagLimit = 256
  MaxTags = 4
  MaxFrames = 6
  MaxLength = 5
  Features = {"break"}
SPECIFICATION Spec
INVARIANT ExitStops
CHECK_DEADLOCK FALSE
