CONSTANTS
  Main = main
  Pair = {w1, w2}
  Cells <- MCCells
SPECIFICATION Spec
CHECK_DEADLOCK FALSE
INVARIANTS SuccessIsComplete
PROPERTIES CellEnds
