SPECIFICATION Spec
CONSTANTS
  width = 9
  height = 5
  Kinds = {"square4", "square8", "hex"}
  WallSites <- MiddleColumns
  Starts <- CornerAndCenter
  Goals <- CornerAndBorder
  Nil = Nil
INVARIANTS HeapOrdered LegalPath Shortest
CHECK_DEADLOCK FALSE
