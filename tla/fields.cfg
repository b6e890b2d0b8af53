SPECIFICATION Spec
CONSTANTS
  Kinds = {"int", "long", "float", "byte", "double", "string"}
  Shapes <- TextShapes
  MaxUpdates = 3
  AnyHistory = FALSE
INVARIANTS
  ReadBack
  NeighbourUntouched
  ReaderSeesOldOrNew
CHECK_DEADLOCK FALSE
