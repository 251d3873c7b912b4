\* One file per level, calls that fail, writes taken in pieces, and handles that
\* are dropped or killed anywhere and opened again.
CONSTANTS
  Node = {a, b}
  TopLevel = 1
  MaxNodes = 2
  NodeLen = 2
  MayFail = TRUE
  MayCrash = TRUE
SPECIFICATION Spec
INVARIANTS
  ReadsBacked
  AckedSurvives
PROPERTIES
  ImplementsStore
SYMMETRY NodeSymmetry
