\* A directory of level files whose writes may be taken in part, under a process
\* that may be killed anywhere and a machine that may lose the last writes.
CONSTANTS
  DEPTH = 2
  ZERO = zero
  Hash <- PairHash
  Leaf = {a, b}
  MaxBatch = 3
  RejectGaps = TRUE
  StoreMayFail = TRUE
  Torn = torn
  MaxLost = 2
SPECIFICATION FileSpec
INVARIANTS
  FilesContiguous
  RootHealed
PROPERTIES
  StoredNodesFinal
  StuckUntilReopened
  KillHealable
SYMMETRY LeafSymmetry
