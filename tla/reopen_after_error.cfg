\* Does a new handle show what the last one did?
CONSTANTS
  DEPTH = 2
  ZERO = zero
  Hash <- PairHash
  Leaf = {a}
  MaxBatch = 3
  RejectGaps = TRUE
  StoreMayFail = TRUE
  Torn = torn
  MaxLost = 0
SPECIFICATION FileSpec
PROPERTY ReopenKeepsEverything
