\* The default tree: MemoryStore, whose only error is a gap.
CONSTANTS
  DEPTH = 3
  ZERO = zero
  Hash <- PairHash
  Leaf = {zero, a}
  MaxBatch = 5
  RejectGaps = TRUE
  StoreMayFail = FALSE
SPECIFICATION FairSpec
INVARIANTS
  TypeOK
  SlicesInBounds
  NeverRejected
  ProofsVerify
  ProofPinsLeaf
PROPERTIES
  ImplementsAppendOnlyTree
  RootCatchesUp
