\* proof() on a second handle of an SQLite file or of a FileStore directory.
CONSTANTS
  DEPTH = 2
  ZERO = zero
  Hash <- PairHash
  Leaf = {zero, a}
  MaxBatch = 3
  RejectGaps = FALSE
  StoreMayFail = FALSE
  Torn = torn
  None = none
  MAX_PARAMS = 3
SPECIFICATION ReaderSpec
INVARIANTS
  QuietProofVerifies
  RootsOfWholeCalls
  AcceptedProofsAreOfThePast
