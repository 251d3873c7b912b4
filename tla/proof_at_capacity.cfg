\* Does every index proof() accepts get a valid proof?
CONSTANTS
  DEPTH = 2
  ZERO = zero
  Hash <- PairHash
  Leaf = {a}
  MaxBatch = 2
  RejectGaps = TRUE
  StoreMayFail = FALSE
SPECIFICATION Spec
INVARIANTS
  AcceptedProofsVerify
