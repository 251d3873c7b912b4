\* Chunks of 4 pairs for three workers, stages of 3, a hasher that may panic.
CONSTANTS
  DEPTH = 1
  ZERO = zero
  Hash <- TaggedHash
  MIN_PARALLEL_HASHES = 4
  STAGE = 3
  Worker = {w1, w2, w3}
  None = none
  MaxRun = 26
  Spare = 1
  MayPanic = TRUE
SPECIFICATION FairSpec
INVARIANTS
  JoinedIsWritten
PROPERTIES
  SlotsWrittenOnce
  Returns
CHECK_DEADLOCK FALSE
