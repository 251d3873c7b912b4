\* A key-value store (sled, RocksDB, SQLite) whose calls may return an error.
CONSTANTS
  DEPTH = 3
  ZERO = zero
  Hash <- PairHash
  Leaf = {a}
  MaxBatch = 4
  RejectGaps = FALSE
  StoreMayFail = TRUE
SPECIFICATION Spec
INVARIANTS
  PartnersFresh
  NoPhantomNodes
  HealedByNextAdd
  HealableUnlessCrossed
  HashBound
PROPERTIES
  CompleteNodesFinal
  TornForever
