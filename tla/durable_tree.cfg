\* sled, RocksDB and SQLite, whose last puts a crash may lose and whose calls may fail.
CONSTANTS
  DEPTH = 2
  ZERO = zero
  Hash <- PairHash
  Leaf = {a, b}
  MaxBatch = 3
  RejectGaps = FALSE
  StoreMayFail = TRUE
  MaxLost = 5
  Backends = {"sled", "rocksdb", "sqlite"}
  None = none
SPECIFICATION DurableSpec
INVARIANTS
  StoreSeen
  CountFitsNodes
  RootOfWholeCalls
PROPERTIES
  SyncedNodesFinal
SYMMETRY LeafSymmetry
