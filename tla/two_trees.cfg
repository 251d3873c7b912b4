\* Two trees on one SQLite file, whose callers take turns or do not.
CONSTANTS
  DEPTH = 2
  ZERO = zero
  Hash <- PairHash
  Leaf = {a}
  LeafB = {b}
  MaxBatch = 2
SPECIFICATION Spec
PROPERTIES
  AgreedNodesFinal
  TurnsImplementLog
