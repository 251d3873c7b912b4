\* MemoryStore under every sequence of puts.
CONSTANTS
  Node = {a, b}
  None = None
  TopLevel = 1
  MaxNodes = 3
SPECIFICATION Spec
INVARIANTS
PROPERTIES
  ImplementsStore
  RefusesExactlyGaps
