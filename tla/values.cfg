\* Words of 4 bits in trees of 1 to 9 levels, every count and every batch of them;
\* nodes of two bytes, strings of up to 6 characters.
CONSTANTS
  W = 4
  MaxDepth = 9
  MaxLen = 7
  LEN = 2
  Wide = "e-acute"
  MaxChars = 6
SPECIFICATION ValuesSpec
INVARIANTS
  ShiftsFindTheirBit
  RoundTrip
PROPERTIES
  CountNeverWraps
CHECK_DEADLOCK FALSE
