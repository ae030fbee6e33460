\* 11 leaves: up to three mountains, and every pair of neighbouring heights.
CONSTANTS
  Leaf = {a, b}
  MaxLeaves = 11
SPECIFICATION RangeSpec
INVARIANTS RootExact ProofsDecide
PROPERTIES ImplementsLeafLog
