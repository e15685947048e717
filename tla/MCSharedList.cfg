CONSTANTS
  Handles = {h1, h2}
  Nodes = {n1, n2, n3, n4}
  NULL = NULL
SPECIFICATION TSpec
SYMMETRY Symmetry
CHECK_DEADLOCK FALSE
INVARIANTS
  TypeOK
  CursorsKnown
  NothingMissed
  NothingStale
  NothingTwice
