CONSTANTS
  Handles = {h1, h2, h3}
  Nodes = {n1, n2, n3}
  Zombies = {z1, z2, z3, z4}
  NULL = NULL
SPECIFICATION Spec
SYMMETRY Symmetry
CHECK_DEADLOCK FALSE
INVARIANTS
  TypeOK
  IteratorsValid
  WalkersValid
  RetiredOnce
  ListShape
  OnlyNestedGuardsLeak
PROPERTIES
  ImplementsSharedList
