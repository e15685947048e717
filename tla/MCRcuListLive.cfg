CONSTANTS
  Handles = {h1, h2}
  Nodes = {n1, n2}
  Zombies = {z1, z2, z3}
  NULL = NULL
SPECIFICATION FairSpec
CHECK_DEADLOCK FALSE
INVARIANTS
  IInv
PROPERTIES
  UnlockTerminates
  DestructorTerminates
