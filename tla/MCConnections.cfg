CONSTANTS
  Threads = {t1, t2}
  Senders = {s1, s2}
  Receivers = {r1, r2}
  Signals = {g1}
  Slots = {m1, k1}
  Methods = {m1}
  Lambdas = {k1}
  Conns = {c1, c2, c3}
  Uniq = {TRUE}
  NULL = NULL
SPECIFICATION Spec
SYMMETRY Symmetry
CHECK_DEADLOCK FALSE
INVARIANTS
  TypeOK
  HalvesAgree
  FindSucceeds
  NoDangling
  NoWaitCycle
  NotAddedTwice
PROPERTIES
  ImplementsTable
