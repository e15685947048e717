CONSTANTS
  Threads = {t1}
  Senders = {s1}
  Receivers = {r1, r2}
  Signals = {g1, g2}
  Conns = {c1, c2, c3}
  MaxDepth = 2
  MaxGen = 1
  NULL = NULL
SPECIFICATION Spec
SYMMETRY Symmetry
CHECK_DEADLOCK FALSE
INVARIANTS
  TypeOK
  SenderNotTouched
  ReceiverExists
  CurrentRestored
  BeingDestroyedDrained
  BusyCount
PROPERTIES
  KeepsPromise
