CONSTANTS
  Threads = {t1, t2}
  Senders = {s1}
  Receivers = {r1}
  Signals = {g1}
  Conns = {c1, c2}
  MaxDepth = 1
  MaxGen = 1
  NULL = NULL
SPECIFICATION SharedSpec
SYMMETRY Symmetry
CHECK_DEADLOCK FALSE
INVARIANTS
  SenderNotTouched
