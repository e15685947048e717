CONSTANTS
  Threads = {t1}
  Senders = {s1}
  Receivers = {r1}
  Signals = {g1}
  Conns = {c1}
  MaxDepth = 2
  MaxGen = 1
  NULL = NULL
SPECIFICATION ReuseSpec
SYMMETRY Symmetry
CHECK_DEADLOCK FALSE
INVARIANTS
  SenderNotTouched
