CONSTANTS
  Threads = {t1}
  Senders = {s1}
  Receivers = {r1, r2}
  Signals = {g1}
  Conns = {c1, c2, c3}
  MaxDepth = 1
  MaxGen = 1
  NULL = NULL
SPECIFICATION DisorderlySpec
SYMMETRY Symmetry
CHECK_DEADLOCK FALSE
INVARIANTS
  ReceiverExists
