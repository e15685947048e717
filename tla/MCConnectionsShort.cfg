CONSTANTS
  Threads = {t1}
  Senders = {s1}
  Receivers = {r1}
  Signals = {g1}
  Slots = {m1}
  Methods = {m1}
  Lambdas = {}
  Conns = {c1}
  Uniq = {FALSE}
  NULL = NULL
SPECIFICATION ShortSpec
SYMMETRY Symmetry
CHECK_DEADLOCK FALSE
INVARIANTS
  NoDangling
