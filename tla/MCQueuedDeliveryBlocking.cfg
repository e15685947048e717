CONSTANTS
  Emitters = {e1}
  Types = {"value", "reference"}
  References = {"reference"}
  Signals <- MCSignals
  Overrides = {"demo"}
  MaxConns = 1
  MaxEmits = 1
  NULL = NULL
SPECIFICATION Spec
CHECK_DEADLOCK FALSE
INVARIANTS
  BlockingArgumentsKept
