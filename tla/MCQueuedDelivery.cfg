CONSTANTS
  Emitters = {e1, e2}
  Types = {"value", "reference"}
  References = {"reference"}
  Signals <- MCSignals
  Overrides = {"none", "demo", "waiting"}
  MaxConns = 2
  MaxEmits = 1
  NULL = NULL
SPECIFICATION FairSpec
CHECK_DEADLOCK FALSE
INVARIANTS
  TypeOK
  ArgumentsKept
  ConnectedIsCalled
  InOrder
  AllMadeWhenJoined
PROPERTIES
  EveryCallMade
  JoinReturns
