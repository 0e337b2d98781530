SPECIFICATION Spec
CONSTANTS
  Second = 2
  Configs <- Subcycling
INVARIANT SameTransport
CHECK_DEADLOCK FALSE
