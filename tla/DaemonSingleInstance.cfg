SPECIFICATION Spec
CONSTANTS
  Copies <- TwoCopies
  ForkMayFail = FALSE
  CallsMayFail = FALSE
INVARIANTS
  SingleInstance
CHECK_DEADLOCK FALSE
