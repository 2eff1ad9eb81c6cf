SPECIFICATION Spec
CONSTANTS
  Copies <- TwoCopies
  ForkMayFail = TRUE
  CallsMayFail = FALSE
INVARIANTS
  LostTerminal
CHECK_DEADLOCK FALSE
