SPECIFICATION DaemonsSpec
CONSTANTS
  Copies <- TwoCopies
  ForkMayFail = TRUE
  CallsMayFail = TRUE
  MayFail = TRUE
INVARIANTS
  RunningIsDetached
  PidFileNamesRunning
  NoTerminalEver
CHECK_DEADLOCK FALSE
