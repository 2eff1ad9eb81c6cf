SPECIFICATION MachineSpec
CONSTANTS
  Copies = {"copy"}
  ForkMayFail = TRUE
  CallsMayFail = TRUE
  MayFail = TRUE
  MsgLen = 3
INVARIANTS
  AsItWas
  DigitsMissTheClock
PROPERTIES
  AstrayOnlyOnTheWayThere
  EnterReturns
