SPECIFICATION ModuleSpec
CONSTANTS
  Copies = {"copy"}
  ForkMayFail = TRUE
  CallsMayFail = TRUE
  MayFail = TRUE
  MsgLen = 3
INVARIANTS
  LeavesNothingBehind
PROPERTIES
  AccidentsExplained
  LoadingEnds
