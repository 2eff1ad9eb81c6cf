SPECIFICATION TreeSpec
CONSTANTS
  Copies = {"copy"}
  ForkMayFail = TRUE
  CallsMayFail = TRUE
  MayFail = TRUE
  MsgLen = 3
INVARIANTS
  ParentCollects
PROPERTIES
  EveryoneEnds
