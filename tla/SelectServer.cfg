SPECIFICATION FairSpec
CONSTANTS
  Clients <- ThreeClients
  FD_SETSIZE = 6
  OpenMax = 6
  MaxLines = 1
  PidLen = 1
  LineLen = 6
  SIZE_BUFFER = 5
PROPERTIES
  OnlyFirstServed
  CleanLeaveIsHarmless
  FirstIsAnswered
CHECK_DEADLOCK FALSE
