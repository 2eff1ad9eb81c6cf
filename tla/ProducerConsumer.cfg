SPECIFICATION FairSpec
CONSTANTS
  NConsumers = 2
  NProducers = 3
  Count <- CountFive
  N = 5
  MaxKills = 1
  ForkMayFail = TRUE
INVARIANTS
  MutualExclusion
  SemAccounting
  AccessInBounds
PROPERTIES
  ImplementsFifo
  NoEntryAfterDeathInside
  Termination
CHECK_DEADLOCK FALSE
