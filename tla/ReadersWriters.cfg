SPECIFICATION FairSpec
CONSTANTS
  NWriters = 2
  NReaders = 2
  IntModulus = 2
  MaxDeaths = 4
  ForkMayFail = TRUE
INVARIANTS
  Exclusion
  SemAccounting
PROPERTIES
  ImplementsLock
  NoEntryAfterDeathInside
  ReaderProgress
  WriterProgress
CHECK_DEADLOCK FALSE
