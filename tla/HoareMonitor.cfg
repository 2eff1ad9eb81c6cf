SPECIFICATION FairSpec
CONSTANTS
  NReaders = 2
  NWriters = 2
  Iters = 1
  ShortModulus = 8
  CreateMayFail = TRUE
INVARIANTS
  ReadersNeverSleep
  SleepingWriterHasAWaker
PROPERTIES
  Finish
