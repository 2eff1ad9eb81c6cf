SPECIFICATION FairSpec
CONSTANTS
  NWriters = 2
  NReaders = 2
  Iter = 2
  UIntModulus = 8
  MaxFailures = 2
INVARIANTS
  CountersMatchEvents
PROPERTIES
  ImplementsLock
  Termination
