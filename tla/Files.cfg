SPECIFICATION FilesSpec
CONSTANTS
  Procs = {p1, p2}
  Size = 7
  Messages <- SomeMessages
  ReadLens = {2, 8}
  SeqRoom = 2
  MaxCalls = 4
  FileLen = 7
  Letters = 6
  BufSize = 3
  CreateMayFail = TRUE
  Files <- FourFiles
  Root = "root"
  Trees <- SomeTrees
  Paths <- SomePaths
  MaxOpen = 2
  MaxMoves = 2
  Copies <- TwoCopies
  Clients = {1, 2}
  MaxSends = 2
  QueueLen = 1
INVARIANTS
  PotHoldsLog
  EveryLetterAccounted
  WalkIsRight
  OneServer
PROPERTIES
  ImplementsCookieLog
  FaultsAtTheEdge
  LastCloseWins
SYMMETRY AnyProc
