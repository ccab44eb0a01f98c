SPECIFICATION Spec
CONSTANTS
  Peers <- mcPeers
  NoPeer = "none"
  Kismet <- mcKismet
  OwnKismet = 2
  Sought = {"b"}
  KeepCount = 2
  GraceRequests = 1
  ValueSeconds = 1
  Keys = {"k", "l"}
  MaxValue = 3
  MaxStore = 3
  Length <- mcLength
  Connections <- mcConnections
  Allowed <- mcAllowed
  Content <- mcContent
  Files <- mcFiles
  Searched = {"k"}
  AttemptLimit = 2
  MaxTracked = 1
  WaitSeconds = 1
  AskAgain = 1
  ReadAhead = 1
  Versions = {1, 2}
  Starts <- mcStarts
INVARIANTS AnswersInStep
PROPERTIES ClientsKept NoneOverwritten
