SPECIFICATION BackupFairSpec
CONSTANTS
  a = a
  b = b
  x = x
  y = y
  u = u
  Absent = Absent
  Unsaid = Unsaid
  Unknown = Unknown
  Paths <- MCPaths
  Entries <- MCEntries
  Contents <- MCContents
  Attributes <- MCAttributes
  Order <- MCOrder
  Source <- MCSource
  Starts <- MCStarts
  MaxLayers = 2
  MaxExtensions = 3
  Interval = 3
  Stall = 1
  Ask = 2
  GiveUp = 3
  Resume = 1
  Life = 4
INVARIANTS RecordsHold HandledInOrder
PROPERTIES WorkEnds
CHECK_DEADLOCK FALSE
