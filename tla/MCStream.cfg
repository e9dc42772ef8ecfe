CONSTANTS
  TxSize = 3
  Chunk = 2
  SockSize = 2
  MaxWrite = 4
  MaxBytes = 9
  PeerResets = TRUE
  SendRoom = 2
  MaxArrivals = 2
  Backlog = 2
  MaxConnections = 4
SPECIFICATION SpecSockets
INVARIANTS
  WireOrder
  NoCallbackAfterFree
PROPERTIES
  WatchedDrains
CHECK_DEADLOCK FALSE
