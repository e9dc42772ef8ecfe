CONSTANTS
  x1 = x1
  x2 = x2
  socket = socket
  inherited = inherited
  plain = plain
  Watchers <- TwoWatchers
  MaxFd = 4
  EventMax = 3
  Files <- ThreeFiles
  Plain <- OnlyPlain
  Shared <- OnlyInherited
  MaxCalls <- Calls
SPECIFICATION SystemSpec
SYMMETRY Symmetry
INVARIANTS
  NoStaleEvent
  EveryWatchIsArmed
PROPERTIES
  OnlyWatchedDelivered
  ImplementsWatcherSpec
