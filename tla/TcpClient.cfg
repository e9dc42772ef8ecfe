\* Three descriptors: one in an attempt, one or two with the user, none left.
CONSTANTS
  Fds = {f1, f2, f3}
  NoFd = NoFd
  Unset = Unset
SPECIFICATION SpecUsers
INVARIANTS
  SocketsAccounted
  Agreement
PROPERTIES
  StopIsFinal
  NeverStuck
