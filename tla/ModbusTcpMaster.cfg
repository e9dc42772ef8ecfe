\* Two descriptors, so that a leak shows and a closed one is used again;
\* transaction ids that wrap within the requests made.
CONSTANTS
  Fds = {f1, f2}
  NoFd = NoFd
  Unset = Unset
  TidMod = 3
  MaxReq = 6
SPECIFICATION Spec
INVARIANTS
  OneOwner
PROPERTIES
  AnswersLatest
