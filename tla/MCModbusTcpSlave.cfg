CONSTANTS
  good = good
  odd = odd
  Conns <- TwoConns
  Shapes <- SmallShapes
  SizeMax = 5
  MyAddress = 1
  Room = 0
  MaxReq <- SmallMaxReq
SPECIFICATION SlaveSpec
INVARIANTS
  NothingLost
  AnswersInOrder
PROPERTIES
  EventuallySeen
