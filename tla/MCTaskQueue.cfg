CONSTANTS
  t1 = t1
  t2 = t2
  Tasks <- TwoTasks
  MaxSend = 2
  Sends <- ExchangeSends
  NoTask = NoTask
  NoMsg = NoMsg
SPECIFICATION Spec
INVARIANTS
  CountMatchesQueue
  NoLostWakeup
PROPERTIES
  ImplementsMailbox
CHECK_DEADLOCK FALSE
