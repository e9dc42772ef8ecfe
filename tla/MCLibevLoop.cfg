SPECIFICATION Spec
CONSTANTS
  D = 4
  s1 = s1
  s2 = s2
  self = self
  Senders <- MCSenders
  Self = self
  t1 = t1
  t2 = t2
  t3 = t3
  t4 = t4
  t5 = t5
  t6 = t6
  t7 = t7
  t8 = t8
  t9 = t9
  t10 = t10
  t11 = t11
  Timers <- MCTimers
  Delays <- MCDelays
  Scenarios <- MCScenarios
INVARIANTS
  WakeupOutstanding
  NeverOversleeps
PROPERTIES
  SentIsDelivered
  TimersInOrder
CHECK_DEADLOCK FALSE
