CONSTANTS
  Size = 3
  Byte <- TwoBytes
  MaxLen = 4
  Writers = {w1, w2}
  Buffers = {b1, b2}
  Logger = Logger
  NoBuf = NoBuf
  NoThread = NoThread
  Heads = {h1, h2}
  Items = {a, b, c}
  NULL = NULL
  r1 = r1
  r2 = r2
  r3 = r3
  e1 = e1
  e2 = e2
  e3 = e3
  e4 = e4
  c1 = c1
  c2 = c2
  c3 = c3
  c4 = c4
  RequestItems = {r1, r2, r3}
  priority <- TwoPriorities
  request_priority_max = 2
  MaxCalls = 3
SPECIFICATION SpecUtils
INVARIANTS
  EachBufferOnce
  WellLinked
  RequestsCounted
  ConfigFindsWhatIsThere
PROPERTIES
  RingIsByteQueue
  BuffersComeBack
  ImplementsSequences
  HashIsMap
CHECK_DEADLOCK FALSE
