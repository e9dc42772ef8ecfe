CONSTANTS
  NCoils = 10
  NRegs = 4
  Discretes <- SmallDiscretes
  Inputs <- SmallInputs
  ReadBitsMax = 11
  ReadInputMax = 3
  ReadHoldingMax = 3
  WriteCoilsMax = 9
  WriteRegsMax = 2
  RWReadMax = 3
  RWWriteMax = 2
  RspMax = 9
  Addrs <- SmallAddrs
  Counts <- SmallCounts
  CoilRuns <- SmallCoilRuns
  RegRuns <- SmallRegRuns
  ForeignPdus <- SmallForeign
  StaleBytes <- SmallStale
  InitMemory <- SmallMemory
  MaxRequests = 2
SPECIFICATION Spec
INVARIANTS
  ReadsAreTrue
  ConfirmedWriteIsDone
PROPERTIES
  WritesAreExact
  GoodRequestsConfirmed
