CONSTANTS
  MaxBacklog = 2
  MaxRequests = 6
  TsPids = {5, 6, 7}
  Pmts <- MCPmts
  VideoShapes <- MCVideo
  AudioShapes <- MCAudio
  PtsSteps <- MCSteps
  CounterRange = 4
  PtsRange = 8
  MaxTsSent = 6
  MaxTables = 4
  MaxTsFaults = 1
  MaxPrograms = 2
  Carriers = {1, 2}
  BodySize = 2
  MaxProtocols = 4
  MaxSends = 2
INIT SessionInit
NEXT SessionNext
CHECK_DEADLOCK FALSE
INVARIANTS   IngestHolds 
