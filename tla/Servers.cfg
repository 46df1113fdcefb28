CONSTANTS
  Chunk = {c1, c2}
  Answer = {a1}
  Capacity = 1
  MaxUp = 3
  MaxDown = 3
  Requests = 2
  MaxEchoed = 2
SPECIFICATION FairSpec
CHECK_DEADLOCK FALSE
INVARIANTS
  TypeOK
  CompleteMeansWhole
  TrailersMeanWhole
  EchoedWhole
PROPERTIES
  UploadFifo
  ResponseFlows
  PumpEnds
  HeadersFirst
