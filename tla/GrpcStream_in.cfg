CONSTANTS
  Recv = {r1, r2}
  Send = {s1}
  Finish = {}
  Request <- Empty
  Response <- Short
  MaxMessages = 2
  LenModulus = 4
SPECIFICATION FairSpec
CHECK_DEADLOCK FALSE
INVARIANTS
  TypeOK
  EndMeansAllTaken
PROPERTIES
  InboundFifo
  DataReachesReceiver
  BrokenReceivesReturn
