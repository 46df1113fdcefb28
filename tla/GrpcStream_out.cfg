CONSTANTS
  Recv = {}
  Send = {s1, s2}
  Finish = {f1}
  Request <- Long
  Response <- Empty
  MaxMessages = 0
  LenModulus = 4
SPECIFICATION FairSpec
CHECK_DEADLOCK FALSE
INVARIANTS
  FinishSealsMessages
PROPERTIES
  OutboundFifo
  BrokenSendsReturn
