CONSTANTS
  Client = {c1}
  Proc = {p1, p2, p3}
SPECIFICATION FairSpec
CHECK_DEADLOCK FALSE
PROPERTIES
  CallsReturnAfterClose
  ReleasedClientIsDropped
  RuntimeDrains
