CONSTANTS
  Call = {r1, r2}
  Home = home
  NoSocket = none
  Disciplined = TRUE
  MaxSent = 2
  MaxPolls = 2
SPECIFICATION FairSpec
CHECK_DEADLOCK FALSE
INVARIANTS
  TypeOK
  OkMeansAnswered
  OkMeansMoved
PROPERTIES
  RebindReturns
  AnswerInTimeCounts
