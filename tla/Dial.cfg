CONSTANTS
  Addr = {a1, a2, a3, a4}
  CONNECT_BUDGET = 9
  RESOLVE_TIMEOUT = 3
  MIN_ATTEMPT = 2
  MaxAnswer = 4
  MaxH3Wait = 1
SPECIFICATION FairSpec
CHECK_DEADLOCK FALSE
INVARIANTS
  TypeOK
  OneEndpointAtATime
  CandidatesKeepResolverOrder
  PlanFits
  HandshakesWithinBudget
PROPERTIES
  ReturnsOrWaitsForH3
