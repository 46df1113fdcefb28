CONSTANTS
  Addr = {a1, a2}
  CONNECT_BUDGET = 9
  RESOLVE_TIMEOUT = 3
  MIN_ATTEMPT = 2
  MaxAnswer = 2
  MaxH3Wait = 4
SPECIFICATION Spec
CHECK_DEADLOCK FALSE
INVARIANTS
  ConnectWithinBudget
