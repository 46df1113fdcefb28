CONSTANTS
  Call = {r1, r2}
  Home = home
  NoSocket = none
  Disciplined = FALSE
  MaxSent = 2
  MaxPolls = 1
SPECIFICATION Spec
CHECK_DEADLOCK FALSE
INVARIANTS
  ReturnedAddressAnswered
