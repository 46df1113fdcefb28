CONSTANTS
  Client = {c1}
  Proc = {p1}
SPECIFICATION Spec
CHECK_DEADLOCK FALSE
INVARIANTS
  GaugeCountsOnlyOpen
