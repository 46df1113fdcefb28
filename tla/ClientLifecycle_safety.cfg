CONSTANTS
  Client = {c1, c2}
  Proc = {p1, p2, p3}
SPECIFICATION Spec
SYMMETRY Symmetry
CHECK_DEADLOCK FALSE
INVARIANTS
  TypeOK
  GaugeCoversOpen
  RetiredIsTornDown
  NoEndpointLeftBehind
PROPERTIES
  GaugeSpec
