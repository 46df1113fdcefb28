SPECIFICATION Spec
CONSTANTS
  MaxCerts = 3
  Shown = {1, 2}
INVARIANTS
  VerdictSound
  BundledPinHolds
CHECK_DEADLOCK FALSE
