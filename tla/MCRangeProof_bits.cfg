SPECIFICATION Spec
CONSTANTS
  Bits = 4
CHECK_DEADLOCK FALSE
INVARIANTS
  AcceptsOnlyBelow
  HonestAccepted
  CarriesDetermined
