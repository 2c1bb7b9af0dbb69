\* Time is bounded and nobody need send a request: the system may stop.
CONSTANTS
  Keys = {a, b, c}
  Max = 2
  Window = 2
  MaxTrackedKeys = 2
  Horizon = 4
SYMMETRY MCSymmetry
SPECIFICATION Spec
INVARIANTS
  RollingLimit
  CountsAreExact
PROPERTIES
  GrowsOnlyWithActiveKeys
CHECK_DEADLOCK FALSE
