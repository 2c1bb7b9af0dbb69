\* Time is bounded and nobody need send a request: the system may stop.
CONSTANTS
  Sources = {a, b}
  Logins = {r1, r2, r3}
  Slots = 2
  MaxAttempts = 2
  BaseDelay = 1
  MaxDelay = 3
  Window = 3
  MaxTrackedSources = 1
  Width = 3
  Horizon = 4
SYMMETRY MCSymmetry
SPECIFICATION Spec
INVARIANTS
  TypeOK
  CountIsExact
  NeverOvercharged
PROPERTIES
  BackoffHolds
  BlocksStand
  BlocksDouble
  GrowsOnlyWithActiveSources
CHECK_DEADLOCK FALSE
