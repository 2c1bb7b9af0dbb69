\* The user need not do anything more, and gestures are bounded: the system may stop.
CONSTANTS
  NoValue = NoValue
  Pages <- MCKindPages
  MaxTouched = 1
  MaxGestures = 3
  MaxCommits = 1
  MaxChanges = 1
SPECIFICATION Spec
INVARIANTS
  ToggleIsTrue
CHECK_DEADLOCK FALSE
