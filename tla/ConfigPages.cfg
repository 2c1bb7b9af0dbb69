\* The user need not do anything more, and gestures are bounded: the system may stop.
CONSTANTS
  NoValue = NoValue
  Pages <- MCPages
  MaxTouched = 1
  MaxGestures = 3
  MaxCommits = 1
  MaxChanges = 1
SPECIFICATION Spec
INVARIANTS
  TypeOK
  OnlyTouchedIsQueued
  ToggleIsTrue
PROPERTIES
  SavedIsShown
CHECK_DEADLOCK FALSE
