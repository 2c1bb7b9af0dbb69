\* The user need not do anything more, and gestures are bounded: the system may stop.
CONSTANTS
  NoValue = NoValue
  Start <- MCGaps
  Actions = {"accept", "drop"}
  Names = {"x"}
  Typed = {5}
  MaxGestures = 2
  MaxCommits = 1
  Habits = {"queues_more"}
SPECIFICATION Spec
PROPERTIES
  MovesKeepRules
CHECK_DEADLOCK FALSE
