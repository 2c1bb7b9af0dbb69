\* The user need not do anything more, and gestures are bounded: the system may stop.
CONSTANTS
  NoValue = NoValue
  Start <- MCStart
  Actions = {"accept", "drop"}
  Names = {"x"}
  Typed = {5}
  MaxGestures = 2
  MaxCommits = 2
  Habits = {"leaves_form_open", "queues_more"}
SPECIFICATION Spec
PROPERTIES
  CommitDoesWhatWasAsked
  SeparateGesturesAdd
CHECK_DEADLOCK FALSE
