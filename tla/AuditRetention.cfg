\* Rows are swept after a day; a person may have been erased before.
SPECIFICATION Spec
CONSTANTS
  MaxRow = 3
  MaxTime = 4
  DayLength = 2
  Grace = 1
  MaxDelay = 1
  Batch = 2
  RetentionDays = 1
  MaxAltered = 1
  Scenes <- RetentionScenes
INVARIANT SweepNeverAlarms
CHECK_DEADLOCK FALSE
