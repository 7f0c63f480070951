CONSTANTS
  Duration = 2
  MaxLate = 1
  MaxReady = 1
SPECIFICATION Spec
PROPERTIES
  StopsWhenFalse
CHECK_DEADLOCK FALSE
