CONSTANTS
  Duration = 4
  MaxLate = 5
  MaxReady = 2
SPECIFICATION Spec
PROPERTIES
  FrameSpacing
  KeepsTicking
  StopsFromSleep
\* an ended process does nothing
CHECK_DEADLOCK FALSE
