SPECIFICATION Spec
CONSTANTS
  Files <- SampleFiles
  Full = 256
  UseArc = TRUE
  Width <- MCWidth
  None = None
  PercentSign = PercentSign
INVARIANT
  NumberIsDrawn
CHECK_DEADLOCK FALSE
