SPECIFICATION Spec
CONSTANTS
  Files <- MCFiles
  Full = 16
  UseArc = TRUE
  Width <- MCWidth
  None = None
  PercentSign = PercentSign
INVARIANTS
  TypeOK
  AllPagesOrNone
  NothingLeaks
  NumberReads
  BarIsClosest
  CrashesOnUnfitListOnly
CHECK_DEADLOCK FALSE
