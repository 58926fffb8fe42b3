SPECIFICATION ScreenSpec
CONSTANTS
  Files <- MCFiles
  Named <- MCFiles
  OtaNamed = {}
  Jobs <- MCJobs
  Marks = {FALSE}
  MaxErrors = 1
  MaxCuts = 1
  Configs <- MCConfigs
  StartAt <- MCStartAt
  TickMs = 10
  SyncMs = 20
  Wrap = 25
  SlowTicks = 3
  None = None
  PercentSign = PercentSign
INVARIANTS
  SuccessIsReal
  NoRebootMidUpdate
PROPERTIES
  BarNeverBack
  BarWithinScript
  FailureReboots
  SuccessIsShown
CHECK_DEADLOCK FALSE
