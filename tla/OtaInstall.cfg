SPECIFICATION Spec
CONSTANTS
  Files <- MCFiles
  Named <- MCNamed
  OtaNamed <- MCOtaNamed
  Jobs <- MCJobs
  Marks = {TRUE, FALSE}
  MaxErrors = 1
  MaxCuts = 1
INVARIANTS
  TypeOK
  UnsoundIsUntouched
  FailsForAReason
  SuccessMeansInstalled
  StepIsAnnounced
PROPERTIES
  NodesAscend
CHECK_DEADLOCK FALSE
