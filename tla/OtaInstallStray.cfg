SPECIFICATION Spec
CONSTANTS
  Files <- StrayFiles
  Named <- StrayNamed
  OtaNamed = {}
  Jobs <- StrayJobs
  Marks = {FALSE}
  MaxErrors = 0
  MaxCuts = 0
INVARIANT
  OnlyNamedInstalled
CHECK_DEADLOCK FALSE
