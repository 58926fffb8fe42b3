SPECIFICATION FairSpec
CONSTANTS
  Builds <- DirectBuild
  Serial = TRUE
  Failing = {}
  MaxErrors = 0
  MaxCuts = 1
PROPERTIES
  BackInService
