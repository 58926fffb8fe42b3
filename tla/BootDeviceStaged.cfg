SPECIFICATION FairSpec
CONSTANTS
  Builds <- StagedBuild
  Serial = TRUE
  Failing = {}
  MaxErrors = 0
  MaxCuts = 2
PROPERTIES
  Refines
