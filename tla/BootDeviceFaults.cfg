SPECIFICATION FairSpec
CONSTANTS
  Builds <- AllBuilds
  Serial = TRUE
  Failing = {"loader", "init", "ota"}
  MaxErrors = 1
  MaxCuts = 2
INVARIANTS
  TypeOK
  DurableIsConsistent
  SuccessfulIsWorking
  RecoversInTwoBoots
  BootableIsWhole
  DoneSelects
PROPERTIES
  BackUnlessSlipped
