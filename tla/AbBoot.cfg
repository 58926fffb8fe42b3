SPECIFICATION FairSpec
CONSTANTS
  MaxCuts = 3
  OtaWaits = TRUE
INVARIANTS
  TypeOK
  OnlyOneActive
  SuccessfulIsProven
  NeverRunsTorn
  RecoversInTwoBoots
  IInv
PROPERTIES
  NeverFlashesRunning
  DoneIsTriedWhenClear
  BackInService
