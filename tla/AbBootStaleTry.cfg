SPECIFICATION Spec
CONSTANTS
  MaxCuts = 0
  OtaWaits = TRUE
PROPERTY
  DoneIsTried
