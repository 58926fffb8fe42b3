SPECIFICATION Spec
CONSTANTS
  Packages <- MCPackages
  ChunkSize = 32
  BufSize = 20
  MaxErrors = 1
INVARIANT
  ZeroMeansVerified
CHECK_DEADLOCK FALSE
