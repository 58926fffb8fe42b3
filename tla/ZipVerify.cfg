SPECIFICATION Spec
CONSTANTS
  Packages <- MCPackages
  ChunkSize = 32
  BufSize = 20
  MaxErrors = 2
INVARIANTS
  TypeOK
  AcceptedIsGenuine
  UnreadIsNotAccepted
  GenuineIsAccepted
  NothingIsLeft
CHECK_DEADLOCK FALSE
