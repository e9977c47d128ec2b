SPECIFICATION Spec
CONSTANTS
  NumZones = 2
  Kinds = {"powerdns", "redis"}
  NumCycles = 2
  PoolSize = 1
  MaxEdits = 1
  MaxFailures = 1
INVARIANT
  TypeOK
  WholeZone
  SerialCovered
  InStep
PROPERTY
  Converges
\* A client that is stuck stops the publishing for good.
CHECK_DEADLOCK FALSE
