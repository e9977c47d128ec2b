SPECIFICATION Spec
CONSTANTS
  known = known
  unknown = unknown
  Conns <- MCConns
  Known <- MCKnown
  Scripts <- MCScripts
  MaxRequests = 3
  MaxDatagrams = 1
  MaxEdits = 1
  MaxFailures = 1
  MaxStarts = 2
INVARIANT
  TypeOK
  EachAnswered
  TransferIsWhole
  StopReleases
PROPERTY
  StopEnds
\* A server that is stopped for good, or has crashed.
CHECK_DEADLOCK FALSE
