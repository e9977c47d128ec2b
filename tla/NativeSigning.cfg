SPECIFICATION Spec
CONSTANTS
  Apexes <- MCApexes
  Contents <- MCContents
  KeySets <- MCKeySets
  ZoneRow <- MCZoneRow
  Names <- MCNames
  NumCycles = 2
  Listeners = {"udp", "tcp"}
  MaxEdits = 1
  MaxReloads = 1
  MaxStarts = 2
INVARIANT
  TypeOK
  AnswersVerify
  ChainDenies
  ServedIsSigned
PROPERTY
  Converges
\* A nameserver that is stopped, or was never started, stays so.
CHECK_DEADLOCK FALSE
