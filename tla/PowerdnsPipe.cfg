SPECIFICATION Spec
CONSTANTS
  Requests = {"A", "NS"}
  CacheTtl = 1
  MaxTime = 2
  MaxEdits = 1
  MaxOutages = 2
INVARIANT
  TypeOK
  ErrorHasCause
  FreshRecords
PROPERTY
  EveryRequestEnds
\* run() returns when the handshake fails.
CHECK_DEADLOCK FALSE
