SPECIFICATION Spec
CONSTANTS
  Requests = {"NS"}
  CacheTtl = 1
  MaxTime = 4
  MaxEdits = 1
  MaxOutages = 0
INVARIANT
  FreshAnswers
\* run() returns when the handshake fails.
CHECK_DEADLOCK FALSE
