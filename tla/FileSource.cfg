SPECIFICATION Spec
CONSTANTS
  MaxEdits = 2
  MaxConnects = 2
  MaxErrors = 1
INVARIANT
  TypeOK
  NoWriteMissed
  QuietAfterDisconnect
PROPERTY
  WritesAreRead
\* A store nobody edits any more, or a source that is disconnected, rests.
CHECK_DEADLOCK FALSE
