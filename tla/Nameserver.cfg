SPECIFICATION NameserverSpec
CONSTANTS
  Intervals = {0, 1}
  Cooldown = 1
  CleanRestart = TRUE
  MaxStarts = 2
  MaxChanges = 2
  MaxFailures = 1
  MaxReloads = 1
INVARIANT
  NameserverTypeOK
  ConnectionsFollowState
PROPERTY
  RunningEditServed
\* A nameserver with nothing left to publish waits for its owner.
CHECK_DEADLOCK FALSE
