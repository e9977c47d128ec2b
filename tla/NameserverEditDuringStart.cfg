SPECIFICATION NameserverSpec
CONSTANTS
  Intervals = {0}
  Cooldown = 1
  CleanRestart = TRUE
  MaxStarts = 1
  MaxChanges = 1
  MaxFailures = 0
  MaxReloads = 0
PROPERTY
  EditServed
\* A nameserver with nothing left to publish waits for its owner.
CHECK_DEADLOCK FALSE
