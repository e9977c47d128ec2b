SPECIFICATION Spec
CONSTANTS
  NumJobs = 4
  Concurrency = 2
  Attempts = 2
  Unsendable = {2, 4}
  Strays = TRUE
  TsigKey <- MCTsigKey
  Signed = TRUE
  Keys <- MCKeys
  Fudge = 300
  Clock <- MCClock
  MacLengths <- MCMacLengths
INVARIANT
  TypeOK
  NotifiedIsTaken
  EachJobOnce
PROPERTY
  DeliverSettles
\* deliver() ends.
CHECK_DEADLOCK FALSE
