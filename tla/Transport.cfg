SPECIFICATION Spec
CONSTANTS
  Intervals = {0, 1}
  Cooldown = 3
  CleanRestart = TRUE
  MaxStarts = 4
  MaxChanges = 5
  MaxFailures = 3
INVARIANT
  TypeOK
  ChangeNotForgotten
  NoNeedlessCycle
  SingleChain
PROPERTY
  CooldownSpacing
  KeepsCycling
  RefinesWorker
\* An idle transport in event mode waits for a change that may never come.
CHECK_DEADLOCK FALSE
