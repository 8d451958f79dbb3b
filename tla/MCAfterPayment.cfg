\* Two workers, one retry of each task, one process that dies.
CONSTANTS
  Workers = {w1, w2}
  Setups <- MCSetups
  MaxRetries = 1
  MaxDeaths = 1
SPECIFICATION FairSpec
CHECK_DEADLOCK FALSE
INVARIANTS
  TypeOK
  RecordedMeansDone
  NotAhead
PROPERTIES
  RefundNotUndone
  Drains
