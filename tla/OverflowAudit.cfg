SPECIFICATION FairSpec
CONSTANTS
  t1 = t1
  t2 = t2
  t3 = t3
  Tasks <- MCTasks
  MaxCalls = 4
INVARIANTS
  RejectionsAccounted
PROPERTIES
  ImplementsLedger
  EveryOverflowReported
CHECK_DEADLOCK FALSE
