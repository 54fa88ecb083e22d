SPECIFICATION FairSpec
CONSTANTS
  Worker = {w1, w2, w3}
  Task = {0, 1, 2, 3}
  Zero = Zero
  QueueCapacity = 3
  MaxWaitObjects = 3
  MAX_PARALLELISM = 4
  MayStop = TRUE
  Calls <- MCCalls
INVARIANTS
  EachIndexOnce
  CounterIsOutstanding
  NoDanglingJob
  AssertionsHold
PROPERTIES
  CallReturns
