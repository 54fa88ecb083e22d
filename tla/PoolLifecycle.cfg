SPECIFICATION FairSpec
CONSTANTS
  Worker = {w1, w2}
  Caller = {c1, c2}
  Task = {t1, t2, t3}
  Zero = Zero
  QueueCapacity = 2
  MaxWaitObjects = 2
INVARIANTS
  EachTaskInOnePlace
  WakeupsCoverQueue
  NoUseAfterFree
PROPERTIES
  TasksInOrder
  AcceptedIsDone
  StopReturns
