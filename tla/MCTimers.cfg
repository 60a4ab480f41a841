CONSTANTS
  t1 = t1
  t2 = t2
  t3 = t3
  Timers = {t1, t2, t3}
  MAX_TIMERS = 2
  Calls = {c1, c2}
  MaxChanges = 1
  Program = Program
  Queue = Queue
  Null = Null
CONSTRAINT Instances
INVARIANTS
  TypeOK
  ThreadUsesLiveTimers
  CallbacksEndFirst
  TimersEndWithQueue
PROPERTY DeleteQueueReturns
SPECIFICATION FairSpec
CHECK_DEADLOCK FALSE
