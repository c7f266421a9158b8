SPECIFICATION FairSpec
CONSTANTS
  s1 = s1
  s2 = s2
  t1 = t1
  t2 = t2
  t3 = t3
  None = None
  ThreadCount = 1
  Submitters <- TwoSubmitters
  Tasks <- ThreeTasks
  Capacity = 2
  BatchSize = 1
INVARIANTS
  TaskInOnePlace
  CountersExact
  NoLostWakeup
PROPERTIES
  StopTerminates
CHECK_DEADLOCK FALSE
