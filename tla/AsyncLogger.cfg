SPECIFICATION FairSpec
CONSTANTS
  t1 = t1
  t2 = t2
  None = None
  Threads <- TwoThreads
  MaxLogs <- TwoAndOne
  Capacity = 2
  WordSize = 8
  Off = 1
  MaxRequests = 1
  Default <- DefaultOptions
  Options <- OneOption
INVARIANTS
  CountersExact
  DropsReported
  WrittenOnceInOrder
  ShutdownDrains
  LatestPathOpened
PROPERTIES
  EntriesReachDisk
  ShutdownReturns
