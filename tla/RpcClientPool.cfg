SPECIFICATION FairSpec
CONSTANTS
  N = 2
  Threads = {t1, t2}
  MaxFailures = 1
  Kinds = {"sync", "async", "warmup"}
  Period = 2
  MaxSlots = 1
INVARIANTS
  SelectsACandidate
  FailsOnlyAfterTrying
PROPERTIES
  PoolRecovers
