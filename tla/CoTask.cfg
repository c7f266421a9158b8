SPECIFICATION Spec
CONSTANT Depth = 4
INVARIANTS
  AwaitResumeNeverBlocks
  FramesOutliveTheirUse
CHECK_DEADLOCK FALSE
