SPECIFICATION Spec
CONSTANTS
  p1 = p1
  p2 = p2
  p3 = p3
  v1 = v1
  v2 = v2
  v3 = v3
  v4 = v4
  v5 = v5
  None = None
  Capacity = 2
  Producers <- ThreeProducers
  Values <- FiveValues
SYMMETRY Symmetry
INVARIANTS ObjectLifetimes NothingLeaks
PROPERTY ImplementsQueue
CHECK_DEADLOCK FALSE
