SPECIFICATION Spec
CONSTANTS
  StepsPerTb = 4
  DepIds = 2
  Forever = 99
  Requests <- LegacyPipeline
  FifoSlots = 1
  Durations = {1, 2}
INVARIANTS ReadsPlannedState
CHECK_DEADLOCK FALSE
