SPECIFICATION Spec
CONSTANTS
  StepsPerTb = 4
  DepIds = 2
  Forever = 99
  Requests <- MCRequests
  FifoSlots = 1
  Durations = {1, 2}
CHECK_DEADLOCK FALSE
INVARIANTS ExecutesCorrectly ReadsPlannedState AdmissionSound
PROPERTIES AdmittedFinishes
