SPECIFICATION Spec
CONSTANTS
  None = None
  Requests <- MCRequests
  Workers = 2
  Second = 2
  ModelTimeout = 2
  Calls = 2
  CoarseBatch = 2
INVARIANTS ScheduleCorrect PlansAndRoutesAccepted NothingOverlooked StrictIsProven
PROPERTIES LazyHeapExact SearchEnds
