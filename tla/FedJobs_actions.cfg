\* Every sequence of three actions.
SPECIFICATION FairJobsSpec
CONSTANTS
  p1 = p1  p2 = p2  p3 = p3  a1 = a1  a2 = a2
  Pool = {p1, p2, p3}
  Account = {a1, a2}
  NoPool = NoPool
  AccountOf <- Shared
  MaxActions = 3
  MaxInterrupts = 1
  MaxBatchFaults = 1
\* The system rests when every action is handled.
CHECK_DEADLOCK FALSE
INVARIANTS TasksTracked DeleteComplete OneSchedule
PROPERTY SearchEnds
