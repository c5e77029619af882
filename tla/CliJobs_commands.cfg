SPECIFICATION Spec
CONSTANTS
  Client = {c1, c2}
  None = None
  NewTasks = 1
  MaxTask = 2
  MaxCommands = 2
  MaxRuns = 2
  MaxFaults = 1
CHECK_DEADLOCK FALSE
INVARIANTS AddsAll NoEarlyEnd MapKept MigrationResumes
PROPERTIES RunsEnd RunsWhole
