\* Add, delete, recreate, resize and repair a pool, with one fault.
SPECIFICATION Spec
CONSTANTS
  Nodes = {n1, n2}
  PoolConfigs <- MCConfigs
  Commands <- MCCommands
  MaxCommands = 2
  MaxFaults = 1
  MaxReboots = 0
  DeleteFaults = FALSE
INVARIANTS PrepEnds NodesReady StoreFits
PROPERTY CommandsEnd
CHECK_DEADLOCK FALSE
