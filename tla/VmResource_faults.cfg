SPECIFICATION Spec
CONSTANTS
  MaxVm = 3
  MaxFaults = 2
CHECK_DEADLOCK FALSE
INVARIANTS PrefixCleans ReportsTrue
PROPERTY CommandsEnd
