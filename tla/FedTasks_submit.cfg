\* Groups of up to three generated and two custom ids.
SPECIFICATION FairSpec
CONSTANTS
  early = early  late = late
  MaxGroup = 3
  MaxOther = 1
  Custom = {early, late}
  Early = {early}
  Width = 2
  MaxFaults = 2
  MaxCrashes = 1
\* The system rests when the action is done.
CHECK_DEADLOCK FALSE
INVARIANTS NothingLost NoCollision ReportTrue
PROPERTY Handled
