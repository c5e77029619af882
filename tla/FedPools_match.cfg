\* Two pools, jobs of four kinds, one failing call and one pool that goes away.
SPECIFICATION FairSpec
CONSTANTS
  p1 = p1  p2 = p2  small = small  large = large
  None = None
  Pool = {p1, p2}
  Size = {small, large}
  Counts <- MCCounts
  Start <- MCStart
  Slots <- MCSlots
  Feats <- MCFeats
  Talks = {p2}
  Scales = {p2}
  LowTarget = {p2}
  Constraints <- MCConstraints
  Blackout = TRUE
  MaxChanges = 1
  MaxFaults = 1
INVARIANT FreshCounts
PROPERTIES Placement MatchEnds
