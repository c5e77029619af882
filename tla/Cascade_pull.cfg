\* Two nodes that want the image of one slot: one of the downloads waits for the other.
SPECIFICATION CascadeSpec
CONSTANTS
  Node = {n1, n2}
  Resource = {r1}
  N = 1
  None = None
  MaxPullFaults = 2
CHECK_DEADLOCK FALSE
INVARIANT LeaseReturned
PROPERTIES ImplementsDownloads AllLoaded
