\* A federation with unique job ids: add, delete and add of one job; failing
\* reads of message blobs.
SPECIFICATION FairSpec
CONSTANTS
  j1 = j1  j2 = j2  u1 = u1  u2 = u2  u3 = u3  p1 = p1  p2 = p2
  Job = {j1}
  Uid = {u1, u2, u3}
  Proxy = {p1}
  NoUid = NoUid
  NoProxy = NoProxy
  JobOf <- OneJob
  MethodOf <- AddDeleteAdd
  UniqueIds = TRUE
  MaxSequence = 3
  BatchMax = 2
  Zappable = {u1}
  MaxFaults = 1
  Overrun = FALSE
  BlobFaults = TRUE
  PutFaults = FALSE
\* The system rests when every action is handled: proxies then only poll.
CHECK_DEADLOCK FALSE
INVARIANTS UniqueJobIds
PROPERTY EveryActionRetired
