\* Two proxies in HA mode, three actions of one job, failing put_message.
SPECIFICATION Spec
CONSTANTS
  j1 = j1  j2 = j2  u1 = u1  u2 = u2  u3 = u3  p1 = p1  p2 = p2
  Job = {j1}
  Uid = {u1, u2, u3}
  Proxy = {p1, p2}
  NoUid = NoUid
  NoProxy = NoProxy
  JobOf <- OneJob
  MethodOf <- AddDeleteAdd
  UniqueIds = FALSE
  MaxSequence = 2
  BatchMax = 2
  Zappable = {u1}
  MaxFaults = 1
  Overrun = FALSE
  BlobFaults = FALSE
  PutFaults = TRUE
\* The system rests when every action is handled: proxies then only poll.
CHECK_DEADLOCK FALSE
INVARIANTS NoActionLost FifoPerJob
PROPERTY ImplementsPromise
