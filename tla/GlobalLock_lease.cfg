\* Two proxies, blocking work as long as a lease leaves after a timer period;
\* times in units of 2.5 s.
SPECIFICATION FairLockSpec
CONSTANTS
  Proxy = {p1, p2, p3}
  LeaseTime = 6
  Period = 2
  MaxBlock = 4
  MaxFaults = 2
  AwaitFaults = FALSE
INVARIANT OneWorker
PROPERTY Takeover
