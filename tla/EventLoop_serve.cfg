\* Two federations, actions that await, lost locks and changing tables.
SPECIFICATION FairSpec
CONSTANTS
  Fed = {f1, f2}
  Pool = {a}
  MaxMessages = 2
  MaxChanges = 4
  Suspends = TRUE
\* The event loop may come to a standstill when a refresh starts while
\* an action awaits.
CHECK_DEADLOCK FALSE
INVARIANT LocksFreeForUpdate
PROPERTY AllServed
