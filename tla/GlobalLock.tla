------------------------------ MODULE GlobalLock ------------------------------
(***************************************************************************)
(* The global lock of the federation proxies in time: the 15 second lease  *)
(* on the blob global.lock, renewed by a timer of each proxy's event loop  *)
(* 5 seconds after its last run (lease_global_lock).  The timer only runs  *)
(* when the loop is free: storage and Batch calls are synchronous, so a    *)
(* pass over the action queues and an update of the federations block it.  *)
(* FedActions leaves time out and has the constant Overrun instead; this   *)
(* module says which passes are short enough for Overrun = FALSE.          *)
(***************************************************************************)
EXTENDS Naturals, FiniteSets

CONSTANTS
  Proxy,
  LeaseTime,    \* lease_duration (15 s)
  Period,       \* delay of loop.call_later (5 s)
  MaxBlock,     \* longest time a loop goes without reaching its timers
  MaxFaults,    \* bound on crashes and on lease calls that fail
  AwaitFaults   \* a renewal may fail while an action of the proxy awaits

ASSUME LockAssumption ==
  /\ LeaseTime \in Nat \ {0} /\ Period \in Nat \ {0} /\ MaxBlock \in Nat \ {0}
  /\ MaxFaults \in Nat
  /\ AwaitFaults \in BOOLEAN

VARIABLES
  holder,    \* proxies whose id the lease has: the last one, or none at first
  left,      \* time the lease still has, 0 when it ran out
  believes,  \* proxies whose lease_id is not None
  since,     \* [Proxy -> time since the last run of lease_global_lock]
  block,     \* [Proxy -> time the event loop is still blocked]
  inPass,    \* proxies inside process_federation_queue
  faults     \* crashes and failed calls so far

lockVars == <<holder, left, believes, since, block, inPass, faults>>

LockTypeOK ==
  /\ holder \subseteq Proxy
  /\ left \in 0..LeaseTime
  /\ believes \subseteq Proxy
  /\ since \in [Proxy -> 0..(Period + MaxBlock)]
  /\ block \in [Proxy -> 0..MaxBlock]
  /\ inPass \subseteq Proxy
  /\ faults \in 0..MaxFaults

Free(p) == block[p] = 0
Due(p) == since[p] >= Period

\* poll_for_federations runs lease_global_lock first of all.
LockInit ==
  /\ holder = {} /\ left = 0 /\ believes = {} /\ inPass = {}
  /\ since = [p \in Proxy |-> Period]
  /\ block = [p \in Proxy |-> 0]
  /\ faults = 0

Fault == faults < MaxFaults /\ faults' = faults + 1

\* A lease call fails although Azure would grant the lease.
CallFails(p) == p \in inPass => AwaitFaults

Granted(p) ==
  /\ faults' = faults
  /\ holder' = {p}
  /\ left' = LeaseTime
  /\ believes' = believes \cup {p}

\* Mutant: the lease is acquired without a duration, so it never runs out.
TimerInfinite(p) ==
  LET granted == IF p \in believes THEN p \in holder ELSE holder = {} IN
  /\ Free(p) /\ Due(p)
  /\ since' = [since EXCEPT ![p] = 0]
  /\ \/ granted /\ Granted(p)
     \/ /\ IF granted THEN CallFails(p) /\ Fault ELSE faults' = faults
        /\ believes' = believes \ {p}
        /\ UNCHANGED <<holder, left>>
  /\ UNCHANGED <<block, inPass>>

\* lease_global_lock.  Azure grants a lease on a blob whose lease ran out, and
\* renews one that ran out as long as nobody else took the lease.
LeaseGlobalLock(p) ==
  LET granted == IF p \in believes THEN p \in holder ELSE left = 0 IN
  /\ Free(p) /\ Due(p)
  /\ since' = [since EXCEPT ![p] = 0]
  /\ \/ granted /\ Granted(p)
     \/ /\ IF granted THEN CallFails(p) /\ Fault ELSE faults' = faults
        /\ believes' = believes \ {p}
        /\ UNCHANGED <<holder, left>>
  /\ UNCHANGED <<block, inPass>>

\* Synchronous work takes d.  A timer that is due comes first.
Work(p, d) ==
  /\ Free(p) /\ ~Due(p)
  /\ block' = [block EXCEPT ![p] = d]

\* Mutant: the queue is processed without a look at the lock.
StartUnchecked(p, d) ==
  /\ p \notin inPass
  /\ Work(p, d)
  /\ inPass' = inPass \cup {p}
  /\ UNCHANGED <<holder, left, believes, since, faults>>

\* iterate_and_process_federation_queues finds the lock held.
StartPass(p, d) ==
  /\ p \in believes /\ p \notin inPass
  /\ Work(p, d)
  /\ inPass' = inPass \cup {p}
  /\ UNCHANGED <<holder, left, believes, since, faults>>

\* An action that awaited goes on with its message, without a look at the lock.
ResumePass(p, d) ==
  /\ p \in inPass
  /\ Work(p, d)
  /\ UNCHANGED <<holder, left, believes, since, inPass, faults>>

LeavePass(p) ==
  /\ p \in inPass /\ Free(p)
  /\ inPass' = inPass \ {p}
  /\ UNCHANGED <<holder, left, believes, since, block, faults>>

\* poll_for_federations calls update_federations.
UpdateFederations(p, d) ==
  /\ p \in believes
  /\ Work(p, d)
  /\ UNCHANGED <<holder, left, believes, since, inPass, faults>>

\* The process ends and is started again.
Crash(p) ==
  /\ Fault
  /\ believes' = believes \ {p}
  /\ inPass' = inPass \ {p}
  /\ since' = [since EXCEPT ![p] = Period]
  /\ block' = [block EXCEPT ![p] = 0]
  /\ UNCHANGED <<holder, left>>

\* Time passes unless a loop is free to run its due timer.
Tick ==
  /\ \A p \in Proxy : ~(Free(p) /\ Due(p))
  /\ left' = IF left = 0 THEN 0 ELSE left - 1
  /\ since' = [p \in Proxy |-> since[p] + 1]
  /\ block' = [p \in Proxy |-> IF block[p] = 0 THEN 0 ELSE block[p] - 1]
  /\ UNCHANGED <<holder, believes, inPass, faults>>

LockNext ==
  \/ \E p \in Proxy :
       \/ LeaseGlobalLock(p) \/ LeavePass(p) \/ Crash(p)
       \/ \E d \in 1..MaxBlock :
            StartPass(p, d) \/ ResumePass(p, d) \/ UpdateFederations(p, d)
  \/ Tick

\* Time goes on and due timers run.
LockFairness == WF_lockVars(Tick) /\ \A p \in Proxy : WF_lockVars(LeaseGlobalLock(p))

LockSpec == LockInit /\ [][LockNext]_lockVars
FairLockSpec == LockSpec /\ LockFairness

(***************************************************************************)
(* Properties.                                                             *)
(***************************************************************************)

\* At most one proxy is inside process_federation_queue, the reason why
\* Overrun = FALSE in FedActions.  It needs blocking work that is no longer than
\* what a lease leaves after a timer period, and renewals that succeed while an
\* action awaits: the lock is not looked at again before the action goes on.
OneWorker == \A p, q \in inPass : p = q

\* No two proxies take themselves for the holder of the lock, even when a
\* renewal fails: the id is dropped at once, before the lease runs out.
OneBeliever == \A p, q \in believes : p = q

\* A proxy becomes the holder again and again, whoever crashed while holding
\* the lease.
Takeover == []<>(believes # {})
=============================================================================
