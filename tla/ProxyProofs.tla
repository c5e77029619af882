------------------------------ MODULE ProxyProofs ------------------------------
(***************************************************************************)
(* Proofs about one proxy process: its event loop (EventLoop), for every   *)
(* number of federations, pools and messages, and the lease it shares with *)
(* the other proxies (GlobalLock), for every number of proxies.            *)
(*                                                                         *)
(* Of the loop: a thread of the refresh only waits for the lock of a       *)
(* federation whose action awaits.  The lock that is held is that of the   *)
(* federation being processed (Holding), threads only run while the        *)
(* refresh blocks the loop (Joined), and the refresh does not start in the *)
(* middle of a pass but for an await (Blocking).  For the types: a pass    *)
(* has no more messages to go than the queue of its federation (Counted).  *)
(*                                                                         *)
(* Of the lease: no two proxies work at once, if no renewal fails while an *)
(* action awaits and blocking work plus a timer period are no longer than  *)
(* the lease.  A loop reaches its timer less than Period + MaxBlock after  *)
(* the last renewal (Timely), and until then the lease has the rest of     *)
(* LeaseTime left (Backed), so it cannot be granted to another proxy.      *)
(***************************************************************************)
EXTENDS EventLoop, GlobalLock, FiniteSetTheorems, TLAPS

-----------------------------------------------------------------------------
(* The event loop *)

\* A pass holds the lock of its federation and no other.
Holding ==
  /\ locked = cur
  /\ cur # {} => proc \in {"pass", "await"}

\* The refresh joins its threads.
Joined == \A f \in Fed : thread[f] # "none" => poller = "updating"

\* The refresh owns the event loop while it waits for its threads.
Blocking ==
  /\ poller = "updating" => proc \notin {"iter", "pass"}
  /\ poller = "start" => proc = "none"

Counted ==
  /\ \A f \in Fed : queue[f] <= sent
  /\ \A f \in cur : batch <= queue[f]
  /\ proc = "await" => batch > 0

Inv == TypeOK /\ Holding /\ Joined /\ Blocking /\ Counted

USE LoopAssumption

LEMMA InvInit == Init => Inv
<1> SUFFICES ASSUME Init PROVE Inv
  OBVIOUS
<1>1. Cardinality({}) = 0 /\ Cardinality(Fed) \in Nat
  BY FS_EmptySet, FS_CardinalityType
<1>2. hasLock \in BOOLEAN
  BY DEF Init
<1>3. TypeOK
  BY <1>1, <1>2 DEF Init, TypeOK
<1> QED
  BY <1>3 DEF Init, Inv, Holding, Joined, Blocking, Counted

\* A pass ends: its lock is released.
LEMMA LeaveKeeps ==
  ASSUME TypeOK, Holding, LeaveQueue
  PROVE  /\ locked' = {} /\ cur' = {} /\ batch' = 0
         /\ proc' \in {"iter", "sleep"} /\ Cardinality(cur') = 0
BY FS_EmptySet DEF TypeOK, Holding, LeaveQueue

LEMMA InvNext == Inv /\ [Next]_vars => Inv'
<1> SUFFICES ASSUME Inv, [Next]_vars
             PROVE  Inv'
  OBVIOUS
<1> USE DEF Inv, Holding, Joined, Blocking, Counted, storeVars, cacheVars, pollVars,
            procVars
<1>1. ASSUME NEW f \in Fed, CreateFederation(f)
      PROVE  Inv'
  BY <1>1 DEF CreateFederation, Change, TypeOK
<1>2. ASSUME NEW f \in Fed, DestroyFederation(f)
      PROVE  Inv'
  BY <1>2 DEF DestroyFederation, Change, TypeOK
<1>3. ASSUME NEW f \in Fed, Submit(f)
      PROVE  Inv'
  BY <1>3 DEF Submit, TypeOK
<1>4. ASSUME NEW f \in Fed, NEW p \in Pool, ChangePool(f, p)
      PROVE  Inv'
  BY <1>4 DEF ChangePool, Change, TypeOK
<1>5. CASE Acquire
  BY <1>5 DEF Acquire, TypeOK
<1>6. CASE LoseLock
  <2>1. hasLock' \in BOOLEAN
    BY <1>6 DEF LoseLock
  <2>2. /\ changes' = changes + 1 /\ changes < MaxChanges
        /\ UNCHANGED <<table, members, queue, sent, cacheVars, pollVars, procVars>>
    BY <1>6 DEF LoseLock, Change
  <2> QED
    BY <2>1, <2>2 DEF TypeOK
<1>7. CASE StartUpdate
  BY <1>7 DEF StartUpdate, LoopFree, TypeOK
<1>8. CASE EndUpdate
  BY <1>8 DEF EndUpdate, TypeOK
<1>9. ASSUME NEW f \in Fed, AddFederation(f)
      PROVE  Inv'
  BY <1>9 DEF AddFederation, TypeOK
<1>10. ASSUME NEW f \in Fed, UpdatePools(f)
       PROVE  Inv'
  BY <1>10 DEF UpdatePools, TypeOK
<1>11. CASE StartIteration
  <2>1. Cardinality(known) \in 0..Cardinality(Fed)
    BY FS_Subset, FS_CardinalityType DEF TypeOK
  <2> QED
    BY <1>11, <2>1 DEF StartIteration, LoopFree, TypeOK
<1>12. CASE NextFederation
  <2>1. CASE proc' # "pass"
    BY <1>12, <2>1 DEF NextFederation, TypeOK
  <2>2. CASE proc' = "pass"
    <3>1. PICK f \in todo : /\ cur' = {f} /\ locked' = locked \cup {f}
                            /\ todo' = todo \ {f} /\ batch' = queue[f]
      BY <1>12, <2>2 DEF NextFederation
    <3>2. cur = {}
      BY <1>12 DEF NextFederation
    <3>3. Cardinality(cur') <= 1
      BY <3>1, FS_Singleton
    <3> QED
      BY <1>12, <2>2, <3>1, <3>2, <3>3 DEF NextFederation, TypeOK
  <2> QED
    BY <2>1, <2>2
<1>13. CASE EndPass
  <2>1. TypeOK /\ Holding
    OBVIOUS
  <2>2. LeaveQueue /\ proc = "pass"
        /\ UNCHANGED <<storeVars, hasLock, cacheVars, pollVars, todo, size>>
    BY <1>13 DEF EndPass
  <2>3. /\ locked' = {} /\ cur' = {} /\ batch' = 0
        /\ proc' \in {"iter", "sleep"} /\ Cardinality(cur') = 0
    BY <2>1, <2>2, LeaveKeeps
  <2> QED
    BY <2>2, <2>3 DEF TypeOK
<1>14. CASE Process
  <2>1. CASE Processed /\ UNCHANGED <<changes, locked, cur>>
    <3>1. batch > 0 /\ cur \subseteq Fed
      BY <1>14 DEF Process, TypeOK
    <3>2. /\ queue' = [f \in Fed |-> IF f \in cur THEN queue[f] - 1 ELSE queue[f]]
          /\ batch' = batch - 1 /\ proc' = "pass"
      BY <2>1 DEF Processed
    <3>3. queue' \in [Fed -> 0..MaxMessages] /\ batch' \in 0..MaxMessages
      BY <3>1, <3>2 DEF TypeOK
    <3>4. Counted'
      BY <1>14, <2>1, <3>1, <3>2 DEF Process, TypeOK
    <3> QED
      BY <1>14, <2>1, <3>2, <3>3, <3>4 DEF Process, LoopFree, TypeOK
  <2>2. CASE Change /\ LeaveQueue /\ UNCHANGED queue
    <3>1. TypeOK /\ Holding
      OBVIOUS
    <3>2. /\ locked' = {} /\ cur' = {} /\ batch' = 0
          /\ proc' \in {"iter", "sleep"} /\ Cardinality(cur') = 0
      BY <2>2, <3>1, LeaveKeeps
    <3>3. /\ UNCHANGED <<table, members, sent, hasLock, cacheVars, pollVars, todo, size>>
          /\ poller # "updating" /\ proc \in {"pass", "await"}
      BY <1>14 DEF Process, LoopFree
    <3> QED
      BY <2>2, <3>2, <3>3 DEF Change, TypeOK
  <2> QED
    BY <1>14, <2>1, <2>2 DEF Process
<1>15. CASE Await
  BY <1>15 DEF Await, TypeOK
<1>16. CASE UNCHANGED vars
  BY <1>16 DEF vars, TypeOK
<1> QED
  BY <1>1, <1>2, <1>3, <1>4, <1>5, <1>6, <1>7, <1>8, <1>9, <1>10, <1>11, <1>12,
     <1>13, <1>14, <1>15, <1>16 DEF Next, Poll, Iterate

\* The variables keep their types: in particular no pass takes more messages
\* off a queue than there are (process_federation_queue).
THEOREM TypeCorrect == Spec => []TypeOK
<1>1. Inv => TypeOK
  BY DEF Inv
<1> QED
  BY InvInit, InvNext, <1>1, PTL DEF Spec

\* A thread of update_federations that waits for the lock of a federation waits
\* for one whose action awaits: without awaits, no refresh blocks the loop.
THEOREM OnlyAwaitsBlock == Spec => []LocksFreeForUpdate
<1>1. Inv => LocksFreeForUpdate
  BY DEF Inv, TypeOK, Holding, Joined, Blocking, LocksFreeForUpdate, Stuck
<1> QED
  BY InvInit, InvNext, <1>1, PTL DEF Spec

-----------------------------------------------------------------------------
(* The lease *)

\* A loop reaches its timer in time.
Timely == \A p \in Proxy : since[p] + block[p] < Period + MaxBlock

\* Who believes in the lease has it for the rest of its time.
Backed == \A p \in believes : holder = {p} /\ left + since[p] >= LeaseTime

LockInv == LockTypeOK /\ Timely /\ Backed /\ inPass \subseteq believes

\* A lease outlives a timer period and the work after it.
ShortWork == Period + MaxBlock <= LeaseTime /\ AwaitFaults = FALSE

USE LockAssumption DEF ShortWork

LEMMA LockStarts == ShortWork /\ LockInit => LockInv
BY DEF LockInit, LockInv, LockTypeOK, Timely, Backed

\* The lease of a proxy that believes in it has not run out.
LEMMA LeaseLeft ==
  ASSUME LockInv, ShortWork, NEW p \in believes
  PROVE  left # 0
<1>1. p \in Proxy /\ since[p] \in Nat /\ block[p] \in Nat /\ left \in Nat
  BY DEF LockInv, LockTypeOK
<1>2. since[p] + block[p] < Period + MaxBlock /\ left + since[p] >= LeaseTime
  BY <1>1 DEF LockInv, Timely, Backed
<1> QED
  BY <1>1, <1>2 DEF ShortWork

LEMMA LeaseKeeps ==
  ASSUME LockInv, ShortWork, NEW p \in Proxy, LeaseGlobalLock(p)
  PROVE  LockInv'
<1>1. LockTypeOK'
  BY DEF LockInv, LockTypeOK, LeaseGlobalLock, Granted, Fault
<1>2. Timely'
  BY DEF LockInv, LockTypeOK, Timely, LeaseGlobalLock
<1>3. CASE Granted(p)
  <2>1. believes \subseteq {p}
    <3>1. CASE p \in believes
      BY <3>1 DEF LockInv, Backed
    <3>2. CASE p \notin believes
      <4>1. CASE left = 0
        BY <4>1, LeaseLeft
      <4>2. CASE left # 0
        BY <1>3, <3>2, <4>2 DEF LeaseGlobalLock, Granted
      <4> QED
        BY <4>1, <4>2
    <3> QED
      BY <3>1, <3>2
  <2>2. believes' = {p} /\ holder' = {p} /\ left' = LeaseTime /\ since'[p] = 0
    BY <1>3, <2>1 DEF Granted, LeaseGlobalLock, LockInv, LockTypeOK
  <2>3. Backed'
    BY <2>2 DEF Backed
  <2>4. inPass' \subseteq believes'
    BY <2>1, <2>2 DEF LeaseGlobalLock, LockInv
  <2> QED
    BY <1>1, <1>2, <2>3, <2>4 DEF LockInv
<1>4. CASE ~Granted(p)
  <2>1. /\ believes' = believes \ {p}
        /\ UNCHANGED <<holder, left, inPass>>
    BY <1>4 DEF LeaseGlobalLock
  <2>2. \A q \in believes' : since'[q] = since[q]
    BY <2>1 DEF LeaseGlobalLock, LockInv, LockTypeOK
  <2>3. Backed'
    BY <2>1, <2>2 DEF LockInv, Backed
  <2>4. p \notin inPass
    <3>1. CASE p \in believes
      BY <1>4, <3>1 DEF LeaseGlobalLock, CallFails, ShortWork, LockInv, Backed
    <3>2. CASE p \notin believes
      BY <3>2 DEF LockInv
    <3> QED
      BY <3>1, <3>2
  <2> QED
    BY <1>1, <1>2, <2>1, <2>3, <2>4 DEF LockInv
<1> QED
  BY <1>3, <1>4

LEMMA WorkKeeps ==
  ASSUME LockInv, ShortWork, NEW p \in Proxy, NEW d \in 1..MaxBlock,
         StartPass(p, d) \/ ResumePass(p, d) \/ UpdateFederations(p, d)
  PROVE  LockInv'
<1>1. /\ since[p] < Period /\ block' = [block EXCEPT ![p] = d]
      /\ UNCHANGED <<holder, left, believes, since, faults>>
      /\ inPass' \subseteq believes
  BY DEF StartPass, ResumePass, UpdateFederations, Work, Due, Free, LockInv, LockTypeOK
<1>2. LockTypeOK'
  BY <1>1 DEF LockInv, LockTypeOK
<1>3. Timely'
  BY <1>1 DEF LockInv, LockTypeOK, Timely
<1> QED
  BY <1>1, <1>2, <1>3 DEF LockInv, Backed

LEMMA TickKeeps ==
  ASSUME LockInv, ShortWork, Tick
  PROVE  LockInv'
<1>1. \A p \in Proxy : /\ since[p] \in Nat /\ block[p] \in Nat
                       /\ since[p] + block[p] < Period + MaxBlock
                       /\ block[p] = 0 => since[p] < Period
                       /\ since'[p] = since[p] + 1
                       /\ block'[p] = IF block[p] = 0 THEN 0 ELSE block[p] - 1
  BY DEF LockInv, LockTypeOK, Timely, Tick, Free, Due
<1>2. Timely'
  BY <1>1 DEF Timely
<1>3. LockTypeOK'
  BY <1>1 DEF LockInv, LockTypeOK, Tick, Timely
<1>4. Backed'
  <2> SUFFICES ASSUME NEW p \in believes'
               PROVE  holder' = {p} /\ left' + since'[p] >= LeaseTime
    BY DEF Backed
  <2>1. p \in believes /\ p \in Proxy /\ holder' = holder
    BY DEF Tick, LockInv, LockTypeOK
  <2>2. left # 0 /\ left' = left - 1 /\ left \in Nat
    <3>1. left # 0
      BY <2>1, LeaseLeft
    <3> QED
      BY <3>1 DEF Tick, LockInv, LockTypeOK
  <2>3. holder = {p} /\ left + since[p] >= LeaseTime
    BY <2>1 DEF LockInv, Backed
  <2>4. since'[p] = since[p] + 1 /\ since[p] \in Nat /\ LeaseTime \in Nat
    BY <1>1, <2>1
  <2> QED
    BY <2>1, <2>2, <2>3, <2>4
<1> QED
  BY <1>2, <1>3, <1>4 DEF LockInv, Tick

LEMMA LockGoesOn ==
  ASSUME LockInv, ShortWork, [LockNext]_lockVars
  PROVE  LockInv'
<1>1. ASSUME NEW p \in Proxy, LeavePass(p)
      PROVE  LockInv'
  BY <1>1 DEF LeavePass, LockInv, LockTypeOK, Timely, Backed
<1>2. ASSUME NEW p \in Proxy, Crash(p)
      PROVE  LockInv'
  BY <1>2 DEF Crash, Fault, LockInv, LockTypeOK, Timely, Backed
<1>3. CASE UNCHANGED lockVars
  BY <1>3 DEF lockVars, LockInv, LockTypeOK, Timely, Backed
<1> QED
  BY <1>1, <1>2, <1>3, LeaseKeeps, WorkKeeps, TickKeeps DEF LockNext

\* The lease on global.lock keeps two proxies from working on the action queues
\* at once (check_global_lock), if blocking work plus a timer period are no
\* longer than the lease and no renewal fails while an action awaits.
THEOREM LeaseExcludes ==
  ASSUME ShortWork
  PROVE  LockSpec => [](OneWorker /\ OneBeliever)
<1>1. LockInv /\ [LockNext]_lockVars => LockInv'
  BY LockGoesOn
<1>2. LockInv => OneWorker /\ OneBeliever
  BY DEF LockInv, Backed, OneWorker, OneBeliever
<1> QED
  BY LockStarts, <1>1, <1>2, PTL DEF LockSpec
=============================================================================
