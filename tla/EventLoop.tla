------------------------------ MODULE EventLoop -------------------------------
(***************************************************************************)
(* Inside one federation proxy (FederationProcessor): two coroutines share *)
(* an event loop, poll_for_federations, which refreshes the federations    *)
(* with worker threads and blocks the loop until the threads are done, and *)
(* iterate_and_process_federation_queues, which processes messages and     *)
(* holds the lock of a federation while it does, also while an action      *)
(* awaits (asyncio.wait of delete_or_terminate_job_v1, asyncio.sleep of    *)
(* delete_or_terminate_job).  The threads take the same locks.             *)
(*                                                                         *)
(* Abstractions.  A sequence of coroutine steps between two awaits runs    *)
(* without the other coroutine and the timers: the states "updating",      *)
(* "iter" and "pass" own the loop.  What update_pool does with a pool is   *)
(* reduced to putting the pool into the cache.                             *)
(***************************************************************************)
EXTENDS Naturals, FiniteSets

CONSTANTS
  Fed, Pool,
  MaxMessages,   \* bound on the messages submitted
  MaxChanges,    \* bound on changes of the federation tables and of the lock
  Suspends       \* an action may await before its message is done

ASSUME LoopAssumption ==
  /\ IsFiniteSet(Fed)
  /\ MaxMessages \in Nat /\ MaxChanges \in Nat
  /\ Suspends \in BOOLEAN

VARIABLES
  table,      \* federations in the federations table
  members,    \* [Fed -> SUBSET Pool]: pools of a federation in the table
  queue,      \* [Fed -> messages in its queue]
  sent, changes,
  hasLock,    \* has_global_lock
  known,      \* keys of self.federations
  pools,      \* [Fed -> SUBSET Pool]: Federation.pools
  locked,     \* federations whose lock process_federation_queue holds
  poller,     \* poll_for_federations
  thread,     \* [Fed -> phase of its _update_federation thread]
  proc,       \* iterate_and_process_federation_queues
  todo, size, \* its iteration over self.federations: keys to come, size seen
  cur, batch  \* its federation, and the messages of it still to process

storeVars == <<table, members, queue, sent, changes>>
cacheVars == <<known, pools>>
pollVars  == <<poller, thread>>
procVars  == <<proc, todo, size, cur, batch, locked>>
vars == <<storeVars, hasLock, cacheVars, pollVars, procVars>>

TypeOK ==
  /\ table \subseteq Fed /\ known \subseteq Fed /\ locked \subseteq Fed
  /\ todo \subseteq Fed
  /\ members \in [Fed -> SUBSET Pool] /\ pools \in [Fed -> SUBSET Pool]
  /\ queue \in [Fed -> 0..MaxMessages]
  /\ sent \in 0..MaxMessages /\ changes \in 0..MaxChanges
  /\ hasLock \in BOOLEAN
  /\ poller \in {"start", "updating", "sleep"}
  /\ thread \in [Fed -> {"none", "new", "pools"}]
  /\ proc \in {"none", "sleep", "iter", "pass", "await", "dead"}
  /\ size \in 0..Cardinality(Fed)
  /\ cur \in SUBSET Fed /\ Cardinality(cur) <= 1
  /\ batch \in 0..MaxMessages

Init ==
  /\ table = {} /\ known = {} /\ locked = {} /\ todo = {} /\ cur = {}
  /\ members = [f \in Fed |-> {}] /\ pools = [f \in Fed |-> {}]
  /\ queue = [f \in Fed |-> 0]
  /\ sent = 0 /\ changes = 0 /\ size = 0 /\ batch = 0
  /\ hasLock = FALSE
  /\ poller = "start" /\ thread = [f \in Fed |-> "none"]
  /\ proc = "none"

\* No coroutine is between two awaits.
LoopFree == poller # "updating" /\ proc \notin {"iter", "pass"}

(***************************************************************************)
(* The environment: CLI commands and the timer lease_global_lock.          *)
(***************************************************************************)
Change == changes < MaxChanges /\ changes' = changes + 1

CreateFederation(f) ==
  /\ f \notin table \cup known
  /\ Change
  /\ table' = table \cup {f}
  /\ UNCHANGED <<members, queue, sent, hasLock, cacheVars, pollVars, procVars>>

DestroyFederation(f) ==
  /\ f \in table
  /\ Change
  /\ table' = table \ {f}
  /\ members' = [members EXCEPT ![f] = {}]
  /\ UNCHANGED <<queue, sent, hasLock, cacheVars, pollVars, procVars>>

ChangePool(f, p) ==
  /\ f \in table
  /\ Change
  /\ \E m \in {members[f] \cup {p}, members[f] \ {p}} :
       members' = [members EXCEPT ![f] = m]
  /\ UNCHANGED <<table, queue, sent, hasLock, cacheVars, pollVars, procVars>>

Submit(f) ==
  /\ f \in table
  /\ sent < MaxMessages
  /\ sent' = sent + 1
  /\ queue' = [queue EXCEPT ![f] = @ + 1]
  /\ UNCHANGED <<table, members, changes, hasLock, cacheVars, pollVars, procVars>>

Acquire ==
  /\ LoopFree /\ ~hasLock
  /\ hasLock' = TRUE
  /\ UNCHANGED <<storeVars, cacheVars, pollVars, procVars>>

LoseLock ==
  /\ LoopFree /\ hasLock
  /\ Change
  /\ hasLock' = FALSE
  /\ UNCHANGED <<table, members, queue, sent, cacheVars, pollVars, procVars>>

(***************************************************************************)
(* poll_for_federations.                                                   *)
(***************************************************************************)

\* Mutant: the refresh is not run by the event loop but beside it.
UpdateInBackground ==
  /\ hasLock
  /\ poller \in {"start", "sleep"}
  /\ IF table = {}
       THEN poller' = "sleep" /\ UNCHANGED thread
       ELSE /\ poller' = "updating"
            /\ thread' = [f \in Fed |-> IF f \in table THEN "new" ELSE "none"]
  /\ proc' = IF poller = "start" THEN "sleep" ELSE proc
  /\ UNCHANGED <<storeVars, hasLock, cacheVars, todo, size, cur, batch, locked>>

\* update_federations submits one thread per entity.  Once the lock was had
\* for the first time, the other coroutine is scheduled.
StartUpdate ==
  /\ LoopFree /\ hasLock
  /\ poller \in {"start", "sleep"}
  /\ IF table = {}
       THEN poller' = "sleep" /\ UNCHANGED thread
       ELSE /\ poller' = "updating"
            /\ thread' = [f \in Fed |-> IF f \in table THEN "new" ELSE "none"]
  /\ proc' = IF poller = "start" THEN "sleep" ELSE proc
  /\ UNCHANGED <<storeVars, hasLock, cacheVars, todo, size, cur, batch, locked>>

\* _update_federation adds the federation and lists its pools; without pools it
\* returns at once.
AddFederation(f) ==
  /\ thread[f] = "new"
  /\ known' = known \cup {f}
  /\ thread' = [thread EXCEPT ![f] = IF members[f] = {} THEN "none" ELSE "pools"]
  /\ UNCHANGED <<storeVars, hasLock, pools, poller, procVars>>

\* update_pool and trim_orphaned_pools, "with self.lock": the thread waits for a
\* federation whose messages are processed.
UpdatePools(f) ==
  /\ thread[f] = "pools"
  /\ f \notin locked
  /\ pools' = [pools EXCEPT ![f] = members[f]]
  /\ thread' = [thread EXCEPT ![f] = "none"]
  /\ UNCHANGED <<storeVars, hasLock, known, poller, procVars>>

\* The executors have joined their threads.
EndUpdate ==
  /\ poller = "updating"
  /\ \A f \in Fed : thread[f] = "none"
  /\ poller' = "sleep"
  /\ UNCHANGED <<storeVars, hasLock, cacheVars, thread, procVars>>

(***************************************************************************)
(* iterate_and_process_federation_queues.                                  *)
(***************************************************************************)
StartIteration ==
  /\ LoopFree /\ hasLock
  /\ proc = "sleep" /\ known # {}
  /\ proc' = "iter"
  /\ todo' = known
  /\ size' = Cardinality(known)
  /\ UNCHANGED <<storeVars, hasLock, cacheVars, pollVars, cur, batch, locked>>

\* The next key of the dictionary.  Python raises when the dictionary changed
\* its size, outside of the try block of the loop: the coroutine ends.
NextFederation ==
  /\ proc = "iter"
  /\ \/ /\ Cardinality(known) # size
        /\ proc' = "dead"
        /\ UNCHANGED <<todo, cur, batch, locked>>
     \/ /\ Cardinality(known) = size /\ todo = {}
        /\ proc' = "sleep"
        /\ UNCHANGED <<todo, cur, batch, locked>>
     \/ /\ Cardinality(known) = size
        /\ \E f \in todo :
             /\ todo' = todo \ {f}
             /\ IF f \in locked
                  THEN UNCHANGED <<proc, cur, batch, locked>>
                  ELSE /\ proc' = "pass"
                       /\ cur' = {f}
                       /\ locked' = locked \cup {f}
                       /\ batch' = queue[f]
  /\ UNCHANGED <<storeVars, hasLock, cacheVars, pollVars, size>>

\* Mutant: the iteration ends after every federation.
LeaveBreaks ==
  /\ locked' = locked \ cur
  /\ cur' = {}
  /\ batch' = 0
  /\ proc' = "sleep"

\* process_federation_queue returns or raises: the lock is released, and the
\* iteration ends when the global lock was lost.
LeaveQueue ==
  /\ locked' = locked \ cur
  /\ cur' = {}
  /\ batch' = 0
  /\ proc' = IF hasLock THEN "iter" ELSE "sleep"

EndPass ==
  /\ proc = "pass"
  /\ batch = 0 \/ ~hasLock
  /\ LeaveQueue
  /\ UNCHANGED <<storeVars, hasLock, cacheVars, pollVars, todo, size>>

Processed ==
  /\ queue' = [f \in Fed |-> IF f \in cur THEN queue[f] - 1 ELSE queue[f]]
  /\ batch' = batch - 1
  /\ proc' = "pass"

\* A message is processed to its end, at once or after an await, or its action
\* raises, which ends the pass.
Process ==
  /\ proc \in {"pass", "await"}
  /\ proc = "pass" => batch > 0 /\ hasLock
  /\ proc = "await" => LoopFree
  /\ \/ Processed /\ UNCHANGED <<changes, locked, cur>>
     \/ Change /\ LeaveQueue /\ UNCHANGED queue
  /\ UNCHANGED <<table, members, sent, hasLock, cacheVars, pollVars, todo, size>>

\* The action of a message gives way to the event loop.
Await ==
  /\ Suspends
  /\ proc = "pass" /\ batch > 0 /\ hasLock
  /\ proc' = "await"
  /\ UNCHANGED <<storeVars, hasLock, cacheVars, pollVars, todo, size, cur, batch,
                 locked>>

Poll == StartUpdate \/ EndUpdate \/ \E f \in Fed : AddFederation(f) \/ UpdatePools(f)

Iterate == StartIteration \/ NextFederation \/ EndPass \/ Process

Next ==
  \/ \E f \in Fed :
       \/ CreateFederation(f) \/ DestroyFederation(f) \/ Submit(f)
       \/ \E p \in Pool : ChangePool(f, p)
  \/ Acquire \/ LoseLock
  \/ Poll \/ Iterate \/ Await

Spec == Init /\ [][Next]_vars

\* The loop runs what is ready, threads run, the lock is acquired again; an
\* action that awaits goes on in the end, and sleeps end although the other
\* coroutine becomes ready again and again.
Fairness ==
  /\ WF_vars(Acquire)
  /\ SF_vars(StartUpdate) /\ WF_vars(EndUpdate)
  /\ \A f \in Fed : WF_vars(AddFederation(f)) /\ WF_vars(UpdatePools(f))
  /\ SF_vars(StartIteration) /\ WF_vars(NextFederation) /\ WF_vars(EndPass)
  /\ SF_vars(Process)

FairSpec == Spec /\ Fairness

(***************************************************************************)
(* Properties.                                                             *)
(***************************************************************************)

\* A worker thread waits for the lock of a federation one of whose actions
\* awaits, while the event loop waits for the thread.
Stuck == poller = "updating" /\ proc = "await" /\ \E f \in locked : thread[f] = "pools"

\* The event loop waits for a worker thread that can go on, unless an action
\* awaits: a refresh blocks nobody else who holds a lock of a federation.
LocksFreeForUpdate ==
  \A f \in locked : thread[f] = "pools" => Stuck

\* Every message of a federation that is not destroyed is processed, if the loop
\* is not stuck and the processing coroutine goes on.
AllServed ==
  \A f \in Fed :
    queue[f] > 0 ~> queue[f] = 0 \/ f \notin table \/ Stuck \/ proc = "dead"

\* A refresh of the federations ends ("continuously update federations").
UpdatesEnd == poller = "updating" ~> poller = "sleep"
=============================================================================
