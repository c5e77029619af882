------------------------------ MODULE Cascade ------------------------------
(***************************************************************************)
(* Container images come to the nodes of a pool by cascade.py: a monitor   *)
(* coroutine on each node takes resources off a queue and starts a thread  *)
(* for each that pulls the image.  To spare the registry a thread only     *)
(* starts with the 60 second lease on one of N slot blobs of the resource, *)
(* renewed every 15 seconds by a timer of the event loop and released by   *)
(* the thread.  Thread and timer share the maps _BLOB_LEASES and           *)
(* _CBHANDLES without a lock.                                              *)
(***************************************************************************)
EXTENDS Naturals, Sequences, FiniteSets, SequencesExt

CONSTANTS
  Node, Resource,
  N,            \* _CONCURRENT_DOWNLOADS_ALLOWED
  None,
  MaxPullFaults     \* bound: pulls, renewals and releases that fail, stalls of a loop

ASSUME CascadeAssumption ==
  /\ IsFiniteSet(Resource)
  /\ N \in Nat \ {0} /\ MaxPullFaults \in Nat
  /\ None \notin Node \cup Resource

VARIABLES
  \* Azure Storage
  holder,      \* [Resource -> [slot -> node that has the lease, or None]]
  \* each node's process
  monitor,     \* [Node -> "run", "raised" or "done"]
  queue,       \* _DIRECTDL_QUEUE
  downloading, \* _DIRECTDL_DOWNLOADING
  leases,      \* keys of _BLOB_LEASES
  handles,     \* keys of _CBHANDLES
  armed,       \* resources whose timer the loop has
  renewing,    \* renewal in progress: resource, and whether Azure granted it
  thread,      \* [Node -> [Resource -> ContainerImageSaveThread]]
  pulled,      \* resources counted by _inc_resource_count
  raised,      \* _THREAD_EXCEPTIONS is not empty
  pullFaults

process == <<monitor, queue, raised>>
maps == <<leases, handles, armed, renewing>>
cascadeVars == <<holder, process, downloading, maps, thread, pulled, pullFaults>>

Slots == 0..(N - 1)
NoRenewal == [resource |-> None, granted |-> FALSE]
\* kept: the release failed, and the thread goes on to its end, over, all the same.
ThreadStates ==
  {"none", "pulling", "cancel", "release", "unlease", "kept", "done", "over", "dead"}

CascadeTypeOK ==
  /\ holder \in [Resource -> [Slots -> Node \cup {None}]]
  /\ monitor \in [Node -> {"run", "raised", "done"}]
  /\ queue \in [Node -> SeqOf(Resource, Cardinality(Resource))]
  /\ downloading \in [Node -> SUBSET Resource]
  /\ leases \in [Node -> SUBSET Resource] /\ handles \in [Node -> SUBSET Resource]
  /\ armed \in [Node -> SUBSET Resource]
  /\ renewing \in [Node -> [resource : Resource \cup {None}, granted : BOOLEAN]]
  /\ thread \in [Node -> [Resource -> ThreadStates]]
  /\ pulled \in [Node -> SUBSET Resource]
  /\ raised \in [Node -> BOOLEAN]
  /\ pullFaults \in 0..MaxPullFaults

\* distribute_global_resources: every resource of the table is queued.
CascadeInit ==
  /\ holder = [r \in Resource |-> [i \in Slots |-> None]]
  /\ monitor = [n \in Node |-> "run"]
  /\ queue \in [Node -> {SetToSeq(Resource)}]
  /\ downloading = [n \in Node |-> {}]
  /\ leases = [n \in Node |-> {}] /\ handles = [n \in Node |-> {}]
  /\ armed = [n \in Node |-> {}] /\ renewing = [n \in Node |-> NoRenewal]
  /\ thread = [n \in Node |-> [r \in Resource |-> "none"]]
  /\ pulled = [n \in Node |-> {}] /\ raised = [n \in Node |-> FALSE]
  /\ pullFaults = 0

PullFault == pullFaults < MaxPullFaults /\ pullFaults' = pullFaults + 1
Holds(n, r) == \E i \in Slots : holder[r][i] = n
Freed(n, r) == [holder EXCEPT ![r] = [i \in Slots |-> IF @[i] = n THEN None ELSE @[i]]]
Loops(n) == monitor[n] = "run" /\ renewing[n] = NoRenewal

----------------------------------------------------------------------------
(* The event loop *)

\* Mutant: a slot is taken from a node that has it.
LeaseAny(n, r) ==
  \E i \in Slots :
    /\ holder' = [holder EXCEPT ![r][i] = n]
    /\ queue' = [queue EXCEPT ![n] = Tail(@)]
    /\ downloading' = [downloading EXCEPT ![n] = @ \cup {r}]
    /\ leases' = [leases EXCEPT ![n] = @ \cup {r}]
    /\ handles' = [handles EXCEPT ![n] = @ \cup {r}]
    /\ armed' = [armed EXCEPT ![n] = @ \cup {r}]
    /\ thread' = [thread EXCEPT ![n][r] = "pulling"]

\* The first slot blob that is not leased is leased, the renewal timer set and
\* the thread started.
Lease(n, r) ==
  /\ \E i \in Slots :
       /\ holder[r][i] = None /\ \A j \in 0..(i - 1) : holder[r][j] # None
       /\ holder' = [holder EXCEPT ![r][i] = n]
  /\ queue' = [queue EXCEPT ![n] = Tail(@)]
  /\ downloading' = [downloading EXCEPT ![n] = @ \cup {r}]
  /\ leases' = [leases EXCEPT ![n] = @ \cup {r}]
  /\ handles' = [handles EXCEPT ![n] = @ \cup {r}]
  /\ armed' = [armed EXCEPT ![n] = @ \cup {r}]
  /\ thread' = [thread EXCEPT ![n][r] = "pulling"]

\* Mutant: a resource without a free slot is dropped.
DropResource(n, r) ==
  /\ \A i \in Slots : holder[r][i] # None
  /\ queue' = [queue EXCEPT ![n] = Tail(@)]
  /\ UNCHANGED <<holder, downloading, leases, handles, armed, thread>>

\* Without a free slot the resource goes to the end of the queue.
Requeue(n, r) ==
  /\ \A i \in Slots : holder[r][i] # None
  /\ queue' = [queue EXCEPT ![n] = Append(Tail(@), r)]
  /\ UNCHANGED <<holder, downloading, leases, handles, armed, thread>>

\* One pass of download_monitor_async: one resource is looked at unless more
\* than N are being downloaded (a queued resource never is), then an exception
\* of a thread ends the monitor.
Monitor(n) ==
  /\ Loops(n) /\ pulled[n] # Resource
  /\ IF queue[n] # << >> /\ Cardinality(downloading[n]) <= N
       THEN LET r == Head(queue[n]) IN Lease(n, r) \/ Requeue(n, r)
       ELSE UNCHANGED <<holder, queue, downloading, leases, handles, armed, thread>>
  /\ monitor' = [monitor EXCEPT ![n] = IF raised[n] THEN "raised" ELSE @]
  /\ UNCHANGED <<renewing, pulled, raised, pullFaults>>

\* acquire_blob_lease fails for another reason than a conflict: the exception
\* leaves the coroutine, the resource is off the queue.
MonitorRaises(n) ==
  /\ Loops(n) /\ pulled[n] # Resource
  /\ queue[n] # << >> /\ Cardinality(downloading[n]) <= N
  /\ PullFault
  /\ queue' = [queue EXCEPT ![n] = Tail(@)]
  /\ monitor' = [monitor EXCEPT ![n] = "raised"]
  /\ UNCHANGED <<holder, raised, downloading, maps, thread, pulled>>

MonitorDone(n) ==
  /\ Loops(n) /\ pulled[n] = Resource
  /\ monitor' = [monitor EXCEPT ![n] = "done"]
  /\ UNCHANGED <<holder, queue, raised, downloading, maps, thread, pulled, pullFaults>>

\* _renew_blob_lease: Azure renews the lease of the node, or does not, or the
\* call fails.  Without a lease id in the map the callback raises.
RenewCall(n, r) ==
  /\ Loops(n) /\ r \in armed[n]
  /\ armed' = [armed EXCEPT ![n] = @ \ {r}]
  /\ \/ /\ renewing' = [renewing EXCEPT ![n] =
                          IF r \in leases[n] THEN [resource |-> r, granted |-> Holds(n, r)]
                                             ELSE NoRenewal]
        /\ UNCHANGED pullFaults
     \/ /\ r \in leases[n] /\ PullFault
        /\ renewing' = [renewing EXCEPT ![n] = [resource |-> r, granted |-> FALSE]]
  /\ UNCHANGED <<holder, process, downloading, leases, handles, thread, pulled>>

\* The thread may have changed both maps meanwhile: a pop of a missing key
\* raises, and the second pop is not reached.
RenewReturn(n) ==
  LET r == renewing[n].resource IN
  /\ r # None
  /\ renewing' = [renewing EXCEPT ![n] = NoRenewal]
  /\ IF renewing[n].granted
       THEN /\ leases' = [leases EXCEPT ![n] = @ \cup {r}]
            /\ handles' = [handles EXCEPT ![n] = @ \cup {r}]
            /\ armed' = [armed EXCEPT ![n] = @ \cup {r}]
       ELSE /\ leases' = [leases EXCEPT ![n] = @ \ {r}]
            /\ handles' = [handles EXCEPT ![n] = IF r \in leases[n] THEN @ \ {r} ELSE @]
            /\ UNCHANGED armed
  /\ UNCHANGED <<holder, process, downloading, thread, pulled, pullFaults>>

----------------------------------------------------------------------------
(* ContainerImageSaveThread *)

At(n, r, pc) == thread[n][r] = pc
Go(n, r, pc) == thread' = [thread EXCEPT ![n][r] = pc]

\* The pull is retried while the registry is overloaded; it succeeds, or fails
\* for another reason.
PullAndSave(n, r) ==
  /\ At(n, r, "pulling")
  /\ \/ /\ pulled' = [pulled EXCEPT ![n] = @ \cup {r}]
        /\ UNCHANGED <<raised, pullFaults>>
     \/ /\ raised' = [raised EXCEPT ![n] = TRUE]
        /\ PullFault /\ UNCHANGED pulled
  /\ Go(n, r, "cancel")
  /\ UNCHANGED <<holder, monitor, queue, downloading, maps>>

\* A handle the timer popped is missed here: the KeyError ends the thread, and
\* the resource stays in _DIRECTDL_DOWNLOADING.  (A timer set again between the
\* cancel and the pop stays armed, as one set after the pop does.)
CancelTimer(n, r) ==
  /\ At(n, r, "cancel")
  /\ armed' = [armed EXCEPT ![n] = IF r \in handles[n] THEN @ \ {r} ELSE @]
  /\ handles' = [handles EXCEPT ![n] = @ \ {r}]
  /\ Go(n, r, IF r \in handles[n] THEN "release" ELSE "dead")
  /\ UNCHANGED <<holder, process, downloading, leases, renewing, pulled, pullFaults>>

\* Mutant: the lease is left to run out.
KeepLease(n, r) ==
  /\ At(n, r, "release")
  /\ Go(n, r, "unlease")
  /\ UNCHANGED <<holder, process, downloading, maps, pulled, pullFaults>>

\* An exception of the call is logged: Azure may have released the lease or not.
\* Without a lease id in the map the KeyError ends the thread.
ReleaseLease(n, r) ==
  /\ At(n, r, "release")
  /\ \/ r \in leases[n] /\ Go(n, r, "unlease") /\ holder' = Freed(n, r)
        /\ UNCHANGED pullFaults
     \/ r \in leases[n] /\ Go(n, r, "kept") /\ holder' \in {holder, Freed(n, r)}
        /\ PullFault
     \/ r \notin leases[n] /\ Go(n, r, "dead") /\ UNCHANGED <<holder, pullFaults>>
  /\ UNCHANGED <<process, downloading, maps, pulled>>

EndThread(n, r) ==
  /\ At(n, r, "unlease") \/ At(n, r, "kept")
  /\ leases' = [leases EXCEPT ![n] = @ \ {r}]
  /\ \/ /\ r \in leases[n] /\ Go(n, r, IF At(n, r, "kept") THEN "over" ELSE "done")
        /\ downloading' = [downloading EXCEPT ![n] = @ \ {r}]
     \/ r \notin leases[n] /\ Go(n, r, "dead") /\ UNCHANGED downloading
  /\ UNCHANGED <<holder, process, handles, armed, renewing, pulled, pullFaults>>

\* A lease runs out when nothing renews it: its timer or the loop is gone.
Lapse(n, r) ==
  /\ Holds(n, r)
  /\ \/ r \notin armed[n] /\ renewing[n].resource # r
     \/ r \in armed[n] /\ monitor[n] # "run"
  /\ holder' = Freed(n, r)
  /\ UNCHANGED <<process, downloading, maps, thread, pulled, pullFaults>>

\* The loop is held up for longer than the lease.
Stall(n, r) ==
  /\ Holds(n, r) /\ r \in armed[n] /\ monitor[n] = "run"
  /\ PullFault
  /\ holder' = Freed(n, r)
  /\ UNCHANGED <<process, downloading, maps, thread, pulled>>

----------------------------------------------------------------------------

Thread(n, r) ==
  \/ PullAndSave(n, r) \/ CancelTimer(n, r) \/ ReleaseLease(n, r) \/ EndThread(n, r)

Loop(n) == Monitor(n) \/ MonitorRaises(n) \/ MonitorDone(n) \/ RenewReturn(n)

CascadeNext ==
  \E n \in Node :
    \/ Loop(n)
    \/ \E r \in Resource : RenewCall(n, r) \/ Thread(n, r) \/ Lapse(n, r) \/ Stall(n, r)

\* Threads and loops run on; a slot that is free again and again is found by the
\* node that asks for it; what is not renewed runs out.
CascadeFairness ==
  \A n \in Node :
    /\ WF_cascadeVars(RenewReturn(n)) /\ WF_cascadeVars(MonitorDone(n))
    /\ SF_cascadeVars(Monitor(n) /\ queue' # queue /\ downloading' # downloading)
    /\ WF_cascadeVars(Monitor(n))
    /\ \A r \in Resource :
         WF_cascadeVars(Thread(n, r)) /\ WF_cascadeVars(Lapse(n, r))

CascadeSpec == CascadeInit /\ [][CascadeNext]_cascadeVars /\ CascadeFairness

----------------------------------------------------------------------------
(* Properties *)

Pulls(n, r) == thread[n][r] = "pulling"

\* concurrent_source_downloads "specifies the number of nodes that can
\* concurrently download" an image: cascade implements N permits for each
\* resource, where a download without a permit is one whose lease was lost.
InN == INSTANCE Downloads WITH
         Permits <- N,
         users <- [r \in Resource |-> {n \in Node : Pulls(n, r) /\ Holds(n, r)}],
         strays <- [r \in Resource |-> {n \in Node : Pulls(n, r) /\ ~Holds(n, r)}]
ImplementsDownloads == InN!Spec

\* A thread that ran to its end leaves no lease behind that would keep the other
\* nodes waiting, whatever the timer does after it, unless the call that releases
\* the lease failed ("blob lease released" is logged in either case).
LeaseReturned ==
  \A n \in Node, r \in Resource : thread[n][r] = "done" => ~Holds(n, r)

\* Without faults every node gets every image, however few slots there are.
AllLoaded == \A n \in Node : <>(monitor[n] = "done" \/ pullFaults > 0)

=============================================================================
