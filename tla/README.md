# TLA+ for Batch Shipyard

Models and proofs about the parts of Batch Shipyard in which several processes,
calls or failures meet: the federation proxy, the commands of the CLI that create
and use Azure resources, the nodes of a pool, and the Azure services between
them. TLC checks the modules on small instances; TLAPS proves the safety properties
of the federation, of the CLI's jobs, of image replication, of Slurm and of the commands
on VMs for every value of the constants.

Run from this directory:

    tlc -workers 2 -config FedActions_ha.cfg MCFedActions.tla
    tlapm FedActionsProofs.tla

A path without a directory is relative to `src/` or its module's package
(`federation/`, `convoy/`, `slurm/`, `cascade/`, `cargo/`, `scripts/`); bare line
numbers in sections about the federation are of `federation/federation.py`.

## 1. Inventory

### The federation

State outside any process: per federation an action queue, a message blob per
action, an entity per job id with the packed sequence of its action ids
(`Sequence0..14`), location entities (which pool a job is on, with a
`TerminateTimestamp`), blocked-action entities, and one `global.lock` blob that
all proxies share. Everything is in Azure storage: every call is remote, may
fail, and any process may die before the next one.

| Component | State | Operations | Hard behaviour | What makes it correct |
|---|---|---|---|---|
| action pipeline (`storage.py` 1180-1328, 1603-1744; 1214-1416, 2959-3123) | sequences, blobs, messages, location and blocked entities | submit, zap, fetch, read head, execute, pop, delete message | commands and proxies interleave between any two calls; messages come twice and out of order; crash between execution, blob deletion, pop and acknowledgement | no action is lost; order within a job; a message for every waiting id |
| global lock (962-986, 3125) | the lease; each proxy's `lease_id` | acquire, renew, drop | synchronous work blocks the renewal timer | one proxy at a time inside a queue |
| event loop (1618-1684, 2727-2784, 3095-3184) | known federations, their pools, `Federation.lock` | two coroutines, worker threads, a timer | a `threading.Lock` held across an `await`, a dictionary iterated across an `await` | locks are given back, every message is served |
| job actions (636-682, 2410-2654, 2786-2957) | Batch jobs, location entities, the black list of pools | add, add schedule, terminate, delete over several pools and accounts | re-execution after a crash; Batch errors taken for success; two pools of one account | a job with tasks can always be found again; a delete leaves none, or can be repeated |
| tasks of an add (694-879, 2656-2725) | `task_map`, sub-collections, the job's tasks | renumber, slice, add, halve, retry | threads; requests that are too large; answers that get lost; ids of other groups | no task lost, no id used twice, no false report of success |
| pool cache and selection (1427-2367) | `FederationPool` entries, node counts and blackouts | refresh, filter, greedy choice | entries built from pools that are away, re-created or unreadable; counts used after tasks were sent | a chosen pool meets the constraints on fresh counts; no job is blocked that a pool could take |
| management CLI (`storage.py` 895-1176) | federation and pool tables | create, destroy, add and remove pools | changes while a proxy works | a removed pool is left alone |

### The rest of the repository

| Component | State | Operations | Hard behaviour | What makes it correct |
|---|---|---|---|---|
| pool orchestration (`fleet.py`, `batch.py` 520-1030) | pool, nodes, the pool's storage | add, del, recreate, resize, delete and reboot nodes | the client polls what Batch does by itself; recovery reboots and deletes nodes; storage cleared and filled in steps | commands end; storage fits the pool |
| pool configuration (`settings.py`, `fleet.py` 800-1900) | the configuration | read, check, adjust; files, command line and environment of the start task | thirty-eight options that exclude or need each other | what is accepted can be prepared |
| node preparation (`shipyard_nodeprep.sh`, `shipyard_cascade.sh`) | the node's disk, mounts and services | first boot, later boots, cascade | interrupted anywhere and run again; marks on the disk | an idle node is complete |
| task configuration (`settings.py` 3800-4500, `batch.py` 4362-4948) | one task against one pool | accept, build command line and mounts | the node is prepared from other settings than the task | an accepted task finds what it needs |
| CLI jobs (`batch.py` 1730-2330, 5056-5900) | jobs, schedules, tasks, task maps | add, recreate, term, del, migrate, disable, enable | jobs complete under the command; two commands at once | tasks get free ids; a job does not end early; a migration resumes |
| recurrent job manager (`cargo/recurrent_job_manager.py`) | the task map of a schedule | submit, monitor, terminate | restarted anywhere | each run is whole and ends |
| image replication (`cascade.py`) | slot blobs, lease maps, threads | lease, pull, renew, release | thread and timer share maps without a lock; leases get lost | bounded downloads, every image arrives |
| Slurm (`slurm/slurm.py`, `convoy/slurm.py`) | host table, action and assignment queues | resume, suspend, resume failed, registration | messages twice, daemon on each controller, stale node ids | a node registers once, and no daemon removes another host's node |
| VM resources (`remotefs.py`, `monitor.py`, `federation.py`, `convoy/slurm.py`, `resource.py`) | VMs, interfaces, addresses, networks, disks | create, resize, expand, suspend, start, delete | no record: what exists is found by name; failure at any call | what failed can be deleted and made again; true reports |
| resource monitor service, data movement, autoscale, task factories, validation, credentials, command line | none beyond the call they make | | text generation, `ssh`, SDK wrappers | not modelled (section 6) |

The components interact only through Azure. Commands and proxies never talk to each
other; the client and a node share the start task's command line and the
pool's storage; slurmctld, the Slurm daemons and the nodes share a table and two
queues. Within a proxy the event loop runs the lock timer, refreshes the pool
cache with threads and runs the pipeline; the pipeline calls the job actions;
these select pools and submit tasks.

`PROJECT.json` has every component with its status and every hazard with its
line and the properties that are about it.

## 2. Modules

    JobActionQueue <--refines-- FedActions --assumes(Overrun)--> GlobalLock
                                    |  actions in order, again after a fault
                                    v
               FedPools --a pool--> FedJobs --its tasks in detail--> FedTasks
    EventLoop : what surrounds FedActions in one proxy process

    PoolConfig <- NodePrep <- TaskConfig <- PoolOps      (each EXTENDS the one before)
    Downloads <--refines-- Cascade     (what the start task of NodePrep runs last)
    CliJobs    Slurm    VmResource

| Module | Of what | Proofs |
|---|---|---|
| `JobActionQueue` | what a federation promises for one job: a queue of accepted actions, only its head is performed, and it leaves when performed or withdrawn | |
| `FedActions` (`MCFedActions`) | one TLA+ action per storage or Batch call of commands and proxies | `FedActionsProofs` |
| `GlobalLock` | the lease in discrete time | `ProxyProofs` |
| `EventLoop` | coroutines, threads and locks of one proxy | `ProxyProofs` |
| `FedJobs` (`MCFedJobs`) | add, terminate and delete of one job id over pools and accounts | `FedJobsProofs` |
| `FedTasks` (`MCFedTasks`) | renumbering and submission of the tasks of one add | `FedJobsProofs` |
| `FedPools` (`MCFedPools`) | the cached pools of a federation and the choice of one | `FedPoolsProofs` |
| `PoolConfig` | what a pool configuration becomes | `PoolProofs` |
| `NodePrep` | what each step of the start task needs and leaves | `PoolProofs` |
| `TaskConfig` | which tasks a pool accepts and what they need on a node | `PoolProofs` |
| `PoolOps` (`MCPoolOps`) | the pool commands, the storage and the nodes | `PoolProofs` |
| `Downloads` | a counting semaphore whose permits may get lost | |
| `Cascade` | monitor, threads and lease timers of the nodes of a pool | `PoolProofs` |
| `CliJobs` | job and task commands, and the recurrent job manager | `CliJobsProofs` |
| `Slurm` (`MCSlurm`) | daemons, controllers, nodes and the host table | `SlurmProofs` |
| `VmResource` | the commands on VMs outside of Batch | `VmResourceProofs` |

Definitions marked "Mutant" are the plausible mistakes each property is tested
against: the property is violated when the definition is replaced.

### FedActions

A command goes through `Upload` (the blob), `ReadSequence`, `Upsert` (insert, or
conditional merge with retry), `PutMessage`; the error paths are `RollBack` (the
add command deletes its blob, terminate and delete do not) and `PutFails`. A
proxy fetches up to `BatchMax` messages (`Fetch`), and for each reads the *head
of the job's sequence*, not the message's own id (`ReadHead`,
`get_first_sequence_id_for_job`), reads its blob (`GetBlob`), executes it
(`Execute`, `Block`, `ExecuteRaises`), deletes the blob (`DeleteBlob`), pops
(`PopRead`, `PopWrite`: read, then conditional update or delete) and deletes the
message (`DeleteMessage`, which needs the latest pop receipt). An exception
leaves the loop over the messages (`Abort`). Messages become visible again at
any time, so a message can be fetched by several proxies. `receipt` records whose
pop receipt is valid. `retired`, `log` and `voided` are history.

Abstracted: the etag is the content of the sequence; what an action does to
pools is whether the job has location entities afterwards.

### GlobalLock

`Tick` advances the lease, each proxy's timer and the remaining blocked time of
its loop. `LeaseGlobalLock` runs only when the loop is free and 5 seconds have
passed since its last run. `StartPass`, `ResumePass` and `UpdateFederations`
block the loop for up to `MaxBlock`. The names carry `Lock` (`LockInit`, `LockSpec`)
because `ProxyProofs` extends both this module and `EventLoop`.

### EventLoop

`StartUpdate`/`EndUpdate` and the threads `AddFederation`, `UpdatePools`
(which need `Federation.lock`); `StartIteration`, `NextFederation`, `Process`,
`Await`, `EndPass` of the processing coroutine. States that own the loop exclude
each other (`LoopFree`). Python ends an iteration over a dictionary whose size
changed with an exception outside the loop's `try`: that is `proc = "dead"`.

### FedJobs

`FindTarget`, `Create`, `CleanUp`, `WaitDeleted` are `create_job` in the loop of
`add_job_v1`; `Track`, `Schedule`, `Retrack` the steps after it (location entity
first, then tasks, then the entity again). `BatchCall` and `WriteEntity` are one
coroutine of `delete_or_terminate_job_v1` per location entity, in any order;
`CoroutineRaises` ends one with an exception, which nobody retrieves after
`asyncio.wait` (2950): the action goes on and is done.
`Interrupt` is a crash or an exception that leaves the action, after which the
same action starts again. Which pool fits is left open; `FedPools` says which.
The names carry `Jobs` (`JobsInit`, `JobsSpec`) because `FedJobsProofs` extends this module
and `FedTasks`.

### FedTasks

`Begin` is the start of `schedule_tasks`: it asks Batch for the tasks in the job
and takes the next number, or leaves everything as it is for groups with
dependencies. `Renumber` and `KeepCustom` go through the sorted ids and change
the dictionary `task_map` while it is being visited. `StartThreads` cuts the list
into slices of `Width`, `AddChunk` is one `add_collection` call with every
outcome of it (all added, request too large: halve, server errors for some of
the tasks, an answer that got lost, another Batch error: chunk passed over),
`RetryFailed` repeats failed tasks, `EndSubmission` joins. Task ids are numbers,
or model values for custom ids; `suffixed` says that the job holds ids of another group to
which a unique suffix was appended (`batch.py:6051`), from which no number can be read.

### FedPools

Per pool the service's answer (`batch`), the federation entity (`listed`) and the
cached entry: `cp` (`cloud_pool`), `vm` (`vm_props`), `name` (`_vm_size`), `cnt`
(`node_counts`), `due` (no counts, or older than their span), `dark` (the
blackout). `UpdateFederation` is `update_federations` with its threads, failed
reads and threads that raise; `Refresh` is the update before the filter;
`SelectPool` the hard filter, the node filter and the greedy choice of the least
sufficient pool per class of nodes; `CreateJob` and `ScheduleTasks` the calls of
`add_job_v1`. `Constraint` holds what `job_federation_constraint_settings` accepts: one
class of nodes only if it is allowed, a VM size or its properties. The ratio of backlog to slots is left to the environment; registries,
locations and images are features a pool has or lacks (`Feats`).

### PoolConfig, NodePrep, TaskConfig, PoolOps

`PoolConfig` is the configuration as a record of image, kind of VM size and set of
options, with operators for what `fleet.py` and `settings.py` make of it: `Accepts`
(the exceptions of the readers), `Adjusted` (options set or dropped), `Constructs`
(the exceptions of the construction), and the three things that reach a node:
`ResourceFiles`, `Flags`, `Environment`. `NodePrep` has one operator per step of the
start task, what it needs and what it leaves on the disk or running, and strings
the steps into the scripts of a first boot, of a reboot after success and of a
reboot after a failed cascade; a script is the set of its steps with their places, `Blocked`
are the steps whose needs are not met, `Running` those before the first of them. `TaskConfig` has acceptance (`TaskAccepted`) and needs
(`TaskNeeds`) of a task on such a pool. Nothing but text that is passed along connects
these three, so their agreement is what `PoolOps` checks, over every sequence of
boots: the client (`cli.pc` is the place in the command), the pool's storage
container in its steps, Batch (allocation, resize errors, preemption, unusable
nodes) and each node, which goes through its script (`StartTask`), then through the cascade
(`RunCascade`), and may be rebooted between any two steps. `running` is folded into `idle`.

### Cascade

`Monitor` is one round of the coroutine (`_direct_download_resources_async`), which
leases a slot (`Lease`) and starts a thread; the thread is `PullAndSave`,
`CancelTimer`, `ReleaseLease` (whose exception is only logged: `kept`), `EndThread`; the
timer is `RenewCall`, `RenewReturn`,
which interleave with the thread because they share the maps without a lock. `Lapse`
ends a lease that is not renewed. Its names carry a prefix (`CascadeInit`, `CascadeNext`,
`cascadeVars`) because one module proves about it and `PoolOps`.

### CliJobs

A command (`cmd[c]`) is at one label per Batch call; `ScheduleOrders` and `JobOrders`
say which command does what in which order, read off the `fleet.action_*` and
`batch.*` functions. `AddAutoJob`, `Recreate`, `AddScratch`, `List`, `Submit`,
`PatchJob`, `UploadMap`, `AddSchedule` are `add_jobs`; `CheckMigration` to `Enable` the
migration; `JmSubmit`, `JmMonitor`, `JmRestart` the recurrent job manager. Its end is the
end of a run if `KillOnCompletion`; with `cfg.full` it leaves its tasks no slot
(`SlotFree`), which `jobs add` only warns of. Batch's own
transitions (`TaskEnds`, `JobCompletes`, `JobTransition`, `RunSchedule`) interleave.

### Slurm

`ResumeHosts`, `SuspendHosts`, `ResumeHostsFailed` are slurmctld's programs on a
controller, which only write the queue; `Take` to `WaitEnds` the daemon, one
action per table, queue or Batch call; `NodeBoots` to `CompleteWrites` a compute node:
it takes a token, checks the host's entity and replaces it, whatever is there by then
(`update_entity` without `if_match`, `slurm.py:601`).

### VmResource

`Creates`, `ClusterResizes` and `Deletes` give, per kind (storage cluster, monitor, proxy,
Slurm cluster), the calls in the order the code makes them, as a record from each call to
the one after it. A command begins with one of `ClusterCreate` to `SlurmCreate`, `Resize` or
`ClusterDelete` to `SlurmDelete`, which look for the VMs; then one action per call, with the
outcomes success, an exception because of what is found (a resource that exists, a Slurm
pool that cannot join), and failure after some of the VMs. `Keys` are the VMs a delete acts
on: those it finds, or by prefix all. `parts` are the entities and queues of the Slurm
partitions, `joined` the pools whose start task joins the cluster, "port80" in `shared` the
rule under which the monitor gets its certificate. What happens on the VMs is one step per
kind (`ClusterExts`, `MonitorExts`, `ProxyExts`, `SlurmExts`). A further data disk is
attached to a VM when the VM is created (`CreateVms`) or by `Expand`.

## 3. What the runs check

| Run | What it checks | Bounds and why they suffice |
|---|---|---|
| `fed_ha` | `NoActionLost`; `FifoPerJob`; `ImplementsPromise` (refinement of `JobActionQueue`) | two proxies, three actions of one job, one zappable, one fault. A lost or repeated action needs two actions and one adverse event; the third shows what is behind them in the sequence. Jobs share nothing but the proxies |
| `fed_live` | `UniqueJobIds`, `EveryActionRetired` | add, delete, add with unique job ids, one proxy, one fault of any kind including a failed blob read; these are about commands against a proxy |
| `lock_lease` | `OneWorker`, `Takeover` | three proxies; units of 2.5 s, lease 6, period 2, blocked for at most 4; two faults are enough for a holder and its successor to fail |
| `loop_serve` | `LocksFreeForUpdate`, `AllServed` | two federations, one pool, two messages, four changes |
| `jobs_actions` | `TasksTracked`, `DeleteComplete`, `OneSchedule`, `SearchEnds` | every sequence of three actions; two pools in one account and one in another: both the shared and the separate case; one interruption, one Batch error |
| `tasks_submit` | `NothingLost`, `NoCollision`, `ReportTrue`, `Handled` | up to three generated and two custom ids (one sorting before the prefix) and `Width` 2, so up to three threads and slices that are halved; numbers of others 0 and 1, or ids without a number; two Batch errors, one crash |
| `fed_pools` | `FreshCounts`, `Placement`, `MatchEnds` | two pools of two sizes, four kinds of job (any nodes, dedicated and exclusive with a feature, low priority and multi-instance, ratio), one pool that goes away or changes and one failed call: each is enough to make one cached entry wrong while the other pool competes |
| `pool_ops` | `PrepEnds`, `NodesReady`, `StoreFits`, `CommandsEnd` | 25 configurations: every family of Linux image with plain, GPU, network-direct and SR-IOV sizes and sets of options that go together; two commands, one fault, one node, and two where the recovery or gluster needs them. A wrong agreement between files, flags and script shows on one node |
| `cascade_pull` | `LeaseReturned`, `ImplementsDownloads` (refinement of `Downloads`), `AllLoaded` | two nodes, one image, one slot, two faults: two users of one slot are what the lease must keep apart |
| `cli_jobs` | `AddsAll`, `NoEarlyEnd`, `MapKept`, `MigrationResumes`, `RunsEnd`, `RunsWhole` | two clients, two commands in all, each way to end the run of a schedule, one new task (and scratch or merge tasks), two runs of a schedule, one fault; one client with three commands and two new tasks passes as well |
| `slurm_faults` | `TokenHasEntity`, `RegistersWhileResuming`, `RemovesOwnNodes` | two hosts, three nodes, two controllers, one resume, one fault of any kind; a third node lets a host's replacement meet a stale id. Hosts and daemons are symmetric (the properties are safety) |
| `vm_resource` | `PrefixCleans`, `ReportsTrue`, `CommandsEnd` | four kinds, up to three VMs (one kept, one new, one more), two failed calls, every sequence of commands; the second failure is that of the command that repairs the first |

Every bound is a named constant. Deadlock is checked in `lock_lease`, where time
goes on for ever, and in `fed_pools`, whose proxy can always match again. The other
systems come to rest: when all commands are given and handled, proxies, daemons and
nodes only poll, and polling an empty queue changes nothing.

Conditions in the passing properties:

- `AllServed` leaves out executions in which the loop is stuck or the coroutine is
  dead, which section 4 shows to exist.
- `ReportTrue` leaves out executions in which a chunk was passed over.
- `TasksTracked`, `DeleteComplete` and `OneSchedule` leave out, account by account, the job
  whose delete call failed without notice (`orphaned`). `DeleteComplete` allows a job whose
  coroutine raised to be left, with its entity.
- `NothingLost` has the condition under which renumbering is safe, `Handled` leaves
  out groups that can never be handled: with custom ids only or early ones, or in a job with
  suffixed ids.
- `LeaseReturned` leaves out threads whose release call failed.
- `RegistersWhileResuming` is about executions in which nodes fail, reboot and are slow, but
  messages are handled once and in time and no call raises (`faults.calm`).
- `RunsEnd` leaves out runs that nothing is to end: neither `auto_complete` nor
  `monitor_task_completion`, or the latter without a slot beside the job manager.
- `FreshCounts` leaves out the two ways the code leaves open (`excused`), `Placement`
  compares the chosen pool with the service's answer only when the cached entry is
  `Settled`.
- `PrepEnds` and `NodesReady` leave out configurations that cannot be prepared
  (`CannotPrepare`: `Hopeless`), a start task after a failed cascade, a custom image that is
  rebooted before gluster is set up, and images on a node whose cascade outside of a
  container was interrupted. `CommandsEnd` of `PoolOps` leaves out the waits of `Stuck`.
- `TaskConfig` leaves out the tasks of `CannotRun`.
- `AddsAll`, `NoEarlyEnd` and `MigrationResumes` are about commands no other command
  overlaps; `MapKept` and `RunsWhole` leave out schedules harmed by an add of a schedule
  that exists, and lost tasks.
- `PrefixCleans` leaves out the availability set and containers of a Slurm cluster, and
  the partitions and joined pools, which a delete by prefix does not look at either.
- `AllLoaded` is about executions without faults.

Each is a statement about the code: what is left out happens, and section 4 says how.

### Fairness

- `FedActions`: a proxy that is up handles the message it has; it is
  started again when it died (`restart: unless-stopped`,
  `federation/docker-compose.yml:7`, and `Restart=always` in
  `scripts/shipyard_federation_bootstrap.sh`); an expired lease is taken, one that
  nobody renews expires; a failing renewal is noticed. Weak fairness each, as
  these stay enabled. The queue redelivers every message again and again: strong
  fairness, as other messages may be picked meanwhile. `ClientFairness` says that
  a command is not killed between its last two calls.
- `GlobalLock`: time passes and due timers run.
- `EventLoop`: what is ready runs. Strong fairness for what waits until the
  loop is free, because it is taken and released again and again.
- `FedJobs`, `FedTasks`, `FedPools`: the proxy goes on with an action, Batch ends a
  deletion; in `FedPools` nothing else is assumed of Batch.
- `Cascade`: threads, the event loop and expiring leases go on; strong fairness for the
  round of the monitor that gets a slot, because slots are taken and released again and
  again.
- `PoolOps`, `VmResource`: a command that is not dead makes its next call; in `PoolOps` Batch
  finishes what it began (a deletion, an allocation it can do) and nodes go on with
  their start task.
- `CliJobs`: the job manager goes on, and Batch ends jobs and, as long as they have a slot
  (`SlotFree`), tasks; nothing is assumed of the commands, which may stop anywhere.
- `Slurm` has no liveness property, and its specification no fairness.

Nothing is assumed of crashes and errors but that there are finitely many.

## 4. What the code does otherwise than documented or expected

Each item names how a model shows it, or that it was read in the code while the
model was written. None has a run of its own: the twelve runs are those whose
properties hold, and every item below is one change of a constant or property away.

### The federation

1. The lock is checked only between messages, against the own `lease_id`. A proxy
   whose lease runs out inside a message finishes it, and an older action may be
   executed after a newer one, although docs/68-batch-shipyard-federation.md:59-61
   guarantees FIFO order within a job (`Overrun = TRUE` in `FedActions_ha.cfg`:
   `FifoPerJob`). With `GlobalLock` one sees when: a pass that blocks the loop
   for longer than a lease leaves after a timer period (10 s) is enough (`MaxBlock = 5`
   breaks `OneWorker`), and so is a renewal that fails while an action of the same proxy
   awaits (`AwaitFaults = TRUE`).
2. Any exception of the blob read (3075) is taken for a zap: the action is popped
   without being executed (`BlobFaults = TRUE` in `FedActions_ha.cfg`: `NoActionLost`).
3. A refresh that starts while an action awaits blocks the loop on a lock only the
   blocked loop could release (1628, 2780, 3096; `UpdatesEnd` in `EventLoop_serve.cfg`).
4. A failed terminate call gets its `TerminateTimestamp` (660-669, 2890, 2906;
   `TerminateEffective` in `FedJobs_actions.cfg`), and the location entity of a job that
   Batch refused to delete goes. Any other exception of a delete or terminate coroutine, or
   of its write to the table, stays in its task: `asyncio.wait` (2950) returns, nobody asks
   for it, and the action is retired with the job alive (`CoroutineRaises`). Its entity is
   left, so a second delete finds it; nothing tells the user that one is needed.
5. Renumbering inside the dictionary being visited overwrites tasks of the same group
   (2700-2704), although docs/68:369-373 says that task groups of jobs of the same
   name are put together (`GroupComplete` in `FedTasks_submit.cfg` with `MaxOther = 2`).
6. A command killed between the sequence entry (`storage.py:1308`) and
   `put_message` leaves an id without a message: with `MortalClientSpec` in place
   of `FairSpec`, `EveryActionRetired` fails for the *next* action of the job,
   whose message retires the stranded id instead of its own.
7. A federation that is added while an action awaits changes the size of the
   dictionary under iteration and ends the processing coroutine for good
   (`proc = "dead"` in `EventLoop`).
8. A custom task id that sorts before the prefix, or a group with custom ids only,
   makes `schedule_tasks` raise whenever the action is executed (2705); the message
   comes back each time (the condition of `Handled`).
9. `_submit_task_sub_collection` passes over a chunk after a Batch error other
   than a too large request, and reports success (`dropped` in `FedTasks`).
10. After a crash a group is renumbered again, above the numbers it already has in
    the job: tasks are in the job twice.
11. A pool entry built while the pool cannot be read stays invalid until the pool is
    removed and added again or the proxy restarts (1445, 1640-1652); one built while the pool
    is not active has no VM size, so a size constraint never matches and a GPU or
    InfiniBand constraint ends the match with an `AttributeError` (154, 1835-1851); a
    re-created pool keeps the properties of the old one. This is why `Placement` needs `Settled`.
    A memory constraint with the suffix `m`, which docs/68:227 allows and the command
    accepts, raises in `ComputeNodeConstraints` (213-226) whenever the action is executed.
12. A blackout may end between the refresh and the filter of one match, and an error of
    `set_auto_complete` after the tasks were added skips `on_new_tasks_scheduled` (2717):
    counts from before are used (`excused`). A failed read of a pool during its
    blackout drops the blackout. `_pool_last_update` is never set, so every match reads
    every pool; an exception of an `update_pool` thread is swallowed (2766-2772), and the
    pool trimmed and built again; `_update_federation` returns early, keeping the
    old pools, when none is listed (2763); a node-count answer without entries aborts
    the match (570).
13. The tier of dedicated nodes comes first: a pool with a backlog or autoscale is
    preferred to an idle low-priority pool with room.
14. When the job holds ids with the prefix and no number at the end, such as those with the
    unique suffix that a group with dependencies gets (`batch.py:6051`), `int()` raises a
    `ValueError` that is not caught (733-736), at every execution: a group with generated ids
    is never added (the condition of `Handled`). Numbers longer than the
    zero-filling sort wrongly; retried tasks are looked up by keys without the suffix
    after dependencies were rewritten; a merge task keeps its old dependencies
    (`batch.py:6100`).

### Pools, nodes and tasks

15. A wait for a node to be rebooting polls once a second and misses a node
    that is through already (`batch.py:580-590`); a resize error that is not fatal leaves the
    wait for ever (657-690); both are `Stuck`. The list of nodes is not read again
    after the recovery deleted some (741-790); the resize that should follow
    practically never happens, and the command succeeds with fewer nodes (790-797).
16. `pool add --recreate` logs an error of the deletion other than "does not exist"
    and goes on: it clears the storage of the pool that is still there, and only logs that
    it exists (`fleet.py:3500-3511`, `batch.py:943-955`; `DeleteFaults = TRUE` in
    `PoolOps_pool.cfg`: `StoreFits`). `pool del` of a pool that was never added raises.
17. A cascade that failed or was interrupted in a container leaves a mark after which every
    later boot fails: the reboot that `reboot_on_start_task_failed` promises
    (docs/13:356-359) cannot help. Interrupted outside of a container it leaves the node idle
    without the images in spite of `block_until_all_global_resources_loaded` (docs/13:376).
    Both are exceptions of `PrepEnds` and `NodesReady`.
18. Accepted configurations whose start task always fails (`CannotPrepare`): images for
    Singularity to wait for without the runtime, RDMA sizes on an image without drivers,
    network-direct sizes on an image that is neither native nor listed, auto scratch on
    Ubuntu 18.04, decryption on a native pool without delay, which does not get its
    variable. "native" on other images is silently ignored. `install_intel_mpi` cannot be
    repeated (`mkdir tmp`). Gluster volumes are mounted again after a reboot on custom
    images only, and the resize script mounts them elsewhere on new nodes.
19. Accepted tasks that cannot run (`CannotRun`): Singularity tasks, or, when Singularity
    images are configured, any task that is not native, on a pool without the runtime (job preparation
    waits for all images, `batch.py` 5256-5283); `auto_scratch` on a pool without
    `per_job_auto_scratch` (4902-4911: tasks depend on a task that is never added); a
    multi-instance Docker task with `restrict_default_bind_mounts`, whose container does
    not have the runner that `docker exec` calls (`settings.py` 4006-4028,
    `shipyard_docker_exec_task_runner.sh:43`; docs/14:602-612 does not say so).
20. `infiniband` of a job is read and dropped (`settings.py:4255`; docs/14:459 and 1044
    say it applies). Volumes of a task are appended to the job specification's own list:
    later tasks inherit them, and a second task that names the same volume raises
    (3972, 4053-4063). Two multi-instance tasks of a job with one image share a
    container's name.
21. `autoscale enable` on a pool with gluster is not refused as creation would refuse it
    (1645-1680); `nodes del` flags are alternatives (`elif`); results of the reboots are
    not looked at.

### Jobs on the command line

22. `jobs add` of a schedule that exists overwrites its task map and deletes it when the
    add fails (5744-5747); of two first adds at once the failing one deletes the map of the
    other. `MapKept` leaves these out (`harmed`).
23. Exceptions in the threads of a submission are swallowed: "submitted all tasks" though a
    chunk is lost; a merge task and the job manager (`recurrent_job_manager.py:225`)
    then wait for ever. Concurrent adds choose the same ids and skip tasks. Added to an
    auto-completing job, a chunk may come too late.
24. `--recreate` does nothing for a job that is completing, not completed (5574). `migrate`:
    an error of the update leaves the job disabled, an error of enable is swallowed (2214);
    with `--jobscheduleid` it takes all configured jobs (docs/20:655). `tasks del --wait`
    waits for the last task only (2318; docs/20:669). A merge id built from an empty list
    collides.
    Nothing ends the runs of a schedule with neither `auto_complete` nor
    `monitor_task_completion`, which `jobs add` accepts after a question (5411-5423). The check
    for a slot beside the job manager (5424-5450) sums the nodes under one conditional:
    without `allow_low_priority_node` the total is 0, never 1, and the user is not asked
    though there is one dedicated slot; `run_exclusive` on a single node is not looked at
    either (docs/14-batch-shipyard-configuration-jobs.md:405-445; `RunsEnd` without its
    condition).

### Image replication

25. `_DIRECTDL` admits N+1 threads (`>` for `>=`); after a lost renewal the thread's
    `finally` raises `KeyError` and the resource stays in the set of downloads; one failed
    pull ends the loop, so the leases of the node's other pulls lapse; an error other
    than a conflict when leasing loses the resource. An error of the
    release is logged and the thread ends with the slot leased (400-402), although "blob lease
    released" is logged next; if a renewal was under way meanwhile, its timer is set again and
    the slot stays leased as long as the node's loop runs. All are actions of `Cascade`.

### Slurm

26. A resume message that is delivered again after an exception never adds nodes; hosts
    that are provisioned are resumed again (975-977); a message with an unknown host is
    poison (1187-1208); waiting messages carry "host partition" lines where hosts are
    expected (1262-1266); errors of a suspend are swallowed and the host marked suspended,
    so its node stays; a stale node can mark a host interrupted that is up; the row key
    hash drops the pool id (`storage.py:1751`, `convoy/slurm.py:233`);
    a registration is written without a condition, although "this must process sucessfully
    with no etag collision" (600-602; `storage.py:1236` passes `if_match` where a
    condition is meant), so that after a message handled twice or late, or a call that raised,
    a node replaces what a suspend, a recovery or another node wrote
    (`RegistersWhileResuming` without `faults.calm`);
    `reset_batch_creds` uses attributes that do not exist; `executor.submit(f(...))` runs
    nothing in a thread.

### VM resources

27. `fed proxy create` always raises: it goes through `async_ops['vmext']` before that key
    exists (`convoy/federation.py:351`), after the VM is there.
28. docs/65-batch-shipyard-remote-fs.md:395 says a normal delete works after a failure with
    any VM created; interfaces and addresses without a VM stay, and the security
    group they use cannot be deleted. `--generate-from-prefix` does (`PrefixCleans`).
    A virtual network with `existing_ok: false` blocks the next create.
29. A failed `add-brick` is only logged: the next resize finds no new VM, and a later one of
    another VM reports "resized" while bricks are missing (`remotefs.py` 1100-1168). An
    expansion whose script failed after disks were attached finds no new disks when repeated
    and never grows; a VM without new disks ends it with a `KeyError` (1373). A resize from one VM
    raises at the availability set. Any `mount_options` of an NFS cluster raise (109).
30. Slurm clusters: the availability set stays; `--delete-resource-group` raises
    (`convoy/slurm.py` 985-990); tables and queues are deleted only if VM 0 is found (1062);
    pools keep the cluster's metadata and start task after a delete and are skipped by the next
    create, so they keep the old key (100-118).

### Data movement (read only)

31. The join of split files (`cat dst.*`, `rm -f dst.*`) takes in sibling files; a failing
    ingress is only logged; a failing ssh user is swallowed and its ingress skipped.

## 5. What is proved

For every value of the constants, from the named `ASSUME` of each module: the
constants have the types and bounds their use in the code gives them, and
`Fed`, `Resource`, `Account`, `Pool`, `Host` and `Node` are finite. The numbers of
faults, changes and commands are bounds of the runs; the proofs hold for all of them.

| Theorem | Statement | Assumes further |
|---|---|---|
| `FedActionsProofs!TypeCorrect` | `Spec => []TypeOK` | |
| `FedActionsProofs!ExecutedInOrder` | `Spec => []FifoPerJob` | `Overrun = FALSE` |
| `FedActionsProofs!OneWorkerAtTheHead` | one proxy inside a message, working on the head | `Overrun = FALSE` |
| `FedActionsProofs!NothingLost` | `Spec => []NoActionLost` | `Overrun = FALSE`, `BlobFaults = FALSE` |
| `FedActionsProofs!KeepsThePromise` | `Spec => ImplementsPromise` | the same |
| `FedActionsProofs!JobIdsAreUnique` | `Spec => []UniqueJobIds` | `Overrun = FALSE` |
| `ProxyProofs!LeaseExcludes` | `[](OneWorker /\ OneBeliever)` of `GlobalLock` | `Period + MaxBlock <= LeaseTime`, `AwaitFaults = FALSE` |
| `ProxyProofs!TypeCorrect`, `OnlyAwaitsBlock` | of `EventLoop`: `TypeOK`, `LocksFreeForUpdate` | |
| `FedJobsProofs!JobsAreTracked`, `DeletesAreComplete`, `SchedulesAreAlone`, `JobsTypeCorrect` | `TasksTracked`, `DeleteComplete`, `OneSchedule`, `JobsTypeOK` | |
| `FedJobsProofs!NumbersAreFree`, `RenumberingKeepsTasks`, `ReportsAreTrue`, `TasksTypeCorrect` | `NoCollision`, `NothingLost`, `ReportTrue`, `TypeOK` | |
| `FedPoolsProofs!CountsAreFresh`, `JobsArePlaced`, `TypeCorrect` | `FreshCounts`, `Placement`, `TypeOK` | |
| `PoolProofs!EndedReturned`, `CascadeImplementsDownloads`, `TypeCorrect` | of `Cascade`: `LeaseReturned`, `ImplementsDownloads`, `CascadeTypeOK` | |
| `PoolProofs!IdleNodesAreReady` | `Spec => []NodesReady` of `PoolOps` | |
| `PoolProofs!PoolsKeepTheirFiles`, `StartTasksGoThrough` | `StoreFits`, `PrepEnds` of `PoolOps` | `DeleteFaults = FALSE` |
| `CliJobsProofs!TasksAreAdded`, `JobsAwaitTheirTasks`, `MapsAreKept`, `MigrationsResume`, `RunsAreWhole`, `TypeCorrect` | `AddsAll`, `NoEarlyEnd`, `MapKept`, `MigrationResumes`, `RunsWhole`, `TypeOK` | |
| `SlurmProofs!NamesHaveEntities`, `NodesRegisterInTime`, `OwnNodesRemoved`, `TypeCorrect` | `TokenHasEntity`, `RegistersWhileResuming`, `RemovesOwnNodes`, `TypeOK` | |
| `VmResourceProofs!PrefixDeleteCleans`, `CommandsReportTruly`, `TypeCorrect` | `PrefixCleans`, `ReportsTrue`, `TypeOK` | |

The further hypotheses are needed: with `Overrun`, `BlobFaults` or `DeleteFaults` set to
`TRUE`, or a longer `MaxBlock`, TLC finds the property violated (section 4, items 1, 2
and 16).

**FedActions.** `FifoPerJob` is not inductive: it does not say which action is
executed next. `OrderInv` adds that only the holder of the lease is inside a
message (`Exclusive`), that sequences hold ids of their job (`SeqOwned`), and
that what a proxy works on is the head of its job's sequence until the pop
(`AtHead`): nobody else pops, and commands only append at the other end.
`Ordered` adds that whatever was executed is popped or is the head, so that the
next execution comes after all earlier ones in `retired \o seqs`. Every step
appends to this sequence, moves its boundary or executes at the boundary
(`QueueStep`, `JobStep`).
For `NoActionLost`, `LossInv` adds that an id in a sequence has its blob, or was
executed or withdrawn (`Accounted`), and that what a proxy is about to pop is
done (`PopIsDone`). `KeepsThePromise` maps the same steps to `Accept`,
`Withdraw`, `Perform` and `Retire`; `AtHead` gives the guard of `Perform`,
`PopIsDone` that of `Retire`. For `UniqueJobIds`, an add is
accepted only by an insert, as the first action of a new entity (`FirstOnly`,
`MergesNoAdd`); an entity is deleted only by the pop that empties its sequence, while
the job has no locations (`Guarded`); so an add at the head finds no locations but its
own (`OwnLocations`). The property is about locations and not about executions: after a
failed blob read two adds may both be executed, one after the delete of the other.

**GlobalLock.** A proxy that believes in its lease is the holder, and the time
left of the lease plus the time since its last timer run is at least the duration
(`Backed`); that time plus what its loop is still blocked for stays below
`Period + MaxBlock` (`Timely`). With `ShortWork` the lease therefore never runs
out under a believer, and only believers are inside a pass.

**EventLoop.** The lock that is held is that of the federation being processed
(`Holding`), threads run only while the refresh blocks the loop (`Joined`), and the
refresh does not start in the middle of a pass but for an await (`Blocking`). So a
thread that has to wait for a lock waits for an awaiting action; `Counted` is for
the types.

**FedJobs.** Tasks get into a job only between `track_job` and the end of an add,
with an entity of the target pool (`Tracking`, `OnTarget`); an entity goes only
after the job of its account was deleted, or Batch refused to (`Deleting`); a delete
covers all entities there are (`Covering`). For schedules: an add looks for a pool only while
there is no entity, so there is at most one (`AloneInTable`); an active schedule
without an entity, other than the one an add is about to track, was left by an
interruption, and each interruption leaves at most one (`FewStrays`). A coroutine that
raises leaves job and entity as they are; only a refused delete call takes the entity from
a job that lives, and that account is `orphaned` until the job is gone.

**FedTasks.** While ids are renumbered in sorted order, the numbers
`first..next-1` are above all used ones and what is left is exactly the generated
ids from `next - first` on (`NumbersOK`); then every task of the group is at a
known place of `task_map` (`Placed`), provided that `first` is 0 or above the
group's own numbers. For the report: everything a thread has passed is in the
job or the thread has an error or a retry pending, and the threads' slices of
`Width` cover the list.

**FedPools.** Counts from before a submission are due to be read (`OldAreDue`), so
after a refresh only a pool that is not valid still has them, and the filter drops it
(`OldNotKept`). For `Placement`: sorting by room is sound, a set of pools has one with
the most room (`MostIdleExists`, `MostAvailExists`); hence the greedy choice finds
nothing only when no candidate has room (`PickInRoom`), and prefers a pool that holds
the whole job if there is one (`PickFits`). The candidates of filter and
specification are compared pool by pool (`SuitsIsCandidate`, `CandidateSuits`).

**Cascade.** A resource is at most once in a node's queue (`Once`) and has no thread
meanwhile (`Waiting`), so a node that leases a slot for it does not pull it yet; a lease
belongs to a thread that has not released it (`Leased`) or failed to. The refinement counts the
free slots: each step of the thread, timer or lease is a `Start`, `End` or `Lose` of a
permit of its resource, or changes no permit.

**PoolOps.** The three theorems hold for every set of configurations of Linux nodes, not
only the 25 of the run: `PoolAssumption` asks for nothing else of them.
`StoreInv` says at each place in a command what the storage holds already and that
nothing is cleared under a living pool: an add clears only before there is one, a delete
only after, and the container is never going while a pool is active.
`NodesInv` follows each node through its boots by the marks on its disk: once
`node_prep_finished` is there, the first run left all it installs (`Marked`), and while the
node is up it also has what every boot mounts or starts (`Up`), however many runs were
interrupted before.
From there the rest is about tables, and is proved for every configuration:
`FlagsMean`, `EnvironmentMeans` and `FilesMean` say which option puts which flag,
variable and file there; `EveryBootMet`, `InstallMet` and `RestartMet` that a step's
files, flags and disk are there when the script comes to it, unless the configuration
cannot be prepared; `FirstRunGoes` and `LaterRunGoes` that the script therefore is not
blocked; `FirstRunLeaves`, `LaterRunLeaves` and `TasksFindAll` that what it leaves is what
the accepted tasks need. `StartTasksGoThrough` joins both (`PrepInv`): the files are in the
storage at every boot, so no step misses one.

**CliJobs.** `CmdInv`: a command is where its kind may be. `Data`: what records hold.
`Kinds`: what a configuration with or without recurrence can have. `MapThere` and
`RunGoes`: what the job manager relies on and has done. `Alone`: what a command that
nobody overlaps knows of the job from one call to the next; only its own steps and
Batch's need be looked at, since a command that is overlapped is not alone any more.

**Slurm.** An entity of the host table is never removed and is there before the token
(`StorageInv`, `JobsInv`). The node id in an entity is that of a node which carries the
host, and nodes keep their host (`OfNode`), so the node ids a daemon has read stay
nodes of its message however stale they are (`OwnNodes`). For `RegistersWhileResuming`
nothing in the write helps: it is the order of the messages. While only nodes fail, a host
is asked for, worked on, offered as a token or carried by a node at most once (`Sole`), so
there is one resume at a time; what its waiter, slurmctld and entity say follows from which
of these it is (`Awaited`); and a host with a suspend under way is off and keeps its node no
longer than the daemon needs (`Suspends`). Hence the last word on a host that is Resuming is
its node's, and a node that has read Resuming still finds it (`Reading`). `Calm` joins
these; a fault of any other kind ends the claim.

**VmResource.** What a command may rely on is where it is in its order of calls: `Making`
says which resources of the new VMs are there before each call of a create or resize,
`Deleting` which of the deleted VMs are gone, `FromNothing` what a create after a clean
delete cannot meet yet, so that it does not raise: a security group or a network that
exists, an availability set. `Within` says that nothing ever exists
without a configured VM whose name leads to it, which is why the names of a delete by prefix
cover what failed commands left. `CreateOrder`, `ResizeOrder` and `DeleteOrder` read the
orders once for all kinds, `MadeFacts` and `RemovedFacts` say what a call over several VMs
leaves when it ends well, raises or fails, and `CallEnds` what remains to be shown of a call
in any command.

Only model-checked:

- all liveness (`EveryActionRetired`, `Takeover`, `AllServed`, `SearchEnds`, `Handled`,
  `MatchEnds`, `AllLoaded`, `RunsEnd`, both `CommandsEnd`): fairness and `ENABLED` are
  out of the prover's reach.

Every invariant and every refinement of a run is proved.

Facts about recursive definitions for every input would need induction over data, which
the prover's library theorems cannot be instantiated for here; the modules that are
proved about use none.

## 6. Limits of the models

- Storage calls are atomic and take effect once: a call whose answer is lost is
  modelled only where the code can tell (the `faults` of each module).
- Actions of different jobs meet only in the proxies; `FedActions` has a job
  constant of its own (`TwoJobs`) but its runs use one.
- Which pool is chosen is free in `FedJobs`; the environment variables and commands
  that `fixup_task_for_mismatch` rewrites are left out. `FedPools` changes one pool and
  has one failed call; the expiry of node counts is part of a refresh.
- Proxies of different versions, and administrative changes of the tables while
  an action runs, are left out of all modules but `EventLoop` and `FedPools`.
- `PoolOps` has one client; `pool autoscale`, users, ssh tunnels and `pool images update`
  are left out, as are Windows nodes. A name of a node is used again after it was
  deleted. Between a start task that ended and the next, Batch downloads resource files
  and installs certificates again, as its documentation says; both are assumed. Federation overrides, user identities and gluster
  volumes (which are set up after the pool) are left out of `TaskConfig`; "custom" images
  are CentOS.
- `CliJobs` has one job or schedule in its configuration; task factories expand to a
  number of tasks; auto-pools and the clean-up of multi-instance jobs are left out.
- `Slurm` has one partition on one pool. `VmResource` takes a script on a VM for one
  step; managed disks come and go with the configuration; its Slurm clusters have two pools,
  each in a partition of its own (two pools of one partition share an entity, see 26),
  inbound rules are configured, so that there is a security group, and the monitor
  requests a certificate from Let's Encrypt. A resource group is deleted as a whole.

### Not modelled

| Part | Why |
|---|---|
| resource monitor service (`heimdall/`) | one loop that polls and rewrites a file from scratch; no state between two polls that could go wrong, its errors are retried by the next |
| data movement (`convoy/data.py`) | `scp`, `rsync`, `blobxfer` and copies of node files in threads that share a log; what can be wrong is in the command lines and file names, not in an order |
| autoscale formulas (`convoy/autoscale.py`) | text in another language, evaluated by Batch |
| task factories (`convoy/task_factory.py`) | recursive generators of parameters without state |
| schema validation, credentials, Key Vault, command line (`validator.py`, `aad.py`, `clients.py`, `crypto.py`, `keyvault.py`, `shipyard.py`, `misc.py`, `util.py`) | dictionaries, SDK clients, `openssl` and `ssh-keygen`, `click` callbacks that forward to `fleet.py`; no control state |
| performance reports (`cascade/perf.py`, `graph.py`) | stores and draws timings |
| Windows node preparation (`*.ps1`, `*.cmd`) | the same agreement as `NodePrep`, for other scripts; the models have Linux nodes only |
| listings, `ssh`, file streaming and statistics of every component | reads without effect |

About seventy percent of the implementation's lines are of these kinds, or are
the wording, logging and argument handling between the calls that are modelled.

## 7. Plan

What is left, most important first:

1. Liveness of a resume in `Slurm` under the fairness of `Batch` and the daemons; larger
   instances were seen to satisfy it without faults.
2. Windows nodes and autoscale in `PoolOps`; several partitions in `Slurm`.
