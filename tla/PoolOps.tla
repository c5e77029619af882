------------------------------ MODULE PoolOps -------------------------------
(***************************************************************************)
(* A pool from the client's side: the commands "pool add", "pool del",     *)
(* "pool resize", "pool nodes del" and "pool nodes reboot" of one client   *)
(* (convoy/fleet.py, convoy/batch.py, convoy/storage.py), the pool's       *)
(* storage containers, and its Linux nodes running the start task of       *)
(* NodePrep.  Batch itself (allocation, deletion, rebooting) is external.  *)
(* "running" is folded into "idle": jobs are not modelled here.            *)
(*                                                                         *)
(* cfg     the settled configuration the client holds                      *)
(* want    its node count, which the user edits before a resize            *)
(* pool    st, target, alloc (resizing or steady), error (a resize error)  *)
(* nodes   per node its Batch state, disk, live and why its start task     *)
(*         failed ("script" and "cascade": something it needs is not       *)
(*         there; "fault": from outside)                                   *)
(* store   the pool's container ("there", "going", "none") and what the    *)
(*         pool's containers and tables hold                               *)
(* cli     the client: pc, the command, whether an add follows a deletion, *)
(*         the pool and nodes as last read, the nodes still to reboot, the *)
(*         one it polls, the nodes there were before a resize, whether     *)
(*         unusable nodes were deleted since the last resize, reboots per  *)
(*         node, what the last command said                                *)
(***************************************************************************)
EXTENDS TaskConfig

CONSTANTS
  Nodes,        \* the nodes Batch can allocate
  PoolConfigs,  \* the configurations a client may start from
  Commands(_),  \* the commands that may be issued under a configuration
  MaxCommands,  \* bound on commands
  MaxFaults,    \* bound on faults of nodes, Batch and the user
  MaxReboots,   \* _MAX_REBOOT_RETRIES
  DeleteFaults  \* may Batch refuse to delete a pool that is recreated?

ASSUME PoolAssumption ==
  /\ PoolConfigs \subseteq Configs
  /\ \A c \in PoolConfigs : ~Windows(c)
  /\ MaxCommands \in Nat /\ MaxFaults \in Nat /\ MaxReboots \in Nat
  /\ DeleteFaults \in BOOLEAN

VARIABLES cfg, want, pool, nodes, store, cli, issued, faults
vars == << cfg, want, pool, nodes, store, cli, issued, faults >>

NodeStates == {"absent", "rebooting", "starting", "cascade", "idle", "failed",
               "unusable", "preempted", "leaving"}
NoNode == [st |-> "absent", disk |-> {}, live |-> {}, why |-> "none"]
NoPool == [st |-> "none", target |-> 0, alloc |-> "steady", error |-> "none"]
Idling(report) ==
  [pc |-> "ready", cmd |-> "none", then |-> "none", got |-> NoPool,
   seen |-> [n \in {} |-> "idle"], due |-> {}, polled |-> {}, old |-> {},
   deleted |-> FALSE, reboots |-> [n \in Nodes |-> 0], report |-> report]

Present == {n \in Nodes : nodes[n].st # "absent"}
In(st) == {n \in Nodes : nodes[n].st = st}

\* The configurations that are accepted, the files they upload and the scripts
\* their nodes run.
Settings == {Settled(c) : c \in {d \in PoolConfigs : Accepts(d)}}
Uploads == [c \in Settings |-> ResourceFiles(c) \cup CertificateFiles(c)]
Hopeless == {c \in Settings : CannotPrepare(c)}
TasksNeed == [c \in Settings |-> Needs(c)]
Scripts == [c \in Settings |-> [boot \in Boots |-> Script(c, boot)]]

Adds == {"add", "addnowait", "addrecreate"}
ASSUME CommandsAssumption ==
  \A c \in Settings :
    Commands(c) \subseteq Adds \cup {"del", "delwait", "resize", "resizewait", "delfailed",
                                   "delstarting", "delallunusable", "rebootfailed"}

Init ==
  /\ cfg \in Settings
  /\ want = cfg.dedicated + cfg.lowpri
  /\ pool = NoPool /\ nodes = [n \in Nodes |-> NoNode]
  /\ store = [container |-> "none", holds |-> {}]
  /\ cli = Idling("none") /\ issued = 0 /\ faults = 0

----------------------------------------------------------------------------
(* The client *)

Goto(p) == cli' = [cli EXCEPT !.pc = p]
Return(said) == cli' = Idling(said)

Issue(c) ==
  /\ cli.pc = "ready" /\ issued < MaxCommands
  /\ issued' = issued + 1
  /\ want' \in IF c \in {"resize", "resizewait"} THEN 1..Cardinality(Nodes) ELSE {want}
  /\ cli' = [Idling("none") EXCEPT !.cmd = c,
               !.pc = IF c \in Adds THEN "exists"
                      ELSE IF c \in {"del", "delwait"} THEN "delpool" ELSE c]
  /\ UNCHANGED << cfg, pool, nodes, store, faults >>

\* pool add: an existing pool is an error, or is deleted first.
CheckExists ==
  /\ cli.pc = "exists"
  /\ IF pool.st = "none" THEN Goto("create")
     ELSE IF cli.cmd = "addrecreate"
     THEN cli' = [cli EXCEPT !.pc = "delpool", !.then = "create"]
     ELSE Return("error")
  /\ UNCHANGED << cfg, want, pool, nodes, store, issued, faults >>

\* pool del: a pool that does not exist or is being deleted counts as deleted;
\* any other answer of Batch is logged, nothing is cleaned up, and an add goes on.
DelPool ==
  /\ cli.pc = "delpool"
  /\ \/ /\ pool' = IF pool.st = "active" THEN [pool EXCEPT !.st = "deleting"] ELSE pool
        /\ Goto("cleanup") /\ UNCHANGED faults
     \/ /\ cli.then = "create" => DeleteFaults
        /\ pool.st = "active" /\ faults < MaxFaults
        /\ faults' = faults + 1 /\ UNCHANGED pool
        /\ IF cli.then = "create" THEN Goto("create") ELSE Return("ok")
  /\ UNCHANGED << cfg, want, nodes, store, issued >>

\* cleanup_with_del_pool: clear the tables, which must exist, then delete the
\* containers.
Cleanup ==
  /\ cli.pc = "cleanup"
  /\ IF "tables" \notin store.holds
     THEN Return("error") /\ UNCHANGED store
     ELSE /\ store' = [container |-> IF store.container = "there" THEN "going" ELSE store.container,
                       holds |-> {"tables"}]
          /\ IF cli.then = "create" \/ cli.cmd = "delwait" THEN Goto("gone") ELSE Return("ok")
  /\ UNCHANGED << cfg, want, pool, nodes, issued, faults >>

AwaitGone ==
  /\ cli.pc = "gone" /\ pool.st = "none"
  /\ IF cli.then = "create" THEN Goto("create") ELSE Return("ok")
  /\ UNCHANGED << cfg, want, pool, nodes, store, issued, faults >>

\* create_storage_containers tries until the container exists: one that is
\* being deleted does not, for a while.
CreateContainers ==
  /\ cli.pc = "create" /\ store.container # "going"
  /\ store' = [container |-> "there", holds |-> store.holds \cup {"tables"}]
  /\ Goto("clear")
  /\ UNCHANGED << cfg, want, pool, nodes, issued, faults >>

ClearContainers ==
  /\ cli.pc = "clear"
  /\ store' = [store EXCEPT !.holds = {"tables"}]
  /\ Goto("populate")
  /\ UNCHANGED << cfg, want, pool, nodes, issued, faults >>

\* Mutant: pools that delay their images are taken for native ones.
PopulateUnlessNative ==
  /\ cli.pc = "populate"
  /\ store' = [store EXCEPT !.holds = @ \cup Opt(~Native(cfg), "globals")]
  /\ Goto("upload")
  /\ UNCHANGED << cfg, want, pool, nodes, issued, faults >>

PopulateGlobals ==
  /\ cli.pc = "populate"
  /\ store' = [store EXCEPT !.holds = @ \cup Opt(Cascades(cfg), "globals")]
  /\ Goto("upload")
  /\ UNCHANGED << cfg, want, pool, nodes, issued, faults >>

\* _construct_pool_object looks things up, may raise, and uploads the files.
ConstructPool ==
  /\ cli.pc = "upload"
  /\ IF Constructs(cfg)
     THEN store' = [store EXCEPT !.holds = @ \cup {"files"}] /\ Goto("pooladd")
     ELSE Return("error") /\ UNCHANGED store
  /\ UNCHANGED << cfg, want, pool, nodes, issued, faults >>

\* Gluster and file transfer wait for the nodes whatever the user asked; a pool
\* that exists by now is only logged.
AddPool ==
  /\ cli.pc = "pooladd"
  /\ pool' = IF pool.st # "none" THEN pool
             ELSE [st |-> "active", target |-> want, alloc |-> "resizing", error |-> "none"]
  /\ IF cli.cmd = "addnowait" /\ ~On(cfg, "gluster") /\ ~On(cfg, "transfer")
     THEN Return("ok") ELSE Goto("get")
  /\ UNCHANGED << cfg, want, nodes, store, issued, faults >>

----------------------------------------------------------------------------
(* _block_for_nodes_ready: a round reads the pool, then the nodes, reboots *)
(* or deletes some, and ends the wait when all nodes are there.            *)

Stopping == {"failed", "unusable", "preempted", "idle"}
EndStates == {"preempted", "idle"}
Read == [n \in Present |-> nodes[n].st]

\* Which resize errors end the wait.
Fatal(p) ==
  \/ p.error = "cores"
  \/ p.error = "lowpricores" /\ cfg.dedicated = 0
  \/ p.error = "timeout" /\ (cfg.dedicated > 0 \/ p.alloc = "steady")

ReadPool ==
  /\ cli.pc = "get"
  /\ IF pool.st = "none" \/ Fatal(pool) THEN Return("error")
     ELSE cli' = [cli EXCEPT !.pc = "list", !.got = pool]
  /\ UNCHANGED << cfg, want, pool, nodes, store, issued, faults >>

\* With start task failures the nodes are rebooted or the wait ends; only
\* without any are unusable nodes looked at, which are deleted or end it.
ReadNodes ==
  /\ cli.pc = "list"
  /\ LET failed == In("failed")
         unusable == In("unusable") IN
     IF \/ failed # {} /\ ~On(cfg, "reboot")
        \/ failed = {} /\ unusable # {} /\ ~On(cfg, "recover")
     THEN Return("error")
     ELSE cli' = [cli EXCEPT !.seen = Read, !.due = failed,
                    !.pc = IF failed # {} THEN "reboot"
                           ELSE IF unusable # {} THEN "delunusable" ELSE "check"]
  /\ UNCHANGED << cfg, want, pool, nodes, store, issued, faults >>

\* Batch forgets what a rebooting node had running.
Rebooted(n) == [nodes[n] EXCEPT !.st = "rebooting", !.live = {}, !.why = "none"]

\* Mutant: reboots are not counted.
RebootFailedAgain(n) ==
  /\ cli.pc = "reboot" /\ n \in cli.due
  /\ IF nodes[n].st \in {"absent", "leaving"}
     THEN Return("error") /\ UNCHANGED nodes
     ELSE /\ nodes' = [nodes EXCEPT ![n] = Rebooted(n)]
          /\ cli' = [cli EXCEPT !.pc = "poll", !.due = @ \ {n}, !.polled = {n}]
  /\ UNCHANGED << cfg, want, pool, store, issued, faults >>

\* _reboot_node of a failed node, unless it had its reboots.
RebootFailed(n) ==
  /\ cli.pc = "reboot" /\ n \in cli.due
  /\ IF cli.reboots[n] > MaxReboots \/ nodes[n].st \in {"absent", "leaving"}
     THEN Return("error") /\ UNCHANGED nodes
     ELSE /\ nodes' = [nodes EXCEPT ![n] = Rebooted(n)]
          /\ cli' = [cli EXCEPT !.pc = "poll", !.due = @ \ {n}, !.polled = {n},
                       !.reboots[n] = @ + 1]
  /\ UNCHANGED << cfg, want, pool, store, issued, faults >>

\* It polls until it sees the node rebooting, and misses that if it is slow.
PollReboot ==
  /\ cli.pc = "poll"
  /\ \A n \in cli.polled : nodes[n].st \in {"rebooting", "absent"}
  /\ IF \E n \in cli.polled : nodes[n].st = "absent" THEN Return("error")
     ELSE cli' = [cli EXCEPT !.polled = {},
                    !.pc = IF cli.due # {} THEN "reboot" ELSE "check",
                    !.seen = IF cli.due # {} THEN @ ELSE Read]
  /\ UNCHANGED << cfg, want, pool, nodes, store, issued, faults >>

\* Batch takes a removal or a resize only in a steady pool.  A removal lowers
\* the pool's target.
RemoveNodes(ns) ==
  /\ nodes' = [n \in Nodes |-> IF n \in ns THEN [nodes[n] EXCEPT !.st = "leaving"] ELSE nodes[n]]
  /\ pool' = [pool EXCEPT !.target = @ - Cardinality(ns), !.alloc = "resizing", !.error = "none"]
Resized == [pool EXCEPT !.target = want, !.alloc = "resizing", !.error = "none"]

\* attempt_recovery_on_unusable: del_nodes of those that are unusable now.
DeleteUnusable ==
  /\ cli.pc = "delunusable"
  /\ LET unusable == In("unusable") IN
     IF unusable # {} /\ pool.alloc # "steady"
     THEN Return("error") /\ UNCHANGED << nodes, pool >>
     ELSE /\ cli' = [cli EXCEPT !.pc = "check", !.deleted = TRUE]
          /\ IF unusable = {} THEN UNCHANGED << nodes, pool >> ELSE RemoveNodes(unusable)
  /\ UNCHANGED << cfg, want, store, issued, faults >>

\* The end of a round, over what was read before nodes were deleted.
AllThere ==
  /\ Cardinality(DOMAIN cli.seen) = cli.got.target
  /\ \A n \in DOMAIN cli.seen : cli.seen[n] \in Stopping
InEndStates == \A n \in DOMAIN cli.seen : cli.seen[n] \in EndStates
Reissues == /\ cli.deleted /\ Cardinality(DOMAIN cli.seen) < cli.got.target
            /\ cli.got.alloc # "resizing"

Check ==
  /\ cli.pc = "check"
  /\ IF AllThere THEN (IF InEndStates THEN Goto("post") ELSE Return("error")) /\ UNCHANGED pool
     ELSE IF ~Reissues THEN Goto("get") /\ UNCHANGED pool
     ELSE IF pool.alloc = "steady"
     THEN pool' = Resized /\ cli' = [cli EXCEPT !.pc = "get", !.deleted = FALSE]
     ELSE Return("error") /\ UNCHANGED pool
  /\ UNCHANGED << cfg, want, nodes, store, issued, faults >>

\* What follows the wait.  An add without a node is an error; gluster is set up
\* on an added pool, and on a resized one that grew to the wanted count.  Users
\* and file transfers that fail are logged.
Post ==
  /\ cli.pc = "post"
  /\ IF cli.cmd \in Adds /\ DOMAIN cli.seen = {} /\ pool.target > 0 THEN Return("error")
     ELSE IF ~On(cfg, "gluster") \/ (cli.cmd \notin Adds /\ cli.then # "grow") THEN Return("ok")
     ELSE IF cli.cmd \notin Adds /\ Cardinality(Present) # want THEN Return("error")
     ELSE Goto("gluster")
  /\ UNCHANGED << cfg, want, pool, nodes, store, issued, faults >>

\* _setup_glusterfs: a task over all nodes, which waits until each is idle.
SetupGluster ==
  /\ cli.pc = "gluster" /\ Present # {} /\ Present = In("idle")
  /\ \/ /\ nodes' = [n \in Nodes |->
                    IF n \in Present \ cli.old
                    THEN [nodes[n] EXCEPT !.live = @ \cup {"gluster"}, !.disk = @ \cup {"fstab_gluster"}]
                    ELSE nodes[n]]
        /\ Return("ok") /\ UNCHANGED faults
     \/ /\ faults < MaxFaults /\ faults' = faults + 1
        /\ Return("error") /\ UNCHANGED nodes
  /\ UNCHANGED << cfg, want, pool, store, issued >>

----------------------------------------------------------------------------
(* The other commands on a pool *)

ResizePool ==
  /\ cli.pc \in {"resize", "resizewait"}
  /\ LET current == Cardinality(Present) IN
     IF pool.st # "active" THEN Return("error") /\ UNCHANGED pool
     ELSE IF current = want /\ pool.target = want THEN Return("nothing") /\ UNCHANGED pool
     ELSE IF \/ On(cfg, "gluster") /\ cfg.lowpri > 0 /\ want > current
             \/ pool.alloc = "resizing"
     THEN Return("error") /\ UNCHANGED pool
     ELSE /\ pool' = Resized
          /\ IF cli.pc = "resize" /\ ~On(cfg, "gluster") THEN Return("ok")
             ELSE cli' = [cli EXCEPT !.pc = IF want < current THEN "shrinking" ELSE "get",
                                     !.then = IF want > current THEN "grow" ELSE "none",
                                     !.old = Present]
  /\ UNCHANGED << cfg, want, nodes, store, issued, faults >>

\* A wait for fewer nodes starts when one leaves.
AwaitShrinking ==
  /\ cli.pc = "shrinking"
  /\ Cardinality(Present) # Cardinality(cli.old) \/ In("leaving") # {}
  /\ Goto("get")
  /\ UNCHANGED << cfg, want, pool, nodes, store, issued, faults >>

\* pool nodes del --all-...: none to delete is a warning.
DelNodes(command, st) ==
  /\ cli.pc = command
  /\ IF In(st) # {} /\ pool.alloc # "steady"
     THEN Return("error") /\ UNCHANGED << nodes, pool >>
     ELSE /\ Return("ok")
          /\ IF In(st) = {} THEN UNCHANGED << nodes, pool >> ELSE RemoveNodes(In(st))
  /\ UNCHANGED << cfg, want, store, issued, faults >>

\* pool nodes reboot --all-start-task-failed, whose answers nobody looks at.
RebootNodes ==
  /\ cli.pc = "rebootfailed"
  /\ nodes' = [n \in Nodes |-> IF nodes[n].st = "failed" THEN Rebooted(n) ELSE nodes[n]]
  /\ Return("ok")
  /\ UNCHANGED << cfg, want, pool, store, issued, faults >>

\* The user ends the client.
Interrupt ==
  /\ cli.pc # "ready" /\ faults < MaxFaults
  /\ faults' = faults + 1 /\ Return("interrupted")
  /\ UNCHANGED << cfg, want, pool, nodes, store, issued >>

----------------------------------------------------------------------------
(* Batch.  The names of nodes are used again; a node the client still      *)
(* knows keeps its name until the client is done with it.                  *)

BatchStep(newPool, newNodes) ==
  pool' = newPool /\ nodes' = newNodes /\ UNCHANGED << cfg, want, store, issued >>
Fault == faults < MaxFaults /\ faults' = faults + 1 /\ UNCHANGED cli
To(n, st) == [nodes EXCEPT ![n].st = st]

\* A new node; Batch loads the images of a native pool before the start task.
Allocate(n) ==
  /\ pool.st = "active" /\ pool.alloc = "resizing"
  /\ nodes[n].st = "absent" /\ n \notin cli.due \cup cli.polled
  /\ Cardinality(Present) < pool.target
  /\ BatchStep(pool, [nodes EXCEPT ![n] =
       [NoNode EXCEPT !.st = "starting",
          !.disk = Shipped(cfg) \cup Opt(Native(cfg) /\ ~Delayed(cfg), "images")]])
  /\ cli' = [cli EXCEPT !.reboots[n] = 0, !.old = @ \ {n}] /\ UNCHANGED faults

Release(n) ==
  /\ pool.st = "active" /\ pool.alloc = "resizing"
  /\ n \in Present \ In("leaving")
  /\ Cardinality(Present \ In("leaving")) > pool.target
  /\ BatchStep(pool, To(n, "leaving")) /\ UNCHANGED << cli, faults >>

Leave(n) == /\ nodes[n].st = "leaving"
            /\ BatchStep(pool, [nodes EXCEPT ![n] = NoNode]) /\ UNCHANGED << cli, faults >>

Steady ==
  /\ pool.st = "active" /\ pool.alloc = "resizing"
  /\ In("leaving") = {} /\ Cardinality(Present) = pool.target
  /\ BatchStep([pool EXCEPT !.alloc = "steady"], nodes) /\ UNCHANGED << cli, faults >>

\* A resize ends short of its target.
FallShort(error) ==
  /\ pool.st = "active" /\ pool.alloc = "resizing"
  /\ In("leaving") = {} /\ Cardinality(Present) < pool.target
  /\ BatchStep([pool EXCEPT !.alloc = "steady", !.error = error], nodes) /\ Fault

PoolDeleted ==
  /\ pool.st = "deleting"
  /\ BatchStep(NoPool, [n \in Nodes |-> NoNode]) /\ UNCHANGED << cli, faults >>

ContainerDeleted ==
  /\ store.container = "going" /\ store' = [store EXCEPT !.container = "none"]
  /\ UNCHANGED << cfg, want, pool, nodes, cli, issued, faults >>

RestartNode(n) ==
  /\ nodes[n].st = "rebooting"
  /\ BatchStep(pool, To(n, "starting")) /\ UNCHANGED << cli, faults >>

BecomeUnusable(n) ==
  nodes[n].st = "idle" /\ BatchStep(pool, To(n, "unusable")) /\ Fault
Preempt(n) ==
  nodes[n].st = "idle" /\ cfg.lowpri > 0 /\ BatchStep(pool, To(n, "preempted")) /\ Fault
\* Also in the middle of cascade.
RebootByOthers(n) ==
  /\ nodes[n].st \in {"idle", "cascade"}
  /\ BatchStep(pool, [nodes EXCEPT ![n] = Rebooted(n)]) /\ Fault

----------------------------------------------------------------------------
(* A node's start task *)

Files == IF "files" \in store.holds THEN Uploads[cfg] ELSE {}

\* The node after some steps of its script.
After(node, steps) == [node EXCEPT !.disk = DiskAfter(steps, @), !.live = LiveAfter(steps, @)]
Failed(node, why) == [node EXCEPT !.st = "failed", !.why = why]
DownAgain(node) == [node EXCEPT !.st = "rebooting", !.live = {}]

\* It runs as far as it can: the node reboots itself, fails, is up, or goes on
\* to cascade with the marks on its disk.
StartTask(n) ==
  /\ nodes[n].st = "starting"
  /\ LET node == nodes[n]
         boot == Boot(node.disk)
         script == Scripts[cfg][boot]
         goesOn == boot = "first" /\ RunsCascade(cfg) IN
     \E blocked \in {Blocked(script, Files, node.disk)} :
     LET running == Running(script, blocked)
         reboots == LisReboots(running, node.disk) IN
     \/ \E last \in running :
          /\ \E step \in reboots : step.at <= last.at
          /\ BatchStep(pool, [nodes EXCEPT ![n] =
               DownAgain(After(node, {step \in running : step.at <= last.at}))])
     \/ /\ blocked # {} /\ reboots = {}
        /\ BatchStep(pool, [nodes EXCEPT ![n] = Failed(After(node, running), "script")])
     \/ /\ blocked = {} /\ reboots = {}
        /\ BatchStep(pool, [nodes EXCEPT ![n] =
             [After(node, script) EXCEPT
                !.st = IF goesOn THEN "cascade" ELSE "idle",
                !.disk = @ \cup {"node_prep_finished"}
                           \cup Opt(goesOn /\ Flag(cfg, "d"), "cascade_failed")]])
  /\ UNCHANGED << cli, faults >>

\* A package server, a registry or a mount fails a step that would have worked,
\* or the node is rebooted in the middle of its script.
StartTaskFault(n) ==
  /\ nodes[n].st = "starting" /\ faults < MaxFaults
  /\ LET script == Scripts[cfg][Boot(nodes[n].disk)]
         running == Running(script, Blocked(script, Files, nodes[n].disk)) IN
     \E k \in {0} \cup {step.at : step \in running} :
       LET node == After(nodes[n], {step \in running : step.at <= k}) IN
       \/ BatchStep(pool, [nodes EXCEPT ![n] = Failed(node, "fault")])
       \/ BatchStep(pool, [nodes EXCEPT ![n] = DownAgain(node)])
  /\ Fault

\* The script waits for cascade only when it blocks; images come later otherwise.
\* When it fails there, the next boot is a first one again.
Unfinished(node) == [node EXCEPT !.disk = @ \ {"node_prep_finished"}]
RunCascade(n) ==
  /\ nodes[n].st = "cascade"
  /\ IF CascadeFiles(cfg) \subseteq Files
     THEN /\ On(cfg, "block") => ImagesCome(cfg)
          /\ BatchStep(pool, [nodes EXCEPT ![n] =
               [nodes[n] EXCEPT !.st = "idle",
                  !.disk = (@ \ {"cascade_failed"}) \cup Opt(On(cfg, "block"), "images")]])
     ELSE BatchStep(pool, [nodes EXCEPT ![n] = Failed(Unfinished(nodes[n]), "cascade")])
  /\ UNCHANGED << cli, faults >>

\* Its image cannot be pulled, or it ends with an error while the script waits.
CascadeFault(n) ==
  /\ nodes[n].st = "cascade"
  /\ \/ /\ Flag(cfg, "d")
        /\ BatchStep(pool, [nodes EXCEPT ![n] = Failed(nodes[n], "fault")])
     \/ /\ On(cfg, "block")
        /\ BatchStep(pool, [nodes EXCEPT ![n] = Failed(Unfinished(nodes[n]), "fault")])
  /\ Fault

----------------------------------------------------------------------------

Client ==
  \/ CheckExists \/ DelPool \/ Cleanup \/ AwaitGone
  \/ CreateContainers \/ ClearContainers \/ PopulateGlobals \/ ConstructPool \/ AddPool
  \/ ReadPool \/ ReadNodes \/ (\E n \in Nodes : RebootFailed(n)) \/ PollReboot
  \/ DeleteUnusable \/ Check \/ Post \/ SetupGluster
  \/ ResizePool \/ AwaitShrinking \/ RebootNodes
  \/ DelNodes("delfailed", "failed") \/ DelNodes("delstarting", "starting")
  \/ DelNodes("delallunusable", "unusable")
BatchWorks ==
  \/ Steady \/ PoolDeleted \/ ContainerDeleted
  \/ \E n \in Nodes : Allocate(n) \/ Release(n) \/ Leave(n) \/ RestartNode(n)
NodeWorks(n) == StartTask(n) \/ RunCascade(n)
Faulty ==
  \/ Interrupt \/ \E error \in {"cores", "lowpricores", "timeout"} : FallShort(error)
  \/ \E n \in Nodes : BecomeUnusable(n) \/ Preempt(n) \/ RebootByOthers(n)
                      \/ StartTaskFault(n) \/ CascadeFault(n)

Next == \/ (\E c \in Commands(cfg) : Issue(c)) \/ Client \/ BatchWorks
        \/ (\E n \in Nodes : NodeWorks(n)) \/ Faulty

Fairness == /\ WF_vars(Client) /\ WF_vars(BatchWorks)
            /\ \A n \in Nodes : WF_vars(NodeWorks(n))
Spec == Init /\ [][Next]_vars /\ Fairness

----------------------------------------------------------------------------
(* Properties *)

TypeOK ==
  /\ cfg \in Configs /\ want \in Nat
  /\ pool \in [st : {"none", "active", "deleting"}, target : Nat,
               alloc : {"resizing", "steady"},
               error : {"none", "cores", "lowpricores", "timeout"}]
  /\ nodes \in [Nodes -> [st : NodeStates, disk : SUBSET STRING, live : SUBSET STRING,
                           why : {"none", "script", "cascade", "fault"}]]
  /\ store.container \in {"none", "there", "going"}
  /\ issued \in 0..MaxCommands /\ faults \in 0..MaxFaults

\* Whatever combination of image, size and options was accepted, every file and
\* variable a step of the start task needs was uploaded and passed: in a pool that
\* is not being deleted no start task fails by itself, on no boot, but for the
\* combinations above, after a cascade that failed (the mark stays), and on a
\* custom image rebooted before gluster was set up.
PrepEnds ==
  \A n \in Nodes : pool.st = "active" =>
    /\ nodes[n].why # "cascade"
    /\ nodes[n].why = "script" =>
         \/ cfg \in Hopeless
         \/ "cascade_failed" \in nodes[n].disk
         \/ On(cfg, "gluster") /\ Custom(cfg) /\ "fstab_gluster" \notin nodes[n].disk

\* A node that takes tasks has what every task that "jobs add" accepts for this pool
\* takes for granted: its runner, runtime, volumes, devices, libraries and keys, from
\* whichever of the start tasks that were interrupted and rerun.  It runs
\* Docker and the collectors, and holds the images the pool blocks on when cascade runs in a
\* container.
NodesReady ==
  \A n \in Nodes : nodes[n].st = "idle" =>
    /\ cfg \notin Hopeless
    /\ TasksNeed[cfg] \subseteq nodes[n].live \cup nodes[n].disk \cup Uploads[cfg]
    /\ Served(cfg) \subseteq nodes[n].live
    /\ "node_prep_finished" \in nodes[n].disk
    /\ On(cfg, "block") /\ (On(cfg, "container") \/ ~Cascades(cfg))
         => "images" \in nodes[n].disk /\ "cascade_failed" \notin nodes[n].disk

\* While a pool is there its storage holds the files its nodes download on each
\* boot and the list of images cascade works through, although adding and deleting
\* the pool clear that storage in steps and may be interrupted between them.
StoreFits ==
  pool.st = "active" =>
    "files" \in store.holds /\ (Cascades(cfg) => "globals" \in store.holds)

\* The waits the code can be left in: for a reboot it missed, for nodes Batch will
\* not allocate, for images nothing brings, for gluster on a node that is not idle.
Stuck ==
  \/ cli.pc = "poll"
  \/ pool.error # "none" /\ cli.pc \in {"get", "list", "check"}
  \/ In("cascade") # {} /\ ~ImagesCome(cfg)
  \/ cli.pc = "gluster" /\ Present # In("idle")

\* Every command ends, or stays in one of these waits for good: deleting, creating,
\* resizing and the rounds of reboots and recoveries all come to an end.
CommandsEnd == []<>(cli.pc = "ready") \/ <>[]Stuck
============================================================================
