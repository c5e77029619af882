------------------------------- MODULE Slurm -------------------------------
(***************************************************************************)
(* The Slurm helper (slurm/slurm.py): hosts of an elastic partition that   *)
(* slurmctld powers up and down become nodes of a Batch pool.  The resume, *)
(* suspend and resume-fail scripts of slurmctld put messages on the action *)
(* queue of the cluster; the daemon, one on EVERY controller, takes them;  *)
(* a compute node takes a host name from the assignment queue and registers*)
(* itself in the host table.  The table entity of a host, written by all   *)
(* three without a lock, is all that ties a host to its node.              *)
(*                                                                         *)
(* One partition on one pool, so one assignment queue.  slurmctld, Batch   *)
(* and Azure Storage are external.  A message on the action queue is       *)
(* invisible for resume_timeout while a daemon has it; if the daemon dies, *)
(* raises or is too slow it is delivered again.                            *)
(***************************************************************************)
EXTENDS Naturals, FiniteSets

CONSTANTS
  Host, Node, Daemon,
  None,          \* no node, no daemon, no host
  MaxResumes,    \* bound: times slurmctld powers hosts up
  MaxMessages,   \* bound: messages on the action queue at once
  MaxFailures,   \* _MAX_RESUME_FAILURE_ATTEMPTS (10)
  MaxWaits,      \* resume_timeout / 30 (39)
  MaxFaults,     \* bound: faults of the kinds in Faulty
  Faulty         \* "redeliver", "raise", "slow", "node"

ASSUME SlurmAssumption ==
  /\ MaxResumes \in Nat /\ MaxMessages \in Nat \ {0}
  /\ MaxFailures \in Nat /\ MaxWaits \in Nat /\ MaxFaults \in Nat
  /\ Faulty \subseteq {"redeliver", "raise", "slow", "node"}
  /\ IsFiniteSet(Host) /\ IsFiniteSet(Node)
  /\ None \notin Host \cup Node \cup Daemon

VARIABLES
  \* Azure Storage
  entity,    \* host table: [Host -> [state, node]], state "None" without entity
  tokens,    \* assignment queue: [Host -> number of visible tokens]
  queue,     \* action queue: message id -> message
  \* Batch pool
  target,    \* target number of nodes
  phase,     \* [Node -> progress of the node through its start task]
  carries,   \* [Node -> host it was assigned, or None]
  \* controllers
  job,       \* [Daemon -> what process_*_action has done of its message]
  waiter,    \* [Host -> resume.sh waiting for the host]
  slurm,     \* [Host -> power state in slurmctld]
  addr,      \* [Host -> node whose address slurmctld has, or None]
  resumes,   \* times slurmctld ran resume.sh
  faults     \* how many so far, and whether they were all of nodes (calm)

storage == <<entity, tokens>>
batch == <<target, phase, carries>>
control == <<waiter, slurm, addr, resumes>>
vars == <<storage, queue, batch, job, control, faults>>

HostStates == {"Up", "Resuming", "ProvisionInterrupt", "Provisioned", "Suspended"}
Actions == {"Suspend", "Resume", "ResumeFailed", "WaitForResume"}
Ids == 1..MaxMessages

\* The start task: up, took a host name, rebooted under it, read that the host is
\* Resuming, registered; or failed; or removed from the pool.
Phases == {"unborn", "boot", "assigned", "named", "reading", "ready", "failed", "gone"}

\* full: hosts are "host partition" lines, not bare host names.
Message == [act : Actions, hosts : SUBSET Host, retry : 0..(MaxFailures + MaxWaits + 1),
            full : BOOLEAN, by : Daemon \cup {None}]

Labels == {"idle", "start", "entity", "token", "grow", "remove", "mark", "requeue",
           "announce", "clean", "recover", "expel", "again", "scontrol", "delete"}

Job == [at : Labels, id : Ids \cup {0}, act : Actions \cup {"None"},
        hosts : SUBSET Host, retry : Nat, full : BOOLEAN,
        todo : SUBSET Host, done : SUBSET Host, rest : SUBSET Host,
        nodes : SUBSET Node, cur : Host \cup {None}, clean : BOOLEAN]

TypeOK ==
  /\ entity \in [Host -> [state : HostStates \cup {"None"}, node : Node \cup {None}]]
  /\ tokens \in [Host -> Nat]
  /\ DOMAIN queue \subseteq Ids /\ \A i \in DOMAIN queue : queue[i] \in Message
  /\ target \in 0..Cardinality(Node)
  /\ phase \in [Node -> Phases] /\ carries \in [Node -> Host \cup {None}]
  /\ job \in [Daemon -> Job]
  /\ waiter \in [Host -> {"none", "wait", "seen"}]
  /\ slurm \in [Host -> {"off", "powering", "on", "down"}]
  /\ addr \in [Host -> Node \cup {None}]
  /\ resumes \in 0..MaxResumes /\ faults \in [count : 0..MaxFaults, calm : BOOLEAN]

NoJob == [at |-> "idle", id |-> 0, act |-> "None", hosts |-> {}, retry |-> 0,
          full |-> FALSE, todo |-> {}, done |-> {}, rest |-> {}, nodes |-> {}, cur |-> None,
          clean |-> FALSE]

Init ==
  /\ entity = [h \in Host |-> [state |-> "None", node |-> None]]
  /\ tokens = [h \in Host |-> 0] /\ queue = << >>
  /\ target = 0
  /\ phase = [n \in Node |-> "unborn"] /\ carries = [n \in Node |-> None]
  /\ job = [d \in Daemon |-> NoJob]
  /\ waiter = [h \in Host |-> "none"] /\ slurm = [h \in Host |-> "off"]
  /\ addr = [h \in Host |-> None]
  /\ resumes = 0 /\ faults = [count |-> 0, calm |-> TRUE]

----------------------------------------------------------------------------
(* Helpers *)

Fault(kind) ==
  /\ kind \in Faulty /\ faults.count < MaxFaults
  /\ faults' = [count |-> faults.count + 1, calm |-> faults.calm /\ kind = "node"]

Pool == {n \in Node : phase[n] \notin {"unborn", "gone"}}
Steady == Cardinality(Pool) = target

\* Entities are merged or replaced without regard to their etags.
Write(h, e) == entity' = [entity EXCEPT ![h] = e]

\* The queue with messages put on it, in a free slot.
FreeId(q) == CHOOSE i \in Ids : i \notin DOMAIN q
HasRoom(q) == Cardinality(DOMAIN q) < MaxMessages
Put(q, act, hosts, retry, full) ==
  LET id == FreeId(q)
      msg == [act |-> act, hosts |-> hosts, retry |-> retry, full |-> full, by |-> None] IN
  [i \in DOMAIN q \cup {id} |-> IF i = id THEN msg ELSE q[i]]

Without(q, i) == [j \in DOMAIN q \ {i} |-> q[j]]
Step(d, label) == job' = [job EXCEPT ![d].at = label]
Handling(d, act, label) == job[d].act = act /\ job[d].at = label

\* delete_queue_action_msg: with a pop receipt that is no longer valid it raises.
Finish(d) ==
  /\ job' = [job EXCEPT ![d] = NoJob]
  /\ LET i == job[d].id IN
     queue' = IF i \in DOMAIN queue /\ queue[i].by = d THEN Without(queue, i) ELSE queue

\* The process leaves its message as it is: the pop receipt is lost, the
\* message appears again when its visibility timeout ends.
Raise(d) ==
  /\ job' = [job EXCEPT ![d] = NoJob]
  /\ queue' = [i \in DOMAIN queue |->
                 IF queue[i].by = d THEN [queue[i] EXCEPT !.by = None] ELSE queue[i]]

----------------------------------------------------------------------------
(* slurmctld and the scripts it runs *)

\* resume.sh: a Resume message, and the script waits for the hosts by their
\* bare names.  slurmctld keeps a host down for SuspendTimeout after suspend.sh
\* ("slow": the helper was not done with the host by then).
SuspendPending(h) ==
  \/ \E i \in DOMAIN queue : queue[i].act = "Suspend" /\ h \in queue[i].hosts
  \/ \E d \in Daemon : job[d].act = "Suspend" /\ h \in job[d].hosts

ResumeHosts ==
  /\ resumes < MaxResumes /\ HasRoom(queue)
  /\ \E hs \in SUBSET {h \in Host : slurm[h] = "off" /\ waiter[h] = "none"} \ {{}} :
       /\ IF \E h \in hs : SuspendPending(h) THEN Fault("slow") ELSE UNCHANGED faults
       /\ queue' = Put(queue, "Resume", hs, 0, TRUE)
       /\ waiter' = [h \in Host |-> IF h \in hs THEN "wait" ELSE waiter[h]]
       /\ slurm' = [h \in Host |-> IF h \in hs THEN "powering" ELSE slurm[h]]
  /\ resumes' = resumes + 1
  /\ UNCHANGED <<storage, batch, job, addr>>

\* wait_for_host_assignment_entities of the script: it reads that the host is
\* Provisioned, then gives slurmctld the address and marks the host Up.
WaiterSees(h) ==
  /\ waiter[h] = "wait" /\ entity[h].state = "Provisioned"
  /\ waiter' = [waiter EXCEPT ![h] = "seen"]
  /\ addr' = [addr EXCEPT ![h] = entity[h].node]
  /\ UNCHANGED <<storage, queue, batch, job, slurm, resumes, faults>>

WaiterMarksUp(h) ==
  /\ waiter[h] = "seen"
  /\ Write(h, [entity[h] EXCEPT !.state = "Up"])
  /\ waiter' = [waiter EXCEPT ![h] = "none"]
  /\ UNCHANGED <<tokens, queue, batch, job, slurm, addr, resumes, faults>>

\* The script gives up after resume_timeout.
WaiterTimesOut(h) ==
  /\ waiter[h] = "wait" /\ Fault("slow")
  /\ waiter' = [waiter EXCEPT ![h] = "none"]
  /\ UNCHANGED <<storage, queue, batch, job, slurm, addr, resumes>>

\* slurmd of the node answers at the address slurmctld has for the host.
HostResponds(h) ==
  /\ slurm[h] \in {"powering", "down"} /\ waiter[h] = "none"
  /\ addr[h] # None /\ phase[addr[h]] \in {"named", "reading", "ready"}
  /\ slurm' = [slurm EXCEPT ![h] = "on"]
  /\ UNCHANGED <<storage, queue, batch, job, waiter, addr, resumes, faults>>

\* resume-fail.sh, after ResumeTimeout.
ResumeHostsFailed(h) ==
  /\ slurm[h] = "powering" /\ waiter[h] = "none" /\ HasRoom(queue)
  /\ Fault("slow")
  /\ queue' = Put(queue, "ResumeFailed", {h}, 0, TRUE)
  /\ slurm' = [slurm EXCEPT ![h] = "down"]
  /\ UNCHANGED <<storage, batch, job, waiter, addr, resumes>>

\* suspend.sh, for a host that was idle for SuspendTime.
SuspendHosts ==
  /\ HasRoom(queue)
  /\ \E hs \in SUBSET {h \in Host : slurm[h] = "on"} \ {{}} :
       /\ queue' = Put(queue, "Suspend", hs, 0, FALSE)
       /\ slurm' = [h \in Host |-> IF h \in hs THEN "off" ELSE slurm[h]]
       /\ addr' = [h \in Host |-> IF h \in hs THEN None ELSE addr[h]]
  /\ UNCHANGED <<storage, batch, job, waiter, resumes, faults>>

----------------------------------------------------------------------------
(* Batch and the compute nodes *)

\* Batch works towards the target; a new node, always one with a new id, runs
\* the start task.
NodeBoots ==
  /\ Cardinality(Pool) < target
  /\ phase' = [phase EXCEPT ![CHOOSE n \in Node : phase[n] = "unborn"] = "boot"]
  /\ UNCHANGED <<storage, queue, target, carries, job, control, faults>>

\* get-node-assignment: a token is read, its host written to slurm_host and the
\* token deleted.  When the deletion fails the error is only logged, the node
\* keeps the host and the token appears again.
GetNodeAssignment(n) ==
  /\ phase[n] = "boot"
  /\ \E h \in Host :
       /\ tokens[h] > 0
       /\ carries' = [carries EXCEPT ![n] = h]
       /\ \/ tokens' = [tokens EXCEPT ![h] = @ - 1] /\ UNCHANGED faults
          \/ Fault("redeliver") /\ UNCHANGED tokens
  /\ phase' = [phase EXCEPT ![n] = "assigned"]
  /\ UNCHANGED <<entity, queue, target, job, control>>

\* check_provisioning_status finds the host of n not Resuming: the host is marked
\* ProvisionInterrupt, with the id of this node.
Interrupt(n) ==
  LET h == carries[n] IN
  IF entity[h].state = "None"
    THEN UNCHANGED entity
    ELSE Write(h, [state |-> "ProvisionInterrupt", node |-> n])

Resuming(n) == entity[carries[n]].state = "Resuming"

\* The two checks before the reboot, one here: they fail the start task.
NodeIsAssigned(n) ==
  /\ phase[n] = "assigned"
  /\ \/ /\ Resuming(n)
        /\ phase' = [phase EXCEPT ![n] = "named"]
        /\ UNCHANGED entity
     \/ /\ ~Resuming(n)
        /\ phase' = [phase EXCEPT ![n] = "failed"]
        /\ Interrupt(n)
  /\ UNCHANGED <<tokens, queue, target, carries, job, control, faults>>

\* Mutant: a node that was named before registers without a check.
RebootedUnchecked(n) ==
  /\ phase[n] = "named"
  /\ phase' = [phase EXCEPT ![n] = "reading"]
  /\ UNCHANGED <<storage, queue, target, carries, job, control, faults>>

\* The two checks after the reboot, with slurmd running.  The second, made by
\* complete-node-assignment, keeps the entity it read, or fails the start task.  The
\* first renames the node and reboots it: it comes back to this check every time,
\* because the markers slurm_host.failed and slurm_host.assigned are made with touch
\* and tested with -s, which an empty file fails.
NodeRebooted(n) ==
  /\ phase[n] = "named"
  /\ \/ /\ Resuming(n)
        /\ phase' = [phase EXCEPT ![n] = "reading"]
        /\ UNCHANGED entity
     \/ /\ ~Resuming(n)
        /\ phase' \in {[phase EXCEPT ![n] = p] : p \in {"named", "failed"}}
        /\ Interrupt(n)
  /\ UNCHANGED <<tokens, queue, target, carries, job, control, faults>>

\* update_entity without if_match: the entity that was read replaces whatever is
\* there by now.  An exception of the helper is logged and the container exits 0:
\* the start task succeeds all the same.
CompleteWrites(n) ==
  /\ phase[n] = "reading"
  /\ phase' = [phase EXCEPT ![n] = "ready"]
  /\ \/ Write(carries[n], [state |-> "Provisioned", node |-> n]) /\ UNCHANGED faults
     \/ Fault("raise") /\ UNCHANGED entity
  /\ UNCHANGED <<tokens, queue, target, carries, job, control>>

\* The start task fails on its own, or a registered node reboots and runs it again.
NodeFault(n) ==
  /\ \/ /\ phase[n] \in {"boot", "assigned", "named"}
        /\ phase' = [phase EXCEPT ![n] = "failed"]
     \/ /\ phase[n] = "ready"
        /\ phase' = [phase EXCEPT ![n] = "named"]
  /\ Fault("node")
  /\ UNCHANGED <<storage, queue, target, carries, job, control>>

----------------------------------------------------------------------------
(* The daemon: one message at a time *)

\* get_queue_action_msg; Azure queues are only roughly in order.
Take(d, i) ==
  /\ job[d].at = "idle"
  /\ i \in DOMAIN queue /\ queue[i].by = None
  /\ queue' = [queue EXCEPT ![i].by = d]
  /\ job' = [job EXCEPT ![d] =
               [NoJob EXCEPT !.at = "start", !.id = i, !.act = queue[i].act,
                             !.hosts = queue[i].hosts, !.retry = queue[i].retry,
                             !.full = queue[i].full, !.todo = queue[i].hosts]]
  /\ UNCHANGED <<storage, batch, control, faults>>

DeleteMessage(d) ==
  /\ job[d].at = "delete"
  /\ Finish(d)
  /\ UNCHANGED <<storage, batch, control, faults>>

\* The controller or the daemon crashes (systemd starts it again), or a pass
\* outlives the visibility timeout of its message.
Crash(d) ==
  /\ job[d].at # "idle" /\ Fault("redeliver")
  /\ Raise(d)
  /\ UNCHANGED <<storage, batch, control>>

Reappear(d) ==
  /\ job[d].at # "idle" /\ Fault("redeliver")
  /\ \E i \in DOMAIN queue : queue[i].by = d /\ queue' = [queue EXCEPT ![i].by = None]
  /\ UNCHANGED <<storage, batch, job, control>>

----------------------------------------------------------------------------
(* process_resume_action *)

\* Hosts that are already Resuming or Up are left out: the action may have been
\* delivered before.
ResumeFilter(d) ==
  /\ Handling(d, "Resume", "start")
  /\ LET hosts == {h \in job[d].hosts : entity[h].state \notin {"Resuming", "Up"}} IN
     job' = [job EXCEPT ![d].todo = hosts,
                        ![d].at = IF hosts = {} THEN "delete" ELSE "entity"]
  /\ UNCHANGED <<storage, queue, batch, control, faults>>

\* Mutant: the token is put on the queue before the entity is in the table.
TokenFirst(d) ==
  /\ Handling(d, "Resume", "entity")
  /\ \E h \in job[d].todo :
       /\ tokens' = [tokens EXCEPT ![h] = @ + 1]
       /\ job' = [job EXCEPT ![d].cur = h, ![d].at = "token"]
  /\ UNCHANGED <<entity, queue, batch, control, faults>>

\* insert_host_assignment_entity replaces the entity, ...
InsertHostEntity(d) ==
  /\ Handling(d, "Resume", "entity")
  /\ \E h \in job[d].todo :
       /\ Write(h, [state |-> "Resuming", node |-> None])
       /\ job' = [job EXCEPT ![d].cur = h, ![d].at = "token"]
  /\ UNCHANGED <<tokens, queue, batch, control, faults>>

\* ... then insert_queue_assignment_msg.
InsertToken(d) ==
  /\ Handling(d, "Resume", "token")
  /\ LET h == job[d].cur  left == job[d].todo \ {h} IN
     /\ tokens' = [tokens EXCEPT ![h] = @ + 1]
     /\ job' = [job EXCEPT ![d].todo = left, ![d].done = @ \cup {h}, ![d].cur = None,
                           ![d].at = IF left = {} THEN "grow" ELSE "entity"]
  /\ UNCHANGED <<entity, queue, batch, control, faults>>

\* add_nodes_to_pool waits while the pool resizes; any other error of Batch
\* leaves process_resume_action, in the main thread (executor.submit is given
\* the result of the call).  The bound on nodes stands for the core quota.
AddNodesToPool(d) ==
  /\ Handling(d, "Resume", "grow")
  /\ Steady
  /\ target + Cardinality(job[d].done) <=
       Cardinality(Pool \cup {n \in Node : phase[n] = "unborn"})
  /\ target' = target + Cardinality(job[d].done)
  /\ Step(d, "delete")
  /\ UNCHANGED <<storage, queue, phase, carries, control, faults>>

AddNodesRaises(d) ==
  /\ Handling(d, "Resume", "grow") /\ Fault("raise")
  /\ Raise(d)
  /\ UNCHANGED <<storage, batch, control>>

----------------------------------------------------------------------------
(* process_suspend_action *)

\* Hosts without an entity or already Suspended are left out, hosts without a
\* node id are to be tried again.
SuspendRead(d) ==
  /\ Handling(d, "Suspend", "start")
  /\ LET live == {h \in job[d].hosts : entity[h].state \notin {"None", "Suspended"}}
         hosts == {h \in live : entity[h].node # None} IN
     job' = [job EXCEPT ![d].todo = hosts, ![d].rest = live \ hosts,
                        ![d].nodes = {entity[h].node : h \in hosts},
                        ![d].at = IF hosts = {} THEN "requeue" ELSE "remove"]
  /\ UNCHANGED <<storage, queue, batch, control, faults>>

\* remove_nodes_from_pool waits while the pool resizes and passes over errors.
RemoveNodes(d) ==
  /\ Steady
  /\ \/ LET ns == job[d].nodes \cap Pool IN
        /\ phase' = [n \in Node |-> IF n \in ns THEN "gone" ELSE phase[n]]
        /\ target' = target - Cardinality(ns)
        /\ UNCHANGED faults
     \/ Fault("raise") /\ UNCHANGED <<phase, target>>
  /\ UNCHANGED <<storage, queue, carries, control>>

\* Mutant: the nodes of the whole pool go.
SuspendRemovesAll(d) ==
  /\ Handling(d, "Suspend", "remove") /\ Steady
  /\ phase' = [n \in Node |-> IF n \in Pool THEN "gone" ELSE phase[n]]
  /\ target' = 0
  /\ Step(d, "mark")
  /\ UNCHANGED <<storage, queue, carries, control, faults>>

SuspendRemove(d) ==
  /\ Handling(d, "Suspend", "remove")
  /\ RemoveNodes(d)
  /\ Step(d, "mark")

SuspendMark(d) ==
  /\ Handling(d, "Suspend", "mark")
  /\ \E h \in job[d].todo :
       /\ Write(h, [entity[h] EXCEPT !.state = "Suspended"])
       /\ LET left == job[d].todo \ {h} IN
          job' = [job EXCEPT ![d].todo = left,
                             ![d].at = IF left = {} THEN "requeue" ELSE "mark"]
  /\ UNCHANGED <<tokens, queue, batch, control, faults>>

\* With every host still without a node the message itself is tried again.
SuspendRequeue(d) ==
  /\ Handling(d, "Suspend", "requeue")
  /\ LET again == job[d].rest IN
     \/ again = {} /\ Finish(d)
     \/ /\ again # {} /\ again = job[d].hosts
        /\ Raise(d)
     \/ /\ again # {} /\ again # job[d].hosts /\ HasRoom(queue)
        /\ queue' = Put(queue, "Suspend", again, 0, FALSE)
        /\ Step(d, "delete")
  /\ UNCHANGED <<storage, batch, control, faults>>

----------------------------------------------------------------------------
(* process_resume_failed_action *)

Alive(n) == phase[n] = "ready"
Bad(n) == phase[n] = "failed"

\* A host that is Up, or has no entity, is not in hosts_check: KeyError.  Lines
\* without a partition cannot be split: ValueError.  Both leave the daemon.
ResumeFailedRaises(d) ==
  /\ Handling(d, "ResumeFailed", "start")
  /\ \/ ~job[d].full
     \/ \E h \in job[d].hosts : entity[h].state \in {"None", "Up"}
  /\ Raise(d)
  /\ UNCHANGED <<storage, batch, control, faults>>

\* What becomes of each host is decided by its node: todo is hosts_update, done
\* is hosts_recover, rest is hosts_retry.
ResumeFailedChecks(d) ==
  /\ Handling(d, "ResumeFailed", "start")
  /\ job[d].full
  /\ \A h \in job[d].hosts : entity[h].state \notin {"None", "Up"}
  /\ LET node(h) == entity[h].node
         update == {h \in job[d].hosts : node(h) # None /\ Alive(node(h))}
         other == job[d].hosts \ update
         recover == {h \in other : \/ node(h) # None /\ Bad(node(h))
                                   \/ job[d].retry >= MaxFailures} IN
     job' = [job EXCEPT ![d].todo = update, ![d].done = recover,
                        ![d].rest = other \ recover,
                        ![d].nodes = {node(h) : h \in recover} \ {None},
                        ![d].clean = \E n \in Pool : Bad(n),
                        ![d].at = IF update = {} THEN "clean" ELSE "announce"]
  /\ UNCHANGED <<storage, queue, batch, control, faults>>

ResumeFailedAnnounces(d) ==
  /\ Handling(d, "ResumeFailed", "announce") /\ HasRoom(queue)
  /\ queue' = Put(queue, "WaitForResume", job[d].todo, 0, FALSE)
  /\ Step(d, "clean")
  /\ UNCHANGED <<storage, batch, control, faults>>

\* clean_pool, when a bad node was counted: every node that is bad by now goes,
\* errors are passed over.
CleanPool(d) ==
  /\ Handling(d, "ResumeFailed", "clean")
  /\ LET bad == {n \in Pool : Bad(n)} IN
     \/ ~job[d].clean /\ UNCHANGED <<phase, target, faults>>
     \/ /\ job[d].clean /\ (bad # {} => Steady)
        /\ phase' = [n \in Node |-> IF n \in bad THEN "gone" ELSE phase[n]]
        /\ target' = target - Cardinality(bad)
        /\ UNCHANGED faults
     \/ job[d].clean /\ bad # {} /\ Fault("raise") /\ UNCHANGED <<phase, target>>
  /\ job' = [job EXCEPT ![d].todo = job[d].done,
                        ![d].at = IF job[d].done = {} THEN "again" ELSE "recover"]
  /\ UNCHANGED <<storage, queue, carries, control>>

ResumeFailedInterrupts(d) ==
  /\ Handling(d, "ResumeFailed", "recover")
  /\ \E h \in job[d].todo :
       /\ Write(h, [entity[h] EXCEPT !.state = "ProvisionInterrupt"])
       /\ LET left == job[d].todo \ {h} IN
          job' = [job EXCEPT ![d].todo = left,
                    ![d].at = CASE left # {} -> "recover"
                                [] left = {} /\ job[d].nodes # {} -> "expel"
                                [] OTHER -> "requeue"]
  /\ UNCHANGED <<tokens, queue, batch, control, faults>>

ResumeFailedExpels(d) ==
  /\ Handling(d, "ResumeFailed", "expel")
  /\ RemoveNodes(d)
  /\ Step(d, "requeue")

\* The hosts are resumed once more; the WaitForResume message names them by
\* their lines, under which the host table has no entity.
ResumeFailedResumes(d) ==
  /\ Handling(d, "ResumeFailed", "requeue") /\ Cardinality(DOMAIN queue) < MaxMessages - 1
  /\ queue' = Put(Put(queue, "Resume", job[d].done, 0, TRUE),
                  "WaitForResume", job[d].done, 0, TRUE)
  /\ Step(d, "again")
  /\ UNCHANGED <<storage, batch, control, faults>>

ResumeFailedRetries(d) ==
  /\ Handling(d, "ResumeFailed", "again")
  /\ \/ job[d].rest = {} /\ Finish(d)
     \/ /\ job[d].rest # {} /\ HasRoom(queue)
        /\ queue' = Put(queue, "ResumeFailed", job[d].rest, job[d].retry + 1, TRUE)
        /\ Step(d, "delete")
  /\ UNCHANGED <<storage, batch, control, faults>>

----------------------------------------------------------------------------
(* process_wait_for_resume_action *)

WaitSees(d) ==
  /\ Handling(d, "WaitForResume", "start") /\ ~job[d].full
  /\ \E h \in job[d].todo :
       /\ entity[h].state = "Provisioned"
       /\ job' = [job EXCEPT ![d].cur = h, ![d].at = "scontrol"]
       /\ addr' = [addr EXCEPT ![h] = entity[h].node]
  /\ UNCHANGED <<storage, queue, batch, waiter, slurm, resumes, faults>>

WaitMarksUp(d) ==
  /\ Handling(d, "WaitForResume", "scontrol")
  /\ LET h == job[d].cur IN
     /\ Write(h, [entity[h] EXCEPT !.state = "Up"])
     /\ job' = [job EXCEPT ![d].todo = @ \ {h}, ![d].cur = None, ![d].at = "start"]
  /\ UNCHANGED <<tokens, queue, batch, control, faults>>

\* After ten seconds the hosts that are left are waited for once more, or, when
\* that was done often enough, given to process_resume_failed_action.
WaitEnds(d) ==
  /\ Handling(d, "WaitForResume", "start")
  /\ LET left == job[d].todo IN
     \/ left = {} /\ Finish(d)
     \/ /\ left # {} /\ HasRoom(queue)
        /\ ~job[d].full => \A h \in left : entity[h].state # "Provisioned"
        /\ queue' = IF job[d].retry > MaxWaits
                      THEN Put(queue, "ResumeFailed", left, 0, job[d].full)
                      ELSE Put(queue, "WaitForResume", left, job[d].retry + 1, job[d].full)
        /\ Step(d, "delete")
  /\ UNCHANGED <<storage, batch, control, faults>>

----------------------------------------------------------------------------

Handle(d) ==
  \/ ResumeFilter(d) \/ InsertHostEntity(d) \/ InsertToken(d) \/ AddNodesToPool(d)
  \/ SuspendRead(d) \/ SuspendRemove(d) \/ SuspendMark(d) \/ SuspendRequeue(d)
  \/ ResumeFailedRaises(d) \/ ResumeFailedChecks(d) \/ ResumeFailedAnnounces(d)
  \/ CleanPool(d) \/ ResumeFailedInterrupts(d) \/ ResumeFailedExpels(d)
  \/ ResumeFailedResumes(d) \/ ResumeFailedRetries(d)
  \/ WaitSees(d) \/ WaitMarksUp(d) \/ WaitEnds(d)
  \/ DeleteMessage(d)

NodeStep(n) ==
  \/ GetNodeAssignment(n) \/ NodeIsAssigned(n) \/ NodeRebooted(n) \/ CompleteWrites(n)

Waiter(h) == WaiterSees(h) \/ WaiterMarksUp(h)

Next ==
  \/ ResumeHosts \/ SuspendHosts \/ NodeBoots
  \/ \E h \in Host : Waiter(h) \/ WaiterTimesOut(h) \/ HostResponds(h) \/ ResumeHostsFailed(h)
  \/ \E n \in Node : NodeStep(n) \/ NodeFault(n)
  \/ \E d \in Daemon :
       \/ Handle(d) \/ AddNodesRaises(d) \/ Crash(d) \/ Reappear(d)
       \/ \E i \in Ids : Take(d, i)

Spec == Init /\ [][Next]_vars

----------------------------------------------------------------------------
(* Properties *)

\* A node that was given a host name finds the host's entity, whatever was
\* delivered twice or failed: process_resume_action inserts the entity before
\* the token (slurm.py:1018-1022; check_provisioning_status calls a missing
\* entity "this should not happen").
TokenHasEntity ==
  \A h \in Host :
    (tokens[h] > 0 \/ \E n \in Node : carries[n] = h) => entity[h].state # "None"

\* A host becomes Provisioned only while its entity says Resuming, although nodes
\* reboot and fail: no suspend, waiter or other node comes between the last check of a
\* node and its registration.  This rests on messages that are handled once and in
\* time.  After any fault of the controllers, the queues or Batch the write, which
\* is not conditional, may replace what another process wrote
\* (update_host_assignment_entity_as_provisioned: "this must process sucessfully with
\* no etag collision").
RegistersWhileResuming ==
  [][faults.calm =>
       \A h \in Host :
         (entity'[h].state = "Provisioned" /\ entity'[h] # entity[h])
           => entity[h].state = "Resuming"]_vars

\* A daemon removes from the pool only nodes whose start task failed and nodes
\* that carry a host of the message it handles, over stale node ids in the host
\* table and messages that are delivered again.
RemovesOwnNodes ==
  [][\A n \in Node :
       (n \in Pool /\ phase'[n] = "gone") =>
         \/ phase[n] = "failed"
         \/ \E d \in Daemon : job'[d] # job[d] /\ carries[n] \in job[d].hosts]_vars

=============================================================================
