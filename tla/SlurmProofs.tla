------------------------------ MODULE SlurmProofs ------------------------------
(***************************************************************************)
(* Proofs about the Slurm helper, for all hosts, nodes, controllers,       *)
(* queues and faults.                                                      *)
(*                                                                         *)
(* The argument: the entity of a host is never removed, and is there before*)
(* the token (StorageInv, JobsInv); the node id in an entity is that of a  *)
(* node which carries the host (OfNode), and a node keeps its host, so the *)
(* node ids a daemon read stay nodes of its message however stale they are *)
(* (OwnNodes).  While only nodes fail (Calm), a host is asked for, worked  *)
(* on, offered as a token or carried by a node at most once (Sole), so the *)
(* last word on a host that is Resuming is that of the node carrying it.   *)
(***************************************************************************)
EXTENDS Slurm, FiniteSetTheorems, TLAPS

Entity == [state : HostStates \cup {"None"}, node : Node \cup {None}]

\* The node id in the entity of a host is that of a node that carries it.
OfNode == \A h \in Host : entity[h].node # None => carries[entity[h].node] = h

StorageInv ==
  /\ entity \in [Host -> Entity] /\ tokens \in [Host -> Nat]
  /\ OfNode /\ TokenHasEntity

Carried ==
  \A n \in Node :
    /\ phase[n] \in {"unborn", "boot"} => carries[n] = None
    /\ phase[n] \in {"assigned", "named", "reading", "ready"} => carries[n] \in Host

\* Batch finds a node for every one it is to start.
Present == {n \in Node : phase[n] # "gone"}
Room == target \in Nat /\ target <= Cardinality(Present)

BatchInv ==
  /\ phase \in [Node -> Phases] /\ carries \in [Node -> Host \cup {None}]
  /\ Carried /\ Room

\* The nodes a daemon is about to remove carry hosts of its message.
OwnNodes == \A d \in Daemon : \A n \in job[d].nodes : carries[n] \in job[d].hosts

Retries ==
  \A d \in Daemon :
    job[d].act = "ResumeFailed" /\ job[d].rest # {} => job[d].retry < MaxFailures

AtHost == \A d \in Daemon : job[d].at \in {"token", "scontrol"} => job[d].cur \in Host

JobsInv == job \in [Daemon -> Job] /\ OwnNodes /\ Retries /\ AtHost

\* insert_host_assignment_entity came before insert_queue_assignment_msg.
EntityFirst ==
  \A d \in Daemon : job[d].at = "token" => entity[job[d].cur].state # "None"

Typed(q) == DOMAIN q \subseteq Ids /\ \A i \in DOMAIN q : q[i] \in Message

ControlInv ==
  /\ waiter \in [Host -> {"none", "wait", "seen"}]
  /\ slurm \in [Host -> {"off", "powering", "on", "down"}]
  /\ addr \in [Host -> Node \cup {None}]
  /\ resumes \in 0..MaxResumes /\ faults \in [count : 0..MaxFaults, calm : BOOLEAN]

Inv == StorageInv /\ BatchInv /\ JobsInv /\ EntityFirst /\ Typed(queue) /\ ControlInv

USE SlurmAssumption

LEMMA IdsFinite == IsFiniteSet(Ids) /\ Cardinality(Ids) = MaxMessages
<1>1. IsFiniteSet(1..MaxMessages) /\ Cardinality(1..MaxMessages) = MaxMessages
  <2>1. 1 \in Int /\ MaxMessages \in Int /\ ~(1 > MaxMessages)
    BY DEF SlurmAssumption
  <2>2. /\ IsFiniteSet(1..MaxMessages)
        /\ Cardinality(1..MaxMessages) = IF 1 > MaxMessages THEN 0 ELSE MaxMessages - 1 + 1
    BY <2>1, FS_Interval
  <2> QED
    BY <2>1, <2>2
<1> QED
  BY <1>1 DEF Ids

\* A message put on a queue that has room gets an identity of its own.
LEMMA FreeIdIsFree ==
  ASSUME NEW q, Typed(q), HasRoom(q)
  PROVE  FreeId(q) \in Ids /\ FreeId(q) \notin DOMAIN q
<1>1. DOMAIN q # Ids
  BY IdsFinite DEF HasRoom, SlurmAssumption
<1>2. \E i \in Ids : i \notin DOMAIN q
  BY <1>1 DEF Typed
<1> QED
  BY <1>2 DEF FreeId

LEMMA PutTyped ==
  ASSUME NEW q, Typed(q), HasRoom(q), NEW act \in Actions, NEW hosts \in SUBSET Host,
         NEW retry \in 0..(MaxFailures + MaxWaits + 1), NEW full \in BOOLEAN
  PROVE  /\ Typed(Put(q, act, hosts, retry, full))
         /\ Cardinality(DOMAIN Put(q, act, hosts, retry, full)) = Cardinality(DOMAIN q) + 1
<1> DEFINE m == [act |-> act, hosts |-> hosts, retry |-> retry, full |-> full, by |-> None]
           p == Put(q, act, hosts, retry, full)
           i == FreeId(q)
<1>1. i \in Ids /\ i \notin DOMAIN q
  BY FreeIdIsFree
<1>2. m \in Message
  BY DEF Message
<1>3. /\ DOMAIN p = DOMAIN q \cup {i}
      /\ p[i] = m
      /\ \A j \in DOMAIN q : p[j] = q[j]
  BY <1>1 DEF Put
<1>4. IsFiniteSet(DOMAIN q)
  BY IdsFinite, FS_Subset DEF Typed
<1>5. Cardinality(DOMAIN q \cup {i}) = Cardinality(DOMAIN q) + 1
  BY <1>1, <1>4, FS_AddElement
<1> HIDE DEF m, p, i
<1>6. Typed(p)
  BY <1>1, <1>2, <1>3 DEF Typed
<1> QED
  BY <1>3, <1>5, <1>6 DEF p

----------------------------------------------------------------------------
(* The host table *)

\* A write to the entity of a host that leaves no node without its host.
LEMMA WriteKeeps ==
  ASSUME StorageInv, BatchInv, NEW h \in Host, NEW e \in Entity, Write(h, e),
         e.state # "None", e.node # None => carries[e.node] = h,
         UNCHANGED <<tokens, carries>>
  PROVE  /\ StorageInv'
         /\ \A g \in Host : entity[g].state # "None" => entity'[g].state # "None"
<1> USE DEF StorageInv
<1>1. /\ entity' \in [Host -> Entity]
      /\ entity'[h] = e /\ \A g \in Host \ {h} : entity'[g] = entity[g]
  BY DEF Write
<1>2. \A g \in Host : entity[g].state # "None" => entity'[g].state # "None"
  BY <1>1
<1>3. OfNode'
  BY <1>1 DEF OfNode
<1>4. TokenHasEntity'
  BY <1>2 DEF TokenHasEntity
<1> QED
  BY <1>1, <1>2, <1>3, <1>4

\* A write of a state keeps the node id of the entity.
LEMMA MarkKeeps ==
  ASSUME StorageInv, BatchInv, NEW h \in Host, NEW s \in HostStates,
         Write(h, [entity[h] EXCEPT !.state = s]), UNCHANGED <<tokens, carries>>
  PROVE  /\ StorageInv'
         /\ \A g \in Host : entity[g].state # "None" => entity'[g].state # "None"
<1> DEFINE e == [entity[h] EXCEPT !.state = s]
<1>1. e \in Entity /\ e.state = s /\ e.node = entity[h].node
  BY DEF StorageInv, Entity
<1>2. s # "None"
  BY DEF HostStates
<1>3. e.node # None => carries[e.node] = h
  BY <1>1 DEF StorageInv, OfNode
<1>4. Write(h, e)
  OBVIOUS
<1> HIDE DEF e
<1> QED
  BY <1>1, <1>2, <1>3, <1>4, WriteKeeps

\* check_provisioning_status marks the host with the node that carries it.
LEMMA InterruptKeeps ==
  ASSUME StorageInv, BatchInv, NEW n \in Node, Interrupt(n), carries[n] \in Host,
         UNCHANGED <<tokens, carries>>
  PROVE  /\ StorageInv'
         /\ \A g \in Host : entity[g].state # "None" => entity'[g].state # "None"
<1> DEFINE e == [state |-> "ProvisionInterrupt", node |-> n]
<1>1. CASE entity[carries[n]].state = "None"
  <2>1. UNCHANGED entity
    BY <1>1 DEF Interrupt
  <2> QED
    BY <2>1 DEF StorageInv, OfNode, TokenHasEntity
<1>2. CASE entity[carries[n]].state # "None"
  <2>1. Write(carries[n], e)
    BY <1>2 DEF Interrupt
  <2>2. e \in Entity /\ e.state # "None" /\ e.node = n
    BY DEF Entity, HostStates
  <2> HIDE DEF e
  <2> QED
    BY <2>1, <2>2, WriteKeeps
<1> QED
  BY <1>1, <1>2

LEMMA StorageSame ==
  ASSUME StorageInv, UNCHANGED <<entity, carries>>, tokens' \in [Host -> Nat],
         \A h \in Host : tokens'[h] > 0 => tokens[h] > 0 \/ entity[h].state # "None"
  PROVE  /\ StorageInv'
         /\ \A g \in Host : entity[g].state # "None" => entity'[g].state # "None"
BY DEF StorageInv, OfNode, TokenHasEntity

\* No step breaks the host table, none removes an entity.
LEMMA StorageNext ==
  ASSUME Inv, Next
  PROVE  /\ StorageInv'
         /\ \A g \in Host : entity[g].state # "None" => entity'[g].state # "None"
<1> DEFINE Kept == /\ StorageInv'
                   /\ \A g \in Host : entity[g].state # "None" => entity'[g].state # "None"
<1> USE DEF Inv, storage, batch, control
<1>1. ASSUME UNCHANGED <<entity, tokens, carries>>
      PROVE  Kept
  BY <1>1, StorageSame DEF StorageInv
<1>2. CASE ResumeHosts \/ SuspendHosts
  BY <1>1, <1>2 DEF ResumeHosts, SuspendHosts
<1>3. CASE NodeBoots
  BY <1>1, <1>3 DEF NodeBoots
<1>4. ASSUME NEW h \in Host,
             WaiterSees(h) \/ WaiterTimesOut(h) \/ HostResponds(h) \/ ResumeHostsFailed(h)
      PROVE  Kept
  BY <1>1, <1>4 DEF WaiterSees, WaiterTimesOut, HostResponds, ResumeHostsFailed
<1>5. ASSUME NEW h \in Host, WaiterMarksUp(h)
      PROVE  Kept
  BY <1>5, MarkKeeps DEF WaiterMarksUp, HostStates
<1>6. ASSUME NEW n \in Node, GetNodeAssignment(n)
      PROVE  Kept
  <2>1. PICK h \in Host :
          /\ tokens[h] > 0
          /\ carries' = [carries EXCEPT ![n] = h]
          /\ tokens' = [tokens EXCEPT ![h] = @ - 1] \/ tokens' = tokens
    BY <1>6 DEF GetNodeAssignment
  <2>2. /\ phase[n] = "boot" /\ phase' = [phase EXCEPT ![n] = "assigned"]
        /\ UNCHANGED entity
    BY <1>6 DEF GetNodeAssignment
  <2>3. tokens' \in [Host -> Nat] /\ \A g \in Host : tokens'[g] > 0 => tokens[g] > 0
    BY <2>1 DEF StorageInv
  <2>4. carries[n] = None
    BY <2>2 DEF BatchInv, Carried
  <2>5. OfNode'
    <3> SUFFICES ASSUME NEW g \in Host, entity[g].node # None
                 PROVE  carries'[entity[g].node] = g
      BY <2>2 DEF OfNode
    <3>1. carries[entity[g].node] = g /\ entity[g].node \in Node
      BY DEF StorageInv, OfNode, Entity
    <3> QED
      BY <2>1, <2>4, <3>1 DEF BatchInv, SlurmAssumption
  <2>6. TokenHasEntity'
    <3> SUFFICES ASSUME NEW g \in Host, tokens'[g] > 0 \/ \E m \in Node : carries'[m] = g
                 PROVE  entity[g].state # "None"
      BY <2>2 DEF TokenHasEntity
    <3>1. tokens[g] > 0 \/ \E m \in Node : carries[m] = g
      BY <2>1, <2>3 DEF BatchInv
    <3> QED
      BY <3>1 DEF StorageInv, TokenHasEntity
  <2> QED
    BY <2>2, <2>3, <2>5, <2>6 DEF StorageInv
<1>7. ASSUME NEW n \in Node, NodeIsAssigned(n)
      PROVE  Kept
  <2>1. /\ phase[n] = "assigned" /\ UNCHANGED <<tokens, carries>>
        /\ UNCHANGED entity \/ Interrupt(n)
    BY <1>7 DEF NodeIsAssigned
  <2>2. carries[n] \in Host
    BY <2>1 DEF BatchInv, Carried
  <2> QED
    BY <1>1, <2>1, <2>2, InterruptKeeps
<1>8. ASSUME NEW n \in Node, NodeRebooted(n)
      PROVE  Kept
  <2>1. phase[n] = "named" /\ UNCHANGED <<tokens, carries>>
    BY <1>8 DEF NodeRebooted
  <2>2. carries[n] \in Host
    BY <2>1 DEF BatchInv, Carried
  <2>3. UNCHANGED entity \/ Interrupt(n)
    BY <1>8 DEF NodeRebooted
  <2> QED
    BY <1>1, <2>1, <2>2, <2>3, InterruptKeeps
<1>9. ASSUME NEW n \in Node, CompleteWrites(n)
      PROVE  Kept
  <2> DEFINE e == [state |-> "Provisioned", node |-> n]
  <2>1. /\ phase[n] = "reading" /\ UNCHANGED <<tokens, carries>>
        /\ UNCHANGED entity \/ Write(carries[n], e)
    BY <1>9 DEF CompleteWrites
  <2>2. e \in Entity /\ e.state # "None" /\ e.node = n
    BY DEF Entity, HostStates
  <2>3. carries[n] \in Host
    BY <2>1 DEF BatchInv, Carried
  <2> HIDE DEF e
  <2> QED
    BY <1>1, <2>1, <2>2, <2>3, WriteKeeps
<1>10. ASSUME NEW n \in Node, NodeFault(n)
       PROVE  Kept
  BY <1>1, <1>10 DEF NodeFault
<1>11. ASSUME NEW d \in Daemon,
              \/ ResumeFilter(d) \/ AddNodesToPool(d) \/ SuspendRead(d) \/ SuspendRequeue(d)
              \/ ResumeFailedRaises(d) \/ ResumeFailedChecks(d) \/ ResumeFailedAnnounces(d)
              \/ ResumeFailedResumes(d) \/ ResumeFailedRetries(d)
              \/ WaitSees(d) \/ WaitEnds(d) \/ DeleteMessage(d)
              \/ AddNodesRaises(d) \/ Crash(d) \/ Reappear(d) \/ \E i \in Ids : Take(d, i)
       PROVE  Kept
  <2>1. UNCHANGED <<storage, carries>>
    BY <1>11 DEF ResumeFilter, AddNodesToPool, SuspendRead, SuspendRequeue,
       ResumeFailedRaises, ResumeFailedChecks, ResumeFailedAnnounces, ResumeFailedResumes,
       ResumeFailedRetries, WaitSees, WaitEnds, DeleteMessage, AddNodesRaises, Crash,
       Reappear, Take
  <2> QED
    BY <1>1, <2>1
<1>12. ASSUME NEW d \in Daemon, InsertHostEntity(d)
       PROVE  Kept
  <2> DEFINE e == [state |-> "Resuming", node |-> None]
  <2>1. PICK h \in job[d].todo : Write(h, e)
    BY <1>12 DEF InsertHostEntity
  <2>2. UNCHANGED <<tokens, carries>>
    BY <1>12 DEF InsertHostEntity
  <2>3. h \in Host
    BY DEF JobsInv, Job
  <2>4. e \in Entity /\ e.state # "None" /\ e.node = None
    BY DEF Entity, HostStates
  <2> HIDE DEF e
  <2> QED
    BY <2>1, <2>2, <2>3, <2>4, WriteKeeps
<1>13. ASSUME NEW d \in Daemon, InsertToken(d)
       PROVE  Kept
  <2>1. /\ job[d].at = "token" /\ tokens' = [tokens EXCEPT ![job[d].cur] = @ + 1]
        /\ UNCHANGED <<entity, carries>>
    BY <1>13 DEF InsertToken, Handling
  <2>2. entity[job[d].cur].state # "None"
    BY <2>1 DEF EntityFirst
  <2>3. tokens \in [Host -> Nat] /\ job[d].cur \in Host
    BY <2>1 DEF StorageInv, JobsInv, AtHost
  <2>4. tokens' \in [Host -> Nat]
    BY ONLY <2>1, <2>3
  <2>5. \A h \in Host : tokens'[h] > 0 => tokens[h] > 0 \/ entity[h].state # "None"
    BY ONLY <2>1, <2>2, <2>3
  <2> QED
    BY <2>1, <2>4, <2>5, StorageSame
<1>14. ASSUME NEW d \in Daemon, SuspendRemove(d) \/ CleanPool(d) \/ ResumeFailedExpels(d)
       PROVE  Kept
  <2>1. UNCHANGED <<storage, carries>>
    BY <1>14 DEF SuspendRemove, CleanPool, ResumeFailedExpels, RemoveNodes
  <2> QED
    BY <1>1, <2>1
<1>15. ASSUME NEW d \in Daemon, SuspendMark(d) \/ ResumeFailedInterrupts(d)
       PROVE  Kept
  <2>1. PICK s \in {"Suspended", "ProvisionInterrupt"} :
          \E h \in job[d].todo : Write(h, [entity[h] EXCEPT !.state = s])
    BY <1>15 DEF SuspendMark, ResumeFailedInterrupts
  <2>2. PICK h \in job[d].todo : Write(h, [entity[h] EXCEPT !.state = s])
    BY <2>1
  <2>3. UNCHANGED <<tokens, carries>>
    BY <1>15 DEF SuspendMark, ResumeFailedInterrupts
  <2>4. h \in Host /\ s \in HostStates
    BY DEF JobsInv, Job, HostStates
  <2> QED
    BY <2>2, <2>3, <2>4, MarkKeeps
<1>16. ASSUME NEW d \in Daemon, WaitMarksUp(d)
       PROVE  Kept
  <2>1. LET h == job[d].cur IN Write(h, [entity[h] EXCEPT !.state = "Up"])
    BY <1>16 DEF WaitMarksUp
  <2>2. job[d].cur \in Host
    BY <1>16 DEF WaitMarksUp, Handling, JobsInv, AtHost
  <2>3. UNCHANGED <<tokens, carries>>
    BY <1>16 DEF WaitMarksUp
  <2>4. "Up" \in HostStates
    BY DEF HostStates
  <2> QED
    BY <2>1, <2>2, <2>3, <2>4, MarkKeeps
<1> QED
  BY <1>2, <1>3, <1>4, <1>5, <1>6, <1>7, <1>8, <1>9, <1>10, <1>11, <1>12, <1>13, <1>14,
     <1>15, <1>16 DEF Next, Handle, NodeStep, Waiter

----------------------------------------------------------------------------
(* The pool *)

LEMMA NodesFinite ==
  ASSUME NEW S \in SUBSET Node
  PROVE  IsFiniteSet(S) /\ Cardinality(S) \in Nat /\ Cardinality(S) <= Cardinality(Node)
BY FS_Subset, FS_CardinalityType DEF SlurmAssumption

\* Nodes that go make room, and the target goes down with them.
LEMMA ExpelKeeps ==
  ASSUME BatchInv, NEW ns \in SUBSET Pool, Steady,
         phase' = [n \in Node |-> IF n \in ns THEN "gone" ELSE phase[n]],
         target' = target - Cardinality(ns), UNCHANGED carries
  PROVE  BatchInv'
<1> USE DEF BatchInv
<1>1. phase' \in [Node -> Phases]
  BY DEF Phases
<1>2. Carried'
  BY DEF Carried
<1>3. Room'
  <2>1. Pool \ ns \subseteq Present'
    BY DEF Pool, Present
  <2>2. Cardinality(Pool \ ns) = Cardinality(Pool) - Cardinality(Pool \cap ns)
    BY NodesFinite, FS_Difference DEF Pool
  <2>3. Pool \cap ns = ns
    OBVIOUS
  <2>4. Pool \ ns \in SUBSET Node /\ Present' \in SUBSET Node
    BY DEF Pool, Present
  <2>5. IsFiniteSet(Present') /\ Cardinality(Present') \in Nat
    BY <2>4, NodesFinite
  <2>6. Cardinality(Pool \ ns) \in Nat
    BY <2>4, NodesFinite
  <2>7. Cardinality(Pool \ ns) <= Cardinality(Present')
    BY <2>1, <2>5, FS_Subset
  <2>8. target' = Cardinality(Pool \ ns)
    BY <2>2, <2>3 DEF Steady
  <2> QED
    BY <2>5, <2>6, <2>7, <2>8 DEF Room
<1> QED
  BY <1>1, <1>2, <1>3

\* A node that stays in the pool.
LEMMA PhaseKeeps ==
  ASSUME BatchInv, NEW n \in Node, NEW p \in Phases \ {"unborn", "gone"},
         phase' = [phase EXCEPT ![n] = p], phase[n] # "gone",
         UNCHANGED target, carries' \in [Node -> Host \cup {None}], Carried'
  PROVE  BatchInv'
<1>1. Present' = Present
  BY DEF BatchInv, Present
<1> QED
  BY <1>1 DEF BatchInv, Room

\* Batch has a node left for every one the pool is short of.
LEMMA BootsUnborn ==
  ASSUME BatchInv, NodeBoots
  PROVE  \E n \in Node : phase[n] = "unborn" /\ phase' = [phase EXCEPT ![n] = "boot"]
<1>1. \E m \in Node : phase[m] = "unborn"
  <2> SUFFICES ASSUME \A m \in Node : phase[m] # "unborn" PROVE FALSE
    OBVIOUS
  <2>1. Pool = Present
    BY DEF Pool, Present
  <2>2. Cardinality(Present) \in Nat
    BY NodesFinite DEF Present
  <2> QED
    BY <2>1, <2>2 DEF NodeBoots, BatchInv, Room
<1> QED
  BY <1>1 DEF NodeBoots

LEMMA BatchNext == ASSUME Inv, Next PROVE BatchInv'
<1> USE DEF Inv, batch, storage, control
<1>1. CASE UNCHANGED <<phase, target, carries>>
  BY <1>1 DEF BatchInv, Carried, Room, Present
<1>2. CASE ResumeHosts \/ SuspendHosts
  BY <1>1, <1>2 DEF ResumeHosts, SuspendHosts
<1>3. CASE NodeBoots
  <2>1. PICK n \in Node : phase[n] = "unborn" /\ phase' = [phase EXCEPT ![n] = "boot"]
    BY <1>3, BootsUnborn
  <2>2. UNCHANGED <<target, carries>>
    BY <1>3 DEF NodeBoots
  <2>3. Carried'
    BY <2>1, <2>2 DEF BatchInv, Carried
  <2>4. "boot" \in Phases \ {"unborn", "gone"}
    BY DEF Phases
  <2> QED
    BY <2>1, <2>2, <2>3, <2>4, PhaseKeeps DEF BatchInv
<1>4. ASSUME NEW h \in Host,
             \/ WaiterSees(h) \/ WaiterMarksUp(h) \/ WaiterTimesOut(h) \/ HostResponds(h)
             \/ ResumeHostsFailed(h)
      PROVE  BatchInv'
  BY <1>1, <1>4 DEF WaiterSees, WaiterMarksUp, WaiterTimesOut, HostResponds,
     ResumeHostsFailed
<1>5. ASSUME NEW n \in Node, GetNodeAssignment(n)
      PROVE  BatchInv'
  <2>1. PICK h \in Host : carries' = [carries EXCEPT ![n] = h]
    BY <1>5 DEF GetNodeAssignment
  <2>2. phase' = [phase EXCEPT ![n] = "assigned"] /\ phase[n] = "boot" /\ UNCHANGED target
    BY <1>5 DEF GetNodeAssignment
  <2>3. carries' \in [Node -> Host \cup {None}]
    BY <2>1 DEF BatchInv
  <2>4. Carried'
    BY <2>1, <2>2 DEF BatchInv, Carried
  <2>5. "assigned" \in Phases \ {"unborn", "gone"}
    BY DEF Phases
  <2> QED
    BY <2>2, <2>3, <2>4, <2>5, PhaseKeeps
<1>6. ASSUME NEW n \in Node,
             NodeIsAssigned(n) \/ NodeRebooted(n) \/ CompleteWrites(n) \/ NodeFault(n)
      PROVE  BatchInv'
  <2>1. PICK p \in {"named", "reading", "ready", "failed"} :
          phase' = [phase EXCEPT ![n] = p]
    BY <1>6 DEF NodeIsAssigned, NodeRebooted, CompleteWrites, NodeFault
  <2>2. UNCHANGED <<target, carries>>
    BY <1>6 DEF NodeIsAssigned, NodeRebooted, CompleteWrites, NodeFault
  <2>3. \/ phase[n] \in {"assigned", "named", "reading", "ready"}
        \/ phase[n] = "boot" /\ p = "failed"
    <3>1. CASE NodeIsAssigned(n) \/ NodeRebooted(n) \/ CompleteWrites(n)
      BY <3>1 DEF NodeIsAssigned, NodeRebooted, CompleteWrites
    <3>2. CASE NodeFault(n)
      BY <2>1, <3>2 DEF NodeFault, BatchInv
    <3> QED
      BY <1>6, <3>1, <3>2
  <2>4. Carried'
    BY <2>1, <2>2, <2>3 DEF BatchInv, Carried
  <2>5. p \in Phases \ {"unborn", "gone"}
    BY DEF Phases
  <2> QED
    BY <2>1, <2>2, <2>3, <2>4, <2>5, PhaseKeeps DEF BatchInv
<1>7. ASSUME NEW d \in Daemon,
             \/ ResumeFilter(d) \/ InsertHostEntity(d) \/ InsertToken(d) \/ SuspendRead(d)
             \/ SuspendMark(d) \/ SuspendRequeue(d) \/ ResumeFailedRaises(d)
             \/ ResumeFailedChecks(d) \/ ResumeFailedAnnounces(d)
             \/ ResumeFailedInterrupts(d) \/ ResumeFailedResumes(d)
             \/ ResumeFailedRetries(d) \/ WaitSees(d) \/ WaitMarksUp(d) \/ WaitEnds(d)
             \/ DeleteMessage(d) \/ AddNodesRaises(d) \/ Crash(d) \/ Reappear(d)
             \/ \E i \in Ids : Take(d, i)
      PROVE  BatchInv'
  <2>1. UNCHANGED batch
    BY <1>7 DEF ResumeFilter, InsertHostEntity, InsertToken, SuspendRead, SuspendMark,
       SuspendRequeue, ResumeFailedRaises, ResumeFailedChecks, ResumeFailedAnnounces,
       ResumeFailedInterrupts, ResumeFailedResumes, ResumeFailedRetries, WaitSees,
       WaitMarksUp, WaitEnds, DeleteMessage, AddNodesRaises, Crash, Reappear, Take
  <2> QED
    BY <1>1, <2>1
<1>8. ASSUME NEW d \in Daemon, AddNodesToPool(d)
      PROVE  BatchInv'
  <2>1. Pool \cup {n \in Node : phase[n] = "unborn"} = Present
    BY DEF Pool, Present
  <2>2. /\ target' = target + Cardinality(job[d].done) /\ target' <= Cardinality(Present)
        /\ UNCHANGED <<phase, carries>>
    BY <1>8, <2>1 DEF AddNodesToPool
  <2>3. Cardinality(job[d].done) \in Nat
    BY FS_Subset, FS_CardinalityType DEF JobsInv, Job, SlurmAssumption
  <2>4. Present' = Present
    BY <2>2 DEF Present
  <2>5. Room'
    BY <2>2, <2>3, <2>4 DEF Room, BatchInv
  <2> QED
    BY <2>2, <2>5 DEF BatchInv, Carried
<1>9. ASSUME NEW d \in Daemon, RemoveNodes(d)
      PROVE  BatchInv'
  <2>1. job[d].nodes \cap Pool \in SUBSET Pool
    OBVIOUS
  <2> QED
    BY <1>1, <1>9, <2>1, ExpelKeeps DEF RemoveNodes
<1>10. ASSUME NEW d \in Daemon, CleanPool(d)
       PROVE  BatchInv'
  <2> DEFINE bad == {n \in Pool : Bad(n)}
  <2>1. UNCHANGED carries
    BY <1>10 DEF CleanPool
  <2>2. CASE UNCHANGED <<phase, target>>
    BY <1>1, <2>1, <2>2
  <2>3. CASE /\ bad # {} => Steady
             /\ phase' = [n \in Node |-> IF n \in bad THEN "gone" ELSE phase[n]]
             /\ target' = target - Cardinality(bad)
    <3>1. CASE bad = {}
      <4>1. phase' = phase
        BY <2>3, <3>1 DEF BatchInv
      <4>2. target' = target
        BY <2>3, <3>1, FS_EmptySet DEF BatchInv, Room
      <4> QED
        BY <2>2, <4>1, <4>2
    <3>2. CASE bad # {}
      <4>1. bad \in SUBSET Pool
        OBVIOUS
      <4> HIDE DEF bad
      <4> QED
        BY <2>1, <2>3, <3>2, <4>1, ExpelKeeps
    <3> QED
      BY <3>1, <3>2
  <2> QED
    BY <1>10, <2>2, <2>3 DEF CleanPool
<1> QED
  BY <1>2, <1>3, <1>4, <1>5, <1>6, <1>7, <1>8, <1>9, <1>10
     DEF Next, Handle, NodeStep, Waiter, SuspendRemove, ResumeFailedExpels

----------------------------------------------------------------------------
(* The daemons *)

\* A daemon that is about to put a token on the queue has just written the entity.
TokensFollow ==
  \A d \in Daemon :
    job'[d].at = "token" => job'[d] = job[d] \/ entity'[job'[d].cur].state # "None"

Kept == JobsInv' /\ TokensFollow

\* A daemon goes on to j with its message.
LEMMA JobStep ==
  ASSUME JobsInv, NEW d \in Daemon, NEW j \in Job, job' = [job EXCEPT ![d] = j],
         UNCHANGED carries, \A n \in j.nodes : carries[n] \in j.hosts,
         j.act = "ResumeFailed" /\ j.rest # {} => j.retry < MaxFailures,
         j.at \in {"token", "scontrol"} => j.cur \in Host,
         j.at = "token" => entity'[j.cur].state # "None"
  PROVE  Kept
<1>1. /\ job' \in [Daemon -> Job] /\ job'[d] = j
      /\ \A c \in Daemon \ {d} : job'[c] = job[c]
  BY DEF JobsInv
<1> QED
  BY <1>1 DEF JobsInv, OwnNodes, Retries, AtHost, Kept, TokensFollow

\* ... to another step of it.
SameDuty(j, r, at) ==
  /\ j \in Job /\ j.at = at /\ j.nodes = r.nodes /\ j.hosts = r.hosts
  /\ j.act = r.act /\ j.rest = r.rest /\ j.retry = r.retry

LEMMA KeepAt ==
  ASSUME NEW r \in Job, NEW at \in Labels
  PROVE  SameDuty([r EXCEPT !.at = at], r, at)
BY Zenon DEF Job, SameDuty

LEMMA KeepTodo ==
  ASSUME NEW r \in Job, NEW todo \in SUBSET Host, NEW at \in Labels
  PROVE  SameDuty([r EXCEPT !.todo = todo, !.at = at], r, at)
BY Zenon DEF Job, SameDuty

LEMMA KeepCur ==
  ASSUME NEW r \in Job, NEW cur \in Host \cup {None}, NEW at \in Labels
  PROVE  /\ SameDuty([r EXCEPT !.cur = cur, !.at = at], r, at)
         /\ [r EXCEPT !.cur = cur, !.at = at].cur = cur
BY Zenon DEF Job, SameDuty

LEMMA KeepTodoCur ==
  ASSUME NEW r \in Job, NEW todo \in SUBSET Host,
         NEW cur \in Host \cup {None}, NEW at \in Labels
  PROVE  SameDuty([r EXCEPT !.todo = todo, !.cur = cur, !.at = at], r, at)
BY Zenon DEF Job, SameDuty

LEMMA KeepTodoDoneCur ==
  ASSUME NEW r \in Job, NEW todo \in SUBSET Host, NEW done \in SUBSET Host,
         NEW cur \in Host \cup {None}, NEW at \in Labels
  PROVE  SameDuty([r EXCEPT !.todo = todo, !.done = done, !.cur = cur, !.at = at], r, at)
BY Zenon DEF Job, SameDuty

LEMMA NewDuties ==
  ASSUME NEW r \in Job, NEW todo \in SUBSET Host, NEW done \in SUBSET Host,
         NEW rest \in SUBSET Host, NEW nodes \in SUBSET Node, NEW clean \in BOOLEAN,
         NEW at \in Labels
  PROVE  /\ [r EXCEPT !.todo = todo, !.rest = rest, !.nodes = nodes, !.at = at] \in Job
         /\ [r EXCEPT !.todo = todo, !.done = done, !.rest = rest, !.nodes = nodes,
                      !.clean = clean, !.at = at] \in Job
<1>1. [r EXCEPT !.todo = todo, !.rest = rest, !.nodes = nodes, !.at = at] \in Job
  BY Zenon DEF Job
<1>2. [r EXCEPT !.todo = todo, !.done = done, !.rest = rest, !.nodes = nodes,
               !.clean = clean, !.at = at] \in Job
  BY Zenon DEF Job
<1> QED
  BY <1>1, <1>2

LEMMA JobGoesOn ==
  ASSUME JobsInv, NEW d \in Daemon, NEW j, SameDuty(j, job[d], j.at),
         job' = [job EXCEPT ![d] = j], UNCHANGED carries,
         j.at \in {"token", "scontrol"} => j.cur \in Host,
         j.at = "token" => entity'[j.cur].state # "None"
  PROVE  Kept
<1>1. \A n \in j.nodes : carries[n] \in j.hosts
  BY DEF SameDuty, JobsInv, OwnNodes
<1>2. j.act = "ResumeFailed" /\ j.rest # {} => j.retry < MaxFailures
  BY DEF SameDuty, JobsInv, Retries
<1>3. j \in Job
  BY DEF SameDuty
<1> QED
  BY <1>1, <1>2, <1>3, JobStep

LEMMA StepKeeps ==
  ASSUME JobsInv, NEW d \in Daemon, NEW at \in Labels \ {"token", "scontrol"},
         Step(d, at), UNCHANGED carries
  PROVE  Kept
<1> DEFINE j == [job[d] EXCEPT !.at = at]
<1>1. job' = [job EXCEPT ![d] = j]
  BY DEF Step
<1>2. job[d] \in Job
  BY DEF JobsInv
<1>3. SameDuty(j, job[d], at)
  BY <1>2, KeepAt
<1> HIDE DEF j
<1> QED
  BY <1>1, <1>3, JobGoesOn DEF SameDuty

LEMMA JobEnds ==
  ASSUME JobsInv, NEW d \in Daemon, job' = [job EXCEPT ![d] = NoJob], UNCHANGED carries
  PROVE  Kept
<1>1. NoJob \in Job
  BY DEF NoJob, Job, Labels
<1>2. NoJob.nodes = {} /\ NoJob.rest = {} /\ NoJob.at = "idle"
  BY DEF NoJob
<1> QED
  BY <1>1, <1>2, JobStep

LEMMA JobsNext == ASSUME Inv, Next PROVE Kept
<1> USE DEF Inv, batch, storage, control
<1>1. CASE UNCHANGED <<job, carries>>
  BY <1>1 DEF JobsInv, OwnNodes, Retries, AtHost, Kept, TokensFollow
<1>2. CASE ResumeHosts \/ SuspendHosts \/ NodeBoots
  BY <1>1, <1>2 DEF ResumeHosts, SuspendHosts, NodeBoots
<1>3. ASSUME NEW h \in Host,
             \/ WaiterSees(h) \/ WaiterMarksUp(h) \/ WaiterTimesOut(h) \/ HostResponds(h)
             \/ ResumeHostsFailed(h)
      PROVE  Kept
  BY <1>1, <1>3 DEF WaiterSees, WaiterMarksUp, WaiterTimesOut, HostResponds,
     ResumeHostsFailed
<1>4. ASSUME NEW n \in Node, GetNodeAssignment(n)
      PROVE  Kept
  <2>1. phase[n] = "boot" /\ UNCHANGED job /\ \E h \in Host : carries' = [carries EXCEPT ![n] = h]
    BY <1>4 DEF GetNodeAssignment
  <2>2. carries[n] = None /\ carries \in [Node -> Host \cup {None}]
    BY <2>1 DEF BatchInv, Carried
  <2>3. ASSUME NEW d \in Daemon, NEW m \in job[d].nodes
        PROVE  carries'[m] \in job[d].hosts
    <3>1. carries[m] \in job[d].hosts /\ m \in Node /\ job[d].hosts \subseteq Host
      BY DEF JobsInv, OwnNodes, Job
    <3> QED
      BY <2>1, <2>2, <3>1 DEF SlurmAssumption
  <2> QED
    BY <2>1, <2>3 DEF JobsInv, OwnNodes, Retries, AtHost, Kept, TokensFollow
<1>5. ASSUME NEW n \in Node,
             NodeIsAssigned(n) \/ NodeRebooted(n) \/ CompleteWrites(n) \/ NodeFault(n)
      PROVE  Kept
  BY <1>1, <1>5 DEF NodeIsAssigned, NodeRebooted, CompleteWrites, NodeFault
<1>6. ASSUME NEW d \in Daemon, NEW i \in Ids, Take(d, i)
      PROVE  Kept
  <2> DEFINE j == [NoJob EXCEPT !.at = "start", !.id = i, !.act = queue[i].act,
                     !.hosts = queue[i].hosts, !.retry = queue[i].retry,
                     !.full = queue[i].full, !.todo = queue[i].hosts]
  <2>1. job' = [job EXCEPT ![d] = j] /\ UNCHANGED carries /\ i \in DOMAIN queue
    BY <1>6 DEF Take
  <2>2. queue[i] \in Message
    BY <2>1 DEF Typed
  <2>3. /\ i \in Ids \cup {0} /\ queue[i].act \in Actions \cup {"None"}
        /\ queue[i].hosts \in SUBSET Host /\ queue[i].full \in BOOLEAN
    BY <2>2 DEF Message
  <2>4. queue[i].retry \in Nat
    BY <2>2 DEF Message, SlurmAssumption
  <2>5. "start" \in Labels /\ FALSE \in BOOLEAN /\ {} \in SUBSET Host /\ {} \in SUBSET Node
        /\ None \in Host \cup {None}
    BY DEF Labels
  <2>6. j \in Job
    BY ONLY <2>3, <2>4, <2>5, Zenon DEF NoJob, Job
  <2>7. j.nodes = {} /\ j.rest = {} /\ j.at = "start"
    BY DEF NoJob
  <2> HIDE DEF j
  <2> QED
    BY <2>1, <2>6, <2>7, JobStep
<1>7. ASSUME NEW d \in Daemon,
             \/ DeleteMessage(d) \/ Crash(d) \/ AddNodesRaises(d) \/ ResumeFailedRaises(d)
      PROVE  Kept
  BY <1>7, JobEnds DEF DeleteMessage, Crash, AddNodesRaises, ResumeFailedRaises, Finish,
     Raise
<1>8. ASSUME NEW d \in Daemon, Reappear(d)
      PROVE  Kept
  BY <1>1, <1>8 DEF Reappear
<1>9. ASSUME NEW d \in Daemon
      PROVE  /\ job[d].todo \in SUBSET Host /\ job[d].done \in SUBSET Host
             /\ job[d].rest \in SUBSET Host /\ job[d].hosts \in SUBSET Host
             /\ job[d].cur \in Host \cup {None} /\ job[d] \in Job
  BY DEF JobsInv, Job
<1>10. ASSUME NEW d \in Daemon, ResumeFilter(d)
       PROVE  Kept
  <2> DEFINE hosts == {h \in job[d].hosts : entity[h].state \notin {"Resuming", "Up"}}
             at == IF hosts = {} THEN "delete" ELSE "entity"
             j == [job[d] EXCEPT !.todo = hosts, !.at = at]
  <2>1. job' = [job EXCEPT ![d] = j] /\ UNCHANGED carries
    BY <1>10 DEF ResumeFilter
  <2>2. hosts \in SUBSET Host /\ at \in Labels \ {"token", "scontrol"}
    BY <1>9 DEF Labels
  <2> HIDE DEF hosts, at
  <2>3. SameDuty(j, job[d], at)
    BY <1>9, <2>2, KeepTodo
  <2> HIDE DEF j
  <2> QED
    BY <2>1, <2>2, <2>3, JobGoesOn DEF SameDuty
<1>11. ASSUME NEW d \in Daemon, InsertHostEntity(d)
       PROVE  Kept
  <2>1. PICK h \in job[d].todo : /\ Write(h, [state |-> "Resuming", node |-> None])
                                 /\ job' = [job EXCEPT ![d].cur = h, ![d].at = "token"]
    BY <1>11 DEF InsertHostEntity
  <2> DEFINE j == [job[d] EXCEPT !.cur = h, !.at = "token"]
  <2>2. job' = [job EXCEPT ![d] = j]
    BY <2>1
  <2>3. UNCHANGED carries /\ h \in Host
    BY <1>9, <1>11 DEF InsertHostEntity
  <2>4. "token" \in Labels
    BY DEF Labels
  <2>5. SameDuty(j, job[d], "token") /\ j.cur = h
    BY <1>9, <2>3, <2>4, KeepCur
  <2>6. entity'[h].state # "None"
    BY <2>1, <2>3 DEF StorageInv, Write
  <2> HIDE DEF j
  <2> QED
    BY <2>2, <2>3, <2>5, <2>6, JobGoesOn DEF SameDuty
<1>12. ASSUME NEW d \in Daemon, InsertToken(d)
       PROVE  Kept
  <2> DEFINE h == job[d].cur
             left == job[d].todo \ {h}
             more == job[d].done \cup {h}
             at == IF left = {} THEN "grow" ELSE "entity"
             j == [job[d] EXCEPT !.todo = left, !.done = more, !.cur = None, !.at = at]
  <2>1. h \in Host
    BY <1>12 DEF InsertToken, Handling, JobsInv, AtHost
  <2>2. job' = [job EXCEPT ![d] = j] /\ UNCHANGED carries
    BY <1>12 DEF InsertToken
  <2>3. left \in SUBSET Host /\ more \in SUBSET Host /\ at \in Labels \ {"token", "scontrol"}
    BY <1>9, <2>1 DEF Labels
  <2> HIDE DEF left, more, at
  <2>4. SameDuty(j, job[d], at)
    BY <1>9, <2>3, KeepTodoDoneCur
  <2> HIDE DEF j
  <2> QED
    BY <2>2, <2>3, <2>4, JobGoesOn DEF SameDuty
<1>13. ASSUME NEW d \in Daemon, SuspendMark(d) \/ ResumeFailedInterrupts(d)
       PROVE  Kept
  <2>1. PICK h \in job[d].todo :
          \E at : /\ at \in Labels \ {"token", "scontrol"}
                  /\ job' = [job EXCEPT ![d].todo = job[d].todo \ {h}, ![d].at = at]
    <3>1. CASE SuspendMark(d)
      <4>1. PICK h \in job[d].todo :
              job' = [job EXCEPT ![d].todo = job[d].todo \ {h},
                        ![d].at = IF job[d].todo \ {h} = {} THEN "requeue" ELSE "mark"]
        BY <3>1 DEF SuspendMark
      <4> QED
        BY <4>1, SMTT(30) DEF Labels
    <3>2. CASE ResumeFailedInterrupts(d)
      <4> DEFINE next(h) == CASE job[d].todo \ {h} # {} -> "recover"
                              [] job[d].todo \ {h} = {} /\ job[d].nodes # {} -> "expel"
                              [] OTHER -> "requeue"
      <4>1. PICK h \in job[d].todo :
              job' = [job EXCEPT ![d].todo = job[d].todo \ {h}, ![d].at = next(h)]
        BY <3>2 DEF ResumeFailedInterrupts
      <4>2. next(h) \in Labels \ {"token", "scontrol"}
        BY DEF Labels
      <4> HIDE DEF next
      <4> QED
        BY <4>1, <4>2
    <3> QED
      BY <1>13, <3>1, <3>2
  <2>2. PICK at : /\ at \in Labels \ {"token", "scontrol"}
                  /\ job' = [job EXCEPT ![d].todo = job[d].todo \ {h}, ![d].at = at]
    BY <2>1
  <2> DEFINE left == job[d].todo \ {h}
             j == [job[d] EXCEPT !.todo = left, !.at = at]
  <2>3. job' = [job EXCEPT ![d] = j]
    BY <2>2
  <2>4. UNCHANGED carries
    BY <1>13 DEF SuspendMark, ResumeFailedInterrupts
  <2>5. left \in SUBSET Host
    BY <1>9
  <2> HIDE DEF left
  <2>6. SameDuty(j, job[d], at)
    BY <1>9, <2>2, <2>5, KeepTodo
  <2> HIDE DEF j
  <2> QED
    BY <2>2, <2>3, <2>4, <2>6, JobGoesOn DEF SameDuty
<1>14. ASSUME NEW d \in Daemon, CleanPool(d)
       PROVE  Kept
  <2> DEFINE at == IF job[d].done = {} THEN "again" ELSE "recover"
             j == [job[d] EXCEPT !.todo = job[d].done, !.at = at]
  <2>1. job' = [job EXCEPT ![d] = j] /\ UNCHANGED carries
    BY <1>14 DEF CleanPool
  <2>2. at \in Labels \ {"token", "scontrol"}
    BY DEF Labels
  <2> HIDE DEF at
  <2>3. SameDuty(j, job[d], at)
    BY <1>9, <2>2, KeepTodo
  <2> HIDE DEF j
  <2> QED
    BY <2>1, <2>2, <2>3, JobGoesOn DEF SameDuty
<1>15. ASSUME NEW d \in Daemon, WaitSees(d)
       PROVE  Kept
  <2>1. PICK h \in job[d].todo : job' = [job EXCEPT ![d].cur = h, ![d].at = "scontrol"]
    BY <1>15 DEF WaitSees
  <2> DEFINE j == [job[d] EXCEPT !.cur = h, !.at = "scontrol"]
  <2>2. job' = [job EXCEPT ![d] = j]
    BY <2>1
  <2>3. UNCHANGED carries /\ h \in Host
    BY <1>9, <1>15 DEF WaitSees
  <2>4. "scontrol" \in Labels
    BY DEF Labels
  <2>5. SameDuty(j, job[d], "scontrol") /\ j.cur = h
    BY <1>9, <2>3, <2>4, KeepCur
  <2> HIDE DEF j
  <2> QED
    BY <2>2, <2>3, <2>5, JobGoesOn DEF SameDuty
<1>16. ASSUME NEW d \in Daemon, WaitMarksUp(d)
       PROVE  Kept
  <2> DEFINE left == job[d].todo \ {job[d].cur}
             j == [job[d] EXCEPT !.todo = left, !.cur = None, !.at = "start"]
  <2>1. job' = [job EXCEPT ![d] = j] /\ UNCHANGED carries
    BY <1>16 DEF WaitMarksUp
  <2>2. left \in SUBSET Host
    BY <1>9
  <2> HIDE DEF left
  <2>3. "start" \in Labels
    BY DEF Labels
  <2>4. SameDuty(j, job[d], "start")
    BY <1>9, <2>2, <2>3, KeepTodoCur
  <2> HIDE DEF j
  <2> QED
    BY <2>1, <2>4, JobGoesOn DEF SameDuty
<1>17. ASSUME NEW d \in Daemon,
              \/ AddNodesToPool(d) \/ SuspendRemove(d) \/ ResumeFailedAnnounces(d)
              \/ ResumeFailedExpels(d) \/ ResumeFailedResumes(d)
       PROVE  Kept
  <2>1. PICK at \in {"delete", "mark", "clean", "requeue", "again"} : Step(d, at)
    BY <1>17 DEF AddNodesToPool, SuspendRemove, ResumeFailedAnnounces, ResumeFailedExpels,
       ResumeFailedResumes
  <2>2. UNCHANGED carries
    BY <1>17 DEF AddNodesToPool, SuspendRemove, ResumeFailedAnnounces, ResumeFailedExpels,
       ResumeFailedResumes, RemoveNodes
  <2> QED
    BY <2>1, <2>2, StepKeeps DEF Labels
<1>18. ASSUME NEW d \in Daemon, SuspendRequeue(d) \/ ResumeFailedRetries(d) \/ WaitEnds(d)
       PROVE  Kept
  <2>1. UNCHANGED carries
    BY <1>18 DEF SuspendRequeue, ResumeFailedRetries, WaitEnds
  <2>2. job' = [job EXCEPT ![d] = NoJob] \/ Step(d, "delete")
    BY <1>18 DEF SuspendRequeue, ResumeFailedRetries, WaitEnds, Finish, Raise
  <2> QED
    BY <2>1, <2>2, JobEnds, StepKeeps DEF Labels
<1>19. ASSUME NEW d \in Daemon, SuspendRead(d)
       PROVE  Kept
  <2> DEFINE live == {h \in job[d].hosts : entity[h].state \notin {"None", "Suspended"}}
             hosts == {h \in live : entity[h].node # None}
             nodes == {entity[h].node : h \in hosts}
             at == IF hosts = {} THEN "requeue" ELSE "remove"
             j == [job[d] EXCEPT !.todo = hosts, !.rest = live \ hosts, !.nodes = nodes,
                                 !.at = at]
  <2>1. job' = [job EXCEPT ![d] = j] /\ UNCHANGED carries /\ job[d].act = "Suspend"
    BY <1>19 DEF SuspendRead, Handling
  <2>2. hosts \in SUBSET Host /\ live \ hosts \in SUBSET Host
    BY <1>9
  <2>3. \A h \in hosts : h \in job[d].hosts /\ entity[h].node \in Node
                         /\ carries[entity[h].node] = h
    BY <1>9 DEF StorageInv, OfNode, Entity
  <2>4. nodes \in SUBSET Node /\ \A n \in nodes : carries[n] \in job[d].hosts
    BY <2>3
  <2>5. at \in Labels \ {"token", "scontrol"}
    BY DEF Labels
  <2> HIDE DEF live, hosts, nodes, at
  <2>6. j \in Job
    BY <1>9, <2>2, <2>4, <2>5, NewDuties
  <2>7. j.nodes = nodes /\ j.hosts = job[d].hosts /\ j.act = job[d].act /\ j.at = at
    BY <1>9 DEF Job
  <2> HIDE DEF j
  <2> QED
    BY <2>1, <2>4, <2>5, <2>6, <2>7, JobStep
<1>20. ASSUME NEW d \in Daemon, ResumeFailedChecks(d)
       PROVE  Kept
  <2> DEFINE update == {h \in job[d].hosts : entity[h].node # None /\ Alive(entity[h].node)}
             other == job[d].hosts \ update
             recover == {h \in other : \/ entity[h].node # None /\ Bad(entity[h].node)
                                       \/ job[d].retry >= MaxFailures}
             nodes == {entity[h].node : h \in recover} \ {None}
             clean == \E n \in Pool : Bad(n)
             at == IF update = {} THEN "clean" ELSE "announce"
             j == [job[d] EXCEPT !.todo = update, !.done = recover, !.rest = other \ recover,
                                 !.nodes = nodes, !.clean = clean, !.at = at]
  <2>1. job' = [job EXCEPT ![d] = j] /\ UNCHANGED carries
    BY <1>20, ZenonT(30) DEF ResumeFailedChecks
  <2>2. /\ update \in SUBSET Host /\ recover \in SUBSET Host
        /\ other \ recover \in SUBSET Host
    BY <1>9
  <2>3. \A h \in recover : entity[h].node # None =>
          h \in job[d].hosts /\ entity[h].node \in Node /\ carries[entity[h].node] = h
    BY <1>9 DEF StorageInv, OfNode, Entity
  <2>4. nodes \in SUBSET Node /\ \A n \in nodes : carries[n] \in job[d].hosts
    BY <2>3
  <2>5. at \in Labels \ {"token", "scontrol"}
    BY DEF Labels
  <2>6. other \ recover # {} => ~(job[d].retry >= MaxFailures)
    OBVIOUS
  <2>7. clean \in BOOLEAN
    OBVIOUS
  <2> HIDE DEF update, other, recover, nodes, clean, at
  <2>8. j \in Job
    BY <1>9, <2>2, <2>4, <2>5, <2>7, NewDuties, ZenonT(40)
  <2>9. /\ j.nodes = nodes /\ j.hosts = job[d].hosts /\ j.at = at
        /\ j.rest = other \ recover /\ j.retry = job[d].retry /\ job[d].retry \in Nat
    BY <1>9 DEF Job
  <2>10. j.rest # {} => j.retry < MaxFailures
    BY <2>6, <2>9 DEF SlurmAssumption
  <2> HIDE DEF j
  <2> QED
    BY <2>1, <2>4, <2>5, <2>8, <2>9, <2>10, JobStep
<1> QED
  BY <1>2, <1>3, <1>4, <1>5, <1>6, <1>7, <1>8, <1>10, <1>11, <1>12, <1>13, <1>14, <1>15,
     <1>16, <1>17, <1>18, <1>19, <1>20 DEF Next, Handle, NodeStep, Waiter

----------------------------------------------------------------------------
(* The action queue and slurmctld *)

LEMMA QueueNext == ASSUME Inv, Next PROVE Typed(queue')
<1> USE DEF Inv, batch, storage, control
<1>1. CASE UNCHANGED queue
  BY <1>1
<1>2. 0 \in 0..(MaxFailures + MaxWaits + 1)
  BY DEF SlurmAssumption
<1>3. \A act \in {"Suspend", "Resume", "ResumeFailed", "WaitForResume"} : act \in Actions
  BY DEF Actions
<1>4. CASE ResumeHosts
  <2>1. PICK hs \in SUBSET Host : queue' = Put(queue, "Resume", hs, 0, TRUE)
    BY <1>4 DEF ResumeHosts
  <2>2. HasRoom(queue)
    BY <1>4 DEF ResumeHosts
  <2> QED
    BY <1>2, <1>3, <2>1, <2>2, PutTyped
<1>5. CASE SuspendHosts
  <2>1. PICK hs \in SUBSET Host : queue' = Put(queue, "Suspend", hs, 0, FALSE)
    BY <1>5 DEF SuspendHosts
  <2>2. HasRoom(queue)
    BY <1>5 DEF SuspendHosts
  <2> QED
    BY <1>2, <1>3, <2>1, <2>2, PutTyped
<1>6. ASSUME NEW h \in Host, ResumeHostsFailed(h)
      PROVE  Typed(queue')
  <2>1. queue' = Put(queue, "ResumeFailed", {h}, 0, TRUE) /\ HasRoom(queue)
    BY <1>6 DEF ResumeHostsFailed
  <2> QED
    BY <1>2, <1>3, <2>1, PutTyped
<1>7. ASSUME NEW h \in Host,
             WaiterSees(h) \/ WaiterMarksUp(h) \/ WaiterTimesOut(h) \/ HostResponds(h)
      PROVE  Typed(queue')
  BY <1>1, <1>7 DEF WaiterSees, WaiterMarksUp, WaiterTimesOut, HostResponds
<1>8. CASE NodeBoots \/ \E n \in Node : NodeStep(n) \/ NodeFault(n)
  BY <1>1, <1>8 DEF NodeBoots, NodeStep, GetNodeAssignment, NodeIsAssigned, NodeRebooted,
     CompleteWrites, NodeFault
<1>9. ASSUME NEW i \in DOMAIN queue, NEW b \in Daemon \cup {None},
             queue' = [queue EXCEPT ![i].by = b]
      PROVE  Typed(queue')
  <2>1. queue[i] \in Message
    BY DEF Typed
  <2>2. [queue[i] EXCEPT !.by = b] \in Message
    BY <2>1, Zenon DEF Message
  <2> QED
    BY <1>9, <2>2 DEF Typed
<1>10. ASSUME NEW d \in Daemon, Finish(d)
       PROVE  Typed(queue')
  BY <1>10 DEF Finish, Without, Typed
<1>11. ASSUME NEW d \in Daemon, Raise(d)
       PROVE  Typed(queue')
  <2>1. queue' = [i \in DOMAIN queue |->
                    IF queue[i].by = d THEN [queue[i] EXCEPT !.by = None] ELSE queue[i]]
    BY <1>11 DEF Raise
  <2>2. ASSUME NEW i \in DOMAIN queue
        PROVE  [queue[i] EXCEPT !.by = None] \in Message /\ queue[i] \in Message
    <3>1. queue[i] \in Message
      BY DEF Typed
    <3>2. [queue[i] EXCEPT !.by = None] \in Message
      BY <3>1, Zenon DEF Message
    <3> QED
      BY <3>1, <3>2
  <2> QED
    BY <2>1, <2>2 DEF Typed
<1>12. ASSUME NEW d \in Daemon, NEW i \in Ids, Take(d, i)
       PROVE  Typed(queue')
  BY <1>9, <1>12 DEF Take
<1>13. ASSUME NEW d \in Daemon, Reappear(d)
       PROVE  Typed(queue')
  BY <1>9, <1>13 DEF Reappear
<1>14. ASSUME NEW d \in Daemon,
              \/ DeleteMessage(d) \/ Crash(d) \/ AddNodesRaises(d) \/ ResumeFailedRaises(d)
       PROVE  Typed(queue')
  BY <1>10, <1>11, <1>14 DEF DeleteMessage, Crash, AddNodesRaises, ResumeFailedRaises
<1>15. ASSUME NEW d \in Daemon,
              \/ ResumeFilter(d) \/ InsertHostEntity(d) \/ InsertToken(d) \/ AddNodesToPool(d)
              \/ SuspendRead(d) \/ SuspendRemove(d) \/ SuspendMark(d) \/ ResumeFailedChecks(d)
              \/ CleanPool(d) \/ ResumeFailedInterrupts(d) \/ ResumeFailedExpels(d)
              \/ WaitSees(d) \/ WaitMarksUp(d)
       PROVE  Typed(queue')
  <2>1. UNCHANGED queue
    BY <1>15 DEF ResumeFilter, InsertHostEntity, InsertToken, AddNodesToPool, SuspendRead,
       SuspendRemove, RemoveNodes, SuspendMark, ResumeFailedChecks, CleanPool,
       ResumeFailedInterrupts, ResumeFailedExpels, WaitSees, WaitMarksUp
  <2> QED
    BY <1>1, <2>1
<1>16. ASSUME NEW d \in Daemon
       PROVE  /\ job[d].todo \in SUBSET Host /\ job[d].done \in SUBSET Host
              /\ job[d].rest \in SUBSET Host /\ job[d].full \in BOOLEAN
              /\ job[d].retry \in Nat
  BY DEF JobsInv, Job
<1>17. ASSUME NEW d \in Daemon, SuspendRequeue(d)
       PROVE  Typed(queue')
  <2>1. ASSUME HasRoom(queue), queue' = Put(queue, "Suspend", job[d].rest, 0, FALSE)
        PROVE  Typed(queue')
    BY <1>2, <1>3, <1>16, <2>1, PutTyped
  <2> QED
    BY <1>10, <1>11, <1>17, <2>1 DEF SuspendRequeue
<1>18. ASSUME NEW d \in Daemon, ResumeFailedAnnounces(d)
       PROVE  Typed(queue')
  <2>1. HasRoom(queue) /\ queue' = Put(queue, "WaitForResume", job[d].todo, 0, FALSE)
    BY <1>18 DEF ResumeFailedAnnounces
  <2> QED
    BY <1>2, <1>3, <1>16, <2>1, PutTyped
<1>19. ASSUME NEW d \in Daemon, ResumeFailedResumes(d)
       PROVE  Typed(queue')
  <2> DEFINE q == Put(queue, "Resume", job[d].done, 0, TRUE)
  <2>1. /\ Cardinality(DOMAIN queue) < MaxMessages - 1
        /\ queue' = Put(q, "WaitForResume", job[d].done, 0, TRUE)
    BY <1>19 DEF ResumeFailedResumes
  <2>2. Cardinality(DOMAIN queue) \in Nat
    BY IdsFinite, FS_Subset, FS_CardinalityType DEF Typed
  <2>3. HasRoom(queue)
    BY <2>1, <2>2 DEF HasRoom, SlurmAssumption
  <2>4. Typed(q) /\ Cardinality(DOMAIN q) = Cardinality(DOMAIN queue) + 1
    BY <1>2, <1>3, <1>16, <2>3, PutTyped
  <2> HIDE DEF q
  <2>5. HasRoom(q)
    BY <2>1, <2>2, <2>4 DEF HasRoom, SlurmAssumption
  <2> QED
    BY <1>2, <1>3, <1>16, <2>1, <2>4, <2>5, PutTyped
<1>20. ASSUME NEW d \in Daemon, ResumeFailedRetries(d)
       PROVE  Typed(queue')
  <2>1. CASE Finish(d)
    BY <1>10, <2>1
  <2>2. CASE /\ job[d].rest # {} /\ HasRoom(queue)
             /\ queue' = Put(queue, "ResumeFailed", job[d].rest, job[d].retry + 1, TRUE)
    <3>1. job[d].retry < MaxFailures
      BY <1>20, <2>2 DEF ResumeFailedRetries, Handling, JobsInv, Retries
    <3>2. job[d].retry + 1 \in 0..(MaxFailures + MaxWaits + 1)
      BY <1>16, <3>1 DEF SlurmAssumption
    <3> QED
      BY <1>3, <1>16, <2>2, <3>2, PutTyped
  <2> QED
    BY <1>20, <2>1, <2>2 DEF ResumeFailedRetries
<1>21. ASSUME NEW d \in Daemon, WaitEnds(d)
       PROVE  Typed(queue')
  <2>1. CASE Finish(d)
    BY <1>10, <2>1
  <2>2. CASE HasRoom(queue) /\ queue' = Put(queue, "ResumeFailed", job[d].todo, 0, job[d].full)
    BY <1>2, <1>3, <1>16, <2>2, PutTyped
  <2>3. CASE /\ HasRoom(queue) /\ ~(job[d].retry > MaxWaits)
             /\ queue' = Put(queue, "WaitForResume", job[d].todo, job[d].retry + 1, job[d].full)
    <3>1. job[d].retry + 1 \in 0..(MaxFailures + MaxWaits + 1)
      BY <1>16, <2>3 DEF SlurmAssumption
    <3> QED
      BY <1>3, <1>16, <2>3, <3>1, PutTyped
  <2> QED
    BY <1>21, <2>1, <2>2, <2>3 DEF WaitEnds
<1> QED
  BY <1>4, <1>5, <1>6, <1>7, <1>8, <1>12, <1>13, <1>14, <1>15, <1>17, <1>18, <1>19, <1>20,
     <1>21 DEF Next, Handle, Waiter

LEMMA ControlNext == ASSUME Inv, Next PROVE ControlInv'
<1> USE DEF Inv, ControlInv, batch, storage, control
<1>1. CASE UNCHANGED <<waiter, slurm, addr, resumes, faults>>
  BY <1>1
<1> DEFINE Faulted == UNCHANGED faults \/ \E kind \in Faulty : Fault(kind)
<1>2. ASSUME Faulted
      PROVE  faults' \in [count : 0..MaxFaults, calm : BOOLEAN]
  <2> SUFFICES ASSUME NEW kind \in Faulty, Fault(kind)
               PROVE  faults' \in [count : 0..MaxFaults, calm : BOOLEAN]
    BY <1>2
  <2>1. faults.count \in 0..MaxFaults /\ faults.count < MaxFaults
    BY DEF Fault
  <2>2. faults.count + 1 \in 0..MaxFaults
    BY <2>1 DEF SlurmAssumption
  <2>3. (faults.calm /\ kind = "node") \in BOOLEAN
    OBVIOUS
  <2> QED
    BY <2>2, <2>3, Zenon DEF Fault
<1> HIDE DEF Faulted
<1>3. ASSUME UNCHANGED <<waiter, slurm, addr, resumes>>, Faulted
      PROVE  ControlInv'
  BY <1>2, <1>3
<1>4. \A h \in Host : entity[h].node \in Node \cup {None}
  BY DEF StorageInv, Entity
<1>5. CASE ResumeHosts
  <2>1. Faulted /\ UNCHANGED addr
    BY <1>5 DEF ResumeHosts, Fault, Faulted
  <2>2. waiter' \in [Host -> {"none", "wait", "seen"}]
    BY <1>5 DEF ResumeHosts
  <2>3. slurm' \in [Host -> {"off", "powering", "on", "down"}]
    BY <1>5 DEF ResumeHosts
  <2>4. resumes' \in 0..MaxResumes
    BY <1>5 DEF ResumeHosts, SlurmAssumption
  <2> QED
    BY <1>2, <2>1, <2>2, <2>3, <2>4
<1>6. CASE SuspendHosts
  BY <1>6 DEF SuspendHosts
<1>7. ASSUME NEW h \in Host, WaiterSees(h) \/ WaiterMarksUp(h) \/ HostResponds(h)
      PROVE  ControlInv'
  BY <1>4, <1>7 DEF WaiterSees, WaiterMarksUp, HostResponds
<1>8. ASSUME NEW h \in Host, WaiterTimesOut(h) \/ ResumeHostsFailed(h)
      PROVE  ControlInv'
  <2>1. Faulted /\ UNCHANGED <<addr, resumes>>
    BY <1>8 DEF WaiterTimesOut, ResumeHostsFailed, Fault, Faulted
  <2>2. /\ waiter' \in [Host -> {"none", "wait", "seen"}]
        /\ slurm' \in [Host -> {"off", "powering", "on", "down"}]
    BY <1>8 DEF WaiterTimesOut, ResumeHostsFailed
  <2> QED
    BY <1>2, <2>1, <2>2
<1>9. CASE NodeBoots \/ \E n \in Node : NodeStep(n) \/ NodeFault(n)
  BY <1>3, <1>9 DEF NodeBoots, NodeStep, GetNodeAssignment, NodeIsAssigned, NodeRebooted,
     CompleteWrites, NodeFault, Fault, Faulted
<1>10. ASSUME NEW d \in Daemon,
              \/ ResumeFilter(d) \/ InsertHostEntity(d) \/ InsertToken(d) \/ AddNodesToPool(d)
              \/ SuspendRead(d) \/ SuspendRemove(d) \/ SuspendMark(d) \/ SuspendRequeue(d)
              \/ ResumeFailedRaises(d) \/ ResumeFailedChecks(d) \/ ResumeFailedAnnounces(d)
              \/ CleanPool(d) \/ ResumeFailedInterrupts(d) \/ ResumeFailedExpels(d)
              \/ ResumeFailedResumes(d) \/ ResumeFailedRetries(d) \/ WaitMarksUp(d)
              \/ WaitEnds(d) \/ DeleteMessage(d) \/ AddNodesRaises(d) \/ Crash(d)
              \/ Reappear(d) \/ \E i \in Ids : Take(d, i)
       PROVE  ControlInv'
  <2>1. UNCHANGED <<waiter, slurm, addr, resumes>> /\ Faulted
    BY <1>10 DEF ResumeFilter, InsertHostEntity, InsertToken, AddNodesToPool, SuspendRead,
       SuspendRemove, RemoveNodes, SuspendMark, SuspendRequeue, ResumeFailedRaises,
       ResumeFailedChecks, ResumeFailedAnnounces, CleanPool, ResumeFailedInterrupts,
       ResumeFailedExpels, ResumeFailedResumes, ResumeFailedRetries, WaitMarksUp, WaitEnds,
       DeleteMessage, AddNodesRaises, Crash, Reappear, Take, Fault, Faulted
  <2> QED
    BY <1>3, <2>1
<1>11. ASSUME NEW d \in Daemon, WaitSees(d)
       PROVE  ControlInv'
  BY <1>4, <1>11 DEF WaitSees, JobsInv, Job
<1> QED
  BY <1>5, <1>6, <1>7, <1>8, <1>9, <1>10, <1>11 DEF Next, Handle, Waiter

----------------------------------------------------------------------------
(* The theorems *)

LEMMA InvInit == Init => Inv
<1> SUFFICES ASSUME Init PROVE Inv
  OBVIOUS
<1> USE DEF Init
<1>1. StorageInv
  BY DEF StorageInv, Entity, OfNode, TokenHasEntity, SlurmAssumption
<1>2. BatchInv
  <2>1. Cardinality(Present) \in Nat
    BY NodesFinite DEF Present
  <2> QED
    BY <2>1 DEF BatchInv, Phases, Carried, Room
<1>3. JobsInv /\ EntityFirst
  <2>1. NoJob \in Job
    BY DEF NoJob, Job, Labels
  <2>2. NoJob.nodes = {} /\ NoJob.rest = {} /\ NoJob.at = "idle"
    BY DEF NoJob
  <2>3. job \in [Daemon -> Job] /\ \A d \in Daemon : job[d] = NoJob
    BY <2>1
  <2> QED
    BY <2>2, <2>3 DEF JobsInv, OwnNodes, Retries, AtHost, EntityFirst
<1>4. Typed(queue)
  BY DEF Typed
<1>5. ControlInv
  BY DEF ControlInv, SlurmAssumption
<1> QED
  BY <1>1, <1>2, <1>3, <1>4, <1>5 DEF Inv

LEMMA InvNext == Inv /\ [Next]_vars => Inv'
<1> SUFFICES ASSUME Inv, [Next]_vars PROVE Inv'
  OBVIOUS
<1>1. CASE Next
  <2>1. /\ StorageInv'
        /\ \A g \in Host : entity[g].state # "None" => entity'[g].state # "None"
    BY <1>1, StorageNext
  <2>2. JobsInv' /\ TokensFollow
    BY <1>1, JobsNext DEF Kept
  <2>3. EntityFirst'
    BY <2>1, <2>2 DEF EntityFirst, TokensFollow, JobsInv, AtHost, Inv
  <2> QED
    BY <1>1, <2>1, <2>2, <2>3, BatchNext, QueueNext, ControlNext DEF Inv
<1>2. CASE UNCHANGED vars
  BY <1>2 DEF vars, storage, batch, control, Inv, StorageInv, OfNode,
     TokenHasEntity, BatchInv, Carried, Room, Present, JobsInv, OwnNodes, Retries, AtHost,
     EntityFirst, Typed, ControlInv
<1> QED
  BY <1>1, <1>2

LEMMA Invariant == Spec => []Inv
BY InvInit, InvNext, PTL DEF Spec

\* Every variable keeps its type: an action queue message is one of the four
\* actions with a retry count the daemon knows, the target of the pool is never
\* negative and never more than Batch has nodes for.
THEOREM TypeCorrect == Spec => []TypeOK
<1>1. Inv => TypeOK
  <2> SUFFICES ASSUME Inv PROVE TypeOK
    OBVIOUS
  <2>1. target \in 0..Cardinality(Node)
    <3>1. Present \in SUBSET Node /\ Cardinality(Node) \in Nat
      BY FS_CardinalityType DEF Present, SlurmAssumption
    <3>2. Cardinality(Present) \in Nat /\ Cardinality(Present) <= Cardinality(Node)
      BY <3>1, NodesFinite
    <3>3. target \in Nat /\ target <= Cardinality(Present)
      BY DEF Inv, BatchInv, Room
    <3> QED
      BY <3>1, <3>2, <3>3
  <2> QED
    BY <2>1 DEF Inv, TypeOK, StorageInv, Entity, BatchInv, JobsInv, Typed, ControlInv
<1> QED
  BY Invariant, <1>1, PTL

\* A node that has a host name, and a token that waits for a node, always find the
\* entity of the host (process_resume_action, check_provisioning_status), for any
\* number of hosts, nodes, controllers, deliveries and crashes.
THEOREM NamesHaveEntities == Spec => []TokenHasEntity
<1>1. Inv => TokenHasEntity
  BY DEF Inv, StorageInv
<1> QED
  BY Invariant, <1>1, PTL

\* Nodes are only removed by the daemon whose message names their host, or because
\* their start task failed (process_suspend_action, process_resume_failed_action,
\* clean_pool): a node id read long ago is still that of a node of the host.
THEOREM OwnNodesRemoved == Spec => RemovesOwnNodes
<1> DEFINE A == \A n \in Node :
                  (n \in Pool /\ phase'[n] = "gone") =>
                    \/ phase[n] = "failed"
                    \/ \E d \in Daemon : job'[d] # job[d] /\ carries[n] \in job[d].hosts
<1>1. ASSUME Inv, Next PROVE A
  <2> SUFFICES ASSUME NEW n \in Node, n \in Pool, phase'[n] = "gone", phase[n] # "failed"
               PROVE  \E d \in Daemon : job'[d] # job[d] /\ carries[n] \in job[d].hosts
    OBVIOUS
  <2> USE <1>1 DEF Inv, batch, storage, control
  <2>1. phase[n] # "gone" /\ phase \in [Node -> Phases]
    BY DEF Pool, BatchInv
  <2>2. ASSUME NEW d \in Daemon, NEW at, RemoveNodes(d), Step(d, at), job[d].at # at
        PROVE  job'[d] # job[d] /\ carries[n] \in job[d].hosts
    <3>1. n \in job[d].nodes
      BY <2>1, <2>2 DEF RemoveNodes
    <3>2. job[d] \in Job /\ job'[d].at = at
      BY <2>2 DEF JobsInv, Step, Job
    <3> QED
      BY <2>2, <3>1, <3>2 DEF JobsInv, OwnNodes
  <2>3. ASSUME NEW d \in Daemon, SuspendRemove(d) \/ ResumeFailedExpels(d)
        PROVE  job'[d] # job[d] /\ carries[n] \in job[d].hosts
    BY <2>2, <2>3 DEF SuspendRemove, ResumeFailedExpels, Handling
  <2>4. ASSUME NEW d \in Daemon, CleanPool(d)
        PROVE  FALSE
    BY <2>1, <2>4 DEF CleanPool, Bad
  <2>5. ASSUME UNCHANGED phase PROVE FALSE
    BY <2>1, <2>5
  <2>6. CASE \/ ResumeHosts \/ SuspendHosts
             \/ \E h \in Host : \/ Waiter(h) \/ WaiterTimesOut(h) \/ HostResponds(h)
                                \/ ResumeHostsFailed(h)
    BY <2>5, <2>6 DEF ResumeHosts, SuspendHosts, Waiter, WaiterSees, WaiterMarksUp,
       WaiterTimesOut, HostResponds, ResumeHostsFailed
  <2>7. ASSUME NEW m, NEW p, p # "gone", phase' = [phase EXCEPT ![m] = p]
        PROVE  FALSE
    BY <2>1, <2>7
  <2>8. CASE NodeBoots
    BY <2>7, <2>8 DEF NodeBoots
  <2>9. ASSUME NEW m \in Node, NodeStep(m) \/ NodeFault(m)
        PROVE  FALSE
    <3>1. PICK p \in {"assigned", "named", "reading", "ready", "failed"} :
            phase' = [phase EXCEPT ![m] = p]
      BY <2>9 DEF NodeStep, GetNodeAssignment, NodeIsAssigned, NodeRebooted, CompleteWrites,
         NodeFault
    <3> QED
      BY <2>7, <3>1
  <2>10. ASSUME NEW d \in Daemon,
                \/ ResumeFilter(d) \/ InsertHostEntity(d) \/ InsertToken(d)
                \/ AddNodesToPool(d) \/ SuspendRead(d) \/ SuspendMark(d)
                \/ SuspendRequeue(d) \/ ResumeFailedRaises(d) \/ ResumeFailedChecks(d)
                \/ ResumeFailedAnnounces(d) \/ ResumeFailedInterrupts(d)
                \/ ResumeFailedResumes(d) \/ ResumeFailedRetries(d)
                \/ WaitSees(d) \/ WaitMarksUp(d) \/ WaitEnds(d) \/ DeleteMessage(d)
                \/ AddNodesRaises(d) \/ Crash(d) \/ Reappear(d) \/ \E i \in Ids : Take(d, i)
         PROVE  FALSE
    <3>1. UNCHANGED phase
      BY <2>10 DEF ResumeFilter, InsertHostEntity, InsertToken, AddNodesToPool, SuspendRead,
         SuspendMark, SuspendRequeue, ResumeFailedRaises, ResumeFailedChecks,
         ResumeFailedAnnounces, ResumeFailedInterrupts, ResumeFailedResumes,
         ResumeFailedRetries, WaitSees, WaitMarksUp, WaitEnds, DeleteMessage, AddNodesRaises,
         Crash, Reappear, Take
    <3> QED
      BY <2>5, <3>1
  <2> QED
    BY <1>1, <2>3, <2>4, <2>6, <2>8, <2>9, <2>10 DEF Next, Handle
<1>2. Inv /\ [Next]_vars => [A]_vars
  BY <1>1
<1> HIDE DEF A
<1>3. Spec => [][A]_vars
  BY Invariant, <1>2, PTL DEF Spec
<1> QED
  BY <1>3 DEF A, RemovesOwnNodes

----------------------------------------------------------------------------
(* While only nodes fail *)

\* The Resume messages for a host that no daemon has taken, the daemons that still
\* owe the host its token, and the nodes that carry it.
Asks(h) ==
  {i \in DOMAIN queue :
     queue[i].by = None /\ queue[i].act = "Resume" /\ h \in queue[i].hosts}
Works(h) ==
  {d \in Daemon :
     job[d].act = "Resume" /\ job[d].at \in {"start", "entity", "token"} /\ h \in job[d].todo}
Runs(h) == {n \in Node : carries[n] = h /\ phase[n] # "gone"}

\* At most one of them, or one token.
Sole(h) ==
  /\ \A i, j \in Asks(h) : i = j
  /\ \A d, c \in Works(h) : d = c
  /\ \A n, m \in Runs(h) : n = m
  /\ tokens[h] \in {0, 1}
  /\ Asks(h) # {} => Works(h) = {} /\ tokens[h] = 0 /\ Runs(h) = {}
  /\ Works(h) # {} => tokens[h] = 0 /\ Runs(h) = {}
  /\ tokens[h] > 0 => Runs(h) = {}

\* What the script that waits for the host, slurmctld and the entity say of it.
Settled == {"Provisioned", "ProvisionInterrupt", "Up"}
Awaited(h) ==
  /\ Asks(h) # {} \/ Works(h) # {} \/ tokens[h] > 0 => waiter[h] = "wait"
  /\ waiter[h] # "none" => slurm[h] = "powering"
  /\ entity[h].state = "Resuming" => waiter[h] = "wait"
  /\ entity[h].state = "Provisioned" => waiter[h] # "none" /\ entity[h].node \in Runs(h)
  /\ waiter[h] = "seen" => entity[h].state \in {"Provisioned", "ProvisionInterrupt"}
  /\ entity[h].state \in Settled => entity[h].node # None
  /\ Runs(h) # {} /\ waiter[h] # "wait" =>
       entity[h].node \in Runs(h) /\ entity[h].state \in Settled

\* A suspended host is off, and keeps its node no longer than the daemon needs.
Leaving(h) ==
  \/ \E i \in DOMAIN queue :
       queue[i].by = None /\ queue[i].act = "Suspend" /\ h \in queue[i].hosts
  \/ \E d \in Daemon :
       job[d].act = "Suspend" /\ job[d].at \in {"start", "remove"} /\ h \in job[d].hosts
Suspends(h) ==
  /\ SuspendPending(h) => slurm[h] = "off"
  /\ slurm[h] = "off" /\ Runs(h) # {} => Leaving(h)
  /\ \A d \in Daemon :
       job[d].act = "Suspend" /\ h \in job[d].hosts =>
         /\ job[d].at = "remove" => Runs(h) \subseteq job[d].nodes
         /\ job[d].at \in {"mark", "requeue"} => Runs(h) = {}

\* Only hosts that are resumed and suspended are on the queue and in work.
RoutineJob(j) ==
  /\ j.act \in {"None", "Resume", "Suspend"}
  /\ j.act = "Resume" /\ j.at = "start" => j.todo = j.hosts
  /\ j.act = "Resume" /\ j.at = "token" => j.cur \in j.todo
  /\ j.act = "Suspend" => j.rest = {} /\ j.todo \subseteq j.hosts
RoutineQueue == \A i \in DOMAIN queue : queue[i].act \in {"Resume", "Suspend"}

Reading == \A n \in Node : phase[n] = "reading" => Resuming(n)

Calm ==
  /\ RoutineQueue /\ \A d \in Daemon : RoutineJob(job[d])
  /\ Reading
  /\ \A h \in Host : Sole(h) /\ Awaited(h) /\ Suspends(h)

LEMMA LeavingPending == \A h \in Host : Leaving(h) => SuspendPending(h)
BY DEF Leaving, SuspendPending

\* A step of a node or of a waiting script leaves the messages alone.
LEMMA SameMessages ==
  ASSUME UNCHANGED <<queue, job>>
  PROVE  /\ \A h \in Host : /\ Asks(h)' = Asks(h) /\ Works(h)' = Works(h)
                            /\ Leaving(h)' = Leaving(h)
                            /\ SuspendPending(h)' = SuspendPending(h)
BY DEF Asks, Works, Leaving, SuspendPending

LEMMA SameNodes ==
  ASSUME UNCHANGED carries, \A n \in Node : phase'[n] = "gone" <=> phase[n] = "gone"
  PROVE  \A h \in Host : Runs(h)' = Runs(h)
BY DEF Runs

LEMMA CalmScripts ==
  ASSUME Inv, Calm, NEW h \in Host, WaiterSees(h) \/ WaiterMarksUp(h) \/ HostResponds(h)
  PROVE  Calm'
<1> USE DEF storage, batch, control
<1>1. UNCHANGED <<queue, job, tokens, phase, carries>>
  BY DEF WaiterSees, WaiterMarksUp, HostResponds
<1>2. \A g \in Host : /\ Asks(g)' = Asks(g) /\ Works(g)' = Works(g)
                      /\ Leaving(g)' = Leaving(g) /\ SuspendPending(g)' = SuspendPending(g)
                      /\ Runs(g)' = Runs(g)
  BY <1>1, SameMessages, SameNodes
<1>3. /\ waiter \in [Host -> {"none", "wait", "seen"}] /\ entity \in [Host -> Entity]
      /\ slurm \in [Host -> {"off", "powering", "on", "down"}]
  BY DEF Inv, ControlInv, StorageInv
<1>4. RoutineQueue' /\ \A d \in Daemon : RoutineJob(job[d])'
  BY <1>1 DEF Calm, RoutineQueue, RoutineJob
<1>5. Sole(h) /\ Awaited(h) /\ Suspends(h) /\ Reading
  BY DEF Calm
<1>6. ASSUME NEW g \in Host
      PROVE  Sole(g)'
  BY <1>1, <1>2 DEF Sole, Calm
<1>7. CASE WaiterSees(h)
  <2>1. /\ waiter' = [waiter EXCEPT ![h] = "seen"] /\ UNCHANGED <<entity, slurm>>
        /\ waiter[h] = "wait" /\ entity[h].state = "Provisioned"
    BY <1>7 DEF WaiterSees
  <2>2. Reading'
    BY <1>1, <1>5, <2>1 DEF Reading, Resuming
  <2>3. Awaited(h)'
    BY <1>1, <1>2, <1>3, <1>5, <2>1 DEF Awaited, Sole, Settled
  <2>4. \A g \in Host \ {h} : Awaited(g)'
    BY <1>1, <1>2, <1>3, <2>1 DEF Calm, Awaited
  <2>5. \A g \in Host : Suspends(g)'
    BY <1>1, <1>2, <1>3, <2>1 DEF Calm, Suspends
  <2> QED
    BY <1>4, <1>6, <2>2, <2>3, <2>4, <2>5 DEF Calm
<1>8. CASE WaiterMarksUp(h)
  <2>1. /\ waiter' = [waiter EXCEPT ![h] = "none"] /\ UNCHANGED slurm
        /\ waiter[h] = "seen" /\ entity' = [entity EXCEPT ![h] = [entity[h] EXCEPT !.state = "Up"]]
    BY <1>8 DEF WaiterMarksUp, Write
  <2>2. /\ entity'[h].state = "Up" /\ entity'[h].node = entity[h].node /\ waiter'[h] = "none"
        /\ \A g \in Host \ {h} : entity'[g] = entity[g] /\ waiter'[g] = waiter[g]
    BY <1>3, <2>1 DEF Entity
  <2>3. Reading'
    <3> SUFFICES ASSUME NEW n \in Node, phase[n] = "reading" PROVE Resuming(n)'
      BY <1>1 DEF Reading
    <3>1. entity[carries[n]].state = "Resuming" /\ carries[n] \in Host
      BY <1>5 DEF Reading, Resuming, Inv, BatchInv, Carried
    <3>2. carries[n] # h
      BY <1>5, <2>1, <3>1 DEF Awaited
    <3> QED
      BY <1>1, <2>2, <3>1, <3>2 DEF Resuming
  <2>4. Awaited(h)'
    BY <1>1, <1>2, <1>3, <1>5, <2>1, <2>2 DEF Awaited, Settled
  <2>5. \A g \in Host \ {h} : Awaited(g)'
    BY <1>1, <1>2, <2>1, <2>2 DEF Calm, Awaited
  <2>6. \A g \in Host : Suspends(g)'
    BY <1>1, <1>2, <2>1 DEF Calm, Suspends
  <2> QED
    BY <1>4, <1>6, <2>3, <2>4, <2>5, <2>6 DEF Calm
<1>9. CASE HostResponds(h)
  <2>1. /\ slurm' = [slurm EXCEPT ![h] = "on"] /\ UNCHANGED <<entity, waiter>>
        /\ waiter[h] = "none" /\ slurm[h] \in {"powering", "down"}
    BY <1>9 DEF HostResponds
  <2>2. Reading'
    BY <1>1, <1>5, <2>1 DEF Reading, Resuming
  <2>3. \A g \in Host : Awaited(g)'
    BY <1>1, <1>2, <1>3, <2>1 DEF Calm, Awaited
  <2>4. Suspends(h)'
    BY <1>1, <1>2, <1>3, <1>5, <2>1 DEF Suspends
  <2>5. \A g \in Host \ {h} : Suspends(g)'
    BY <1>1, <1>2, <1>3, <2>1 DEF Calm, Suspends
  <2> QED
    BY <1>4, <1>6, <2>2, <2>3, <2>4, <2>5 DEF Calm
<1> QED
  BY <1>7, <1>8, <1>9

\* The last word on a host that is Resuming is that of the node that carries it.
LEMMA CalmNodes ==
  ASSUME Inv, Calm, NEW n \in Node,
         \/ NodeIsAssigned(n) \/ NodeRebooted(n) \/ NodeFault(n)
         \/ CompleteWrites(n) /\ faults' = faults
  PROVE  Calm'
<1> USE DEF storage, batch, control
<1>1. UNCHANGED <<queue, job, tokens, carries, waiter, slurm>>
  BY DEF NodeIsAssigned, NodeRebooted, NodeFault, CompleteWrites
<1>2. phase \in [Node -> Phases] /\ carries \in [Node -> Host \cup {None}]
  BY DEF Inv, BatchInv
<1>3. PICK p \in {"named", "reading", "ready", "failed"} : phase' = [phase EXCEPT ![n] = p]
  BY DEF NodeIsAssigned, NodeRebooted, CompleteWrites, NodeFault
<1>4. phase[n] \in {"boot", "assigned", "named", "reading", "ready"}
  BY DEF NodeIsAssigned, NodeRebooted, CompleteWrites, NodeFault
<1>5. \A m \in Node : phase'[m] = "gone" <=> phase[m] = "gone"
  BY <1>2, <1>3, <1>4
<1>6. \A g \in Host : /\ Asks(g)' = Asks(g) /\ Works(g)' = Works(g)
                      /\ Leaving(g)' = Leaving(g) /\ SuspendPending(g)' = SuspendPending(g)
                      /\ Runs(g)' = Runs(g)
  BY <1>1, <1>5, SameMessages, SameNodes
<1>7. entity \in [Host -> Entity]
  BY DEF Inv, StorageInv
<1>8. RoutineQueue' /\ \A d \in Daemon : RoutineJob(job[d])'
  BY <1>1 DEF Calm, RoutineQueue, RoutineJob
<1>9. \A g \in Host : Sole(g)' /\ Suspends(g)'
  BY <1>1, <1>6 DEF Sole, Suspends, Calm
<1>10. CASE UNCHANGED entity /\ (p = "reading" => Resuming(n))
  <2>1. Reading'
    BY <1>1, <1>2, <1>3, <1>10 DEF Reading, Resuming, Calm
  <2>2. \A g \in Host : Awaited(g)'
    BY <1>1, <1>6, <1>10 DEF Awaited, Calm
  <2> QED
    BY <1>8, <1>9, <2>1, <2>2 DEF Calm
<1>11. ASSUME NEW s \in {"ProvisionInterrupt", "Provisioned"}, NEW h \in Host,
              h = carries[n], p # "reading",
              entity' = [entity EXCEPT ![h] = [state |-> s, node |-> n]],
              s = "ProvisionInterrupt" => entity[h].state # "Resuming",
              s = "Provisioned" => phase[n] = "reading"
       PROVE  Calm'
  <2>1. /\ entity'[h].state = s /\ entity'[h].node = n
        /\ \A g \in Host \ {h} : entity'[g] = entity[g]
    BY <1>7, <1>11
  <2>2. n \in Runs(h)
    BY <1>4, <1>11 DEF Runs
  <2>3. Reading'
    <3> SUFFICES ASSUME NEW m \in Node, phase'[m] = "reading" PROVE Resuming(m)'
      BY DEF Reading
    <3>1. phase[m] = "reading" /\ m # n
      BY <1>2, <1>3, <1>11
    <3>2. entity[carries[m]].state = "Resuming" /\ carries[m] \in Host
      BY <3>1 DEF Calm, Reading, Resuming, Inv, BatchInv, Carried
    <3>3. ASSUME carries[m] = h PROVE FALSE
      <4>1. m \in Runs(h)
        BY <3>1, <3>3 DEF Runs
      <4> QED
        BY <2>2, <3>1, <4>1, <1>11 DEF Calm, Sole
    <3> QED
      BY <1>1, <2>1, <3>2, <3>3 DEF Resuming
  <2>4. Awaited(h)'
    <3>1. Awaited(h) /\ Suspends(h)
      BY <1>11 DEF Calm
    <3>2. s = "Provisioned" => waiter[h] = "wait"
      BY <1>11, <3>1 DEF Calm, Reading, Resuming, Awaited
    <3>3. n # None
      BY DEF SlurmAssumption
    <3> QED
      BY <1>1, <1>6, <2>1, <2>2, <3>1, <3>2, <3>3 DEF Awaited, Settled
  <2>5. \A g \in Host \ {h} : Awaited(g)'
    BY <1>1, <1>6, <2>1 DEF Calm, Awaited
  <2> QED
    BY <1>8, <1>9, <2>3, <2>4, <2>5 DEF Calm
<1>12. phase[n] # "boot" => carries[n] \in Host
  BY <1>4 DEF Inv, BatchInv, Carried
<1>13. ASSUME Interrupt(n), ~Resuming(n), carries[n] \in Host, p # "reading"
       PROVE  Calm'
  BY <1>10, <1>11, <1>13 DEF Interrupt, Resuming, Write
<1>14. CASE NodeIsAssigned(n)
  BY <1>2, <1>3, <1>10, <1>12, <1>13, <1>14 DEF NodeIsAssigned
<1>15. CASE NodeRebooted(n)
  BY <1>2, <1>3, <1>10, <1>12, <1>13, <1>15 DEF NodeRebooted
<1>16. CASE NodeFault(n)
  BY <1>2, <1>3, <1>10, <1>16 DEF NodeFault
<1>17. CASE CompleteWrites(n) /\ faults' = faults
  <2>1. phase[n] = "reading" /\ p = "ready"
    BY <1>2, <1>3, <1>17 DEF CompleteWrites
  <2>2. CASE Write(carries[n], [state |-> "Provisioned", node |-> n])
    BY <1>11, <1>12, <2>1, <2>2 DEF Write
  <2>3. CASE UNCHANGED entity
    BY <1>10, <2>1, <2>3
  <2> QED
    BY <1>17, <2>2, <2>3 DEF CompleteWrites
<1> QED
  BY <1>14, <1>15, <1>16, <1>17

LEMMA CalmBoots ==
  ASSUME Inv, Calm, NodeBoots
  PROVE  Calm'
<1> USE DEF storage, batch, control
<1>1. PICK n \in Node : phase[n] = "unborn" /\ phase' = [phase EXCEPT ![n] = "boot"]
  BY BootsUnborn DEF Inv
<1>2. UNCHANGED <<queue, job, tokens, entity, carries, waiter, slurm>>
  BY DEF NodeBoots
<1>3. phase \in [Node -> Phases]
  BY DEF Inv, BatchInv
<1>4. \A m \in Node : /\ phase'[m] = "gone" <=> phase[m] = "gone"
                      /\ phase'[m] = "reading" <=> phase[m] = "reading"
  BY <1>1, <1>3
<1>5. \A g \in Host : /\ Asks(g)' = Asks(g) /\ Works(g)' = Works(g)
                      /\ Leaving(g)' = Leaving(g) /\ SuspendPending(g)' = SuspendPending(g)
                      /\ Runs(g)' = Runs(g)
  BY <1>2, <1>4, SameMessages, SameNodes
<1>6. RoutineQueue' /\ \A d \in Daemon : RoutineJob(job[d])'
  BY <1>2 DEF Calm, RoutineQueue, RoutineJob
<1>7. Reading'
  BY <1>2, <1>4 DEF Calm, Reading, Resuming
<1>8. \A g \in Host : Sole(g)' /\ Awaited(g)' /\ Suspends(g)'
  BY <1>2, <1>5 DEF Calm, Sole, Awaited, Suspends
<1> QED
  BY <1>6, <1>7, <1>8 DEF Calm

\* The token of a host goes to one node.
LEMMA CalmAssigns ==
  ASSUME Inv, Calm, NEW n \in Node, GetNodeAssignment(n), faults' = faults
  PROVE  Calm'
<1> USE DEF storage, batch, control
<1>1. PICK h \in Host :
        /\ tokens[h] > 0 /\ carries' = [carries EXCEPT ![n] = h]
        /\ \/ tokens' = [tokens EXCEPT ![h] = @ - 1]
           \/ Fault("redeliver")
  BY DEF GetNodeAssignment
<1>2. tokens' = [tokens EXCEPT ![h] = @ - 1]
  BY <1>1 DEF Fault, Inv, ControlInv
<1>3. /\ phase[n] = "boot" /\ phase' = [phase EXCEPT ![n] = "assigned"]
      /\ UNCHANGED <<queue, job, entity, waiter, slurm>>
  BY DEF GetNodeAssignment
<1>4. /\ phase \in [Node -> Phases] /\ carries \in [Node -> Host \cup {None}]
      /\ carries[n] = None /\ tokens \in [Host -> Nat]
  BY <1>3 DEF Inv, BatchInv, Carried, StorageInv
<1>5. \A g \in Host : /\ Asks(g)' = Asks(g) /\ Works(g)' = Works(g)
                      /\ Leaving(g)' = Leaving(g) /\ SuspendPending(g)' = SuspendPending(g)
  BY <1>3, SameMessages
<1>6. /\ Sole(h) /\ Awaited(h) /\ Suspends(h) /\ Reading
      /\ waiter[h] = "wait" /\ slurm[h] = "powering"
  BY <1>1 DEF Calm, Awaited
<1>7. tokens[h] = 1 /\ Asks(h) = {} /\ Works(h) = {} /\ Runs(h) = {}
  BY <1>1, <1>6 DEF Sole
<1>8. Runs(h)' = {n}
  BY <1>1, <1>3, <1>4, <1>7 DEF Runs
<1>9. \A g \in Host \ {h} : Runs(g)' = Runs(g)
  BY <1>1, <1>3, <1>4 DEF Runs, SlurmAssumption
<1>10. RoutineQueue' /\ \A d \in Daemon : RoutineJob(job[d])'
  BY <1>3 DEF Calm, RoutineQueue, RoutineJob
<1>11. Reading'
  BY <1>1, <1>3, <1>4, <1>6 DEF Reading, Resuming
<1>12. tokens'[h] = 0 /\ \A g \in Host \ {h} : tokens'[g] = tokens[g]
  BY <1>2, <1>4, <1>7
<1>13. Sole(h)'
  BY <1>5, <1>7, <1>8, <1>12 DEF Sole
<1>14. Awaited(h)'
  BY <1>3, <1>5, <1>6, <1>7, <1>8 DEF Awaited
<1>15. Suspends(h)'
  BY <1>3, <1>5, <1>6 DEF Suspends, SuspendPending
<1>16. \A g \in Host \ {h} : Sole(g)' /\ Awaited(g)' /\ Suspends(g)'
  BY <1>3, <1>5, <1>9, <1>12 DEF Calm, Sole, Awaited, Suspends
<1> QED
  BY <1>10, <1>11, <1>13, <1>14, <1>15, <1>16 DEF Calm

\* A message put on the queue, and nothing else about messages.
LEMMA PutMessage ==
  ASSUME Inv, Calm, HasRoom(queue), UNCHANGED job, NEW hs \in SUBSET Host,
         NEW act \in {"Resume", "Suspend"}, NEW full \in BOOLEAN,
         queue' = Put(queue, act, hs, 0, full)
  PROVE  /\ RoutineQueue' /\ \A d \in Daemon : RoutineJob(job[d])'
         /\ \A h \in Host :
              /\ h \notin hs \/ act = "Suspend" => Asks(h)' = Asks(h)
              /\ h \in hs /\ act = "Resume" /\ Asks(h) = {} =>
                   Asks(h)' # {} /\ \A i, j \in Asks(h)' : i = j
              /\ Works(h)' = Works(h)
              /\ Leaving(h)' <=> Leaving(h) \/ (act = "Suspend" /\ h \in hs)
              /\ SuspendPending(h)' <=> SuspendPending(h) \/ (act = "Suspend" /\ h \in hs)
<1> DEFINE k == FreeId(queue)
<1>1. k \notin DOMAIN queue
  BY FreeIdIsFree DEF Inv
<1>2. /\ DOMAIN queue' = DOMAIN queue \cup {k}
      /\ queue'[k] = [act |-> act, hosts |-> hs, retry |-> 0, full |-> full, by |-> None]
      /\ \A j \in DOMAIN queue : queue'[j] = queue[j]
  BY <1>1 DEF Put
<1> HIDE DEF k
<1>3. RoutineQueue' /\ \A d \in Daemon : RoutineJob(job[d])'
  BY <1>2 DEF Calm, RoutineQueue, RoutineJob
<1>4. ASSUME NEW h \in Host
      PROVE  /\ Asks(h)' = IF act = "Resume" /\ h \in hs THEN Asks(h) \cup {k} ELSE Asks(h)
             /\ Works(h)' = Works(h)
             /\ Leaving(h)' <=> Leaving(h) \/ (act = "Suspend" /\ h \in hs)
             /\ SuspendPending(h)' <=> SuspendPending(h) \/ (act = "Suspend" /\ h \in hs)
  <2>1. Asks(h)' = IF act = "Resume" /\ h \in hs THEN Asks(h) \cup {k} ELSE Asks(h)
    BY <1>1, <1>2 DEF Asks
  <2>2. Works(h)' = Works(h)
    BY DEF Works
  <2>3. Leaving(h)' <=> Leaving(h) \/ (act = "Suspend" /\ h \in hs)
    BY <1>1, <1>2 DEF Leaving
  <2>4. SuspendPending(h)' <=> SuspendPending(h) \/ (act = "Suspend" /\ h \in hs)
    BY <1>1, <1>2 DEF SuspendPending
  <2> QED
    BY <2>1, <2>2, <2>3, <2>4
<1> QED
  BY <1>3, <1>4

\* slurmctld powers up hosts that no node carries any more.
LEMMA CalmResumes ==
  ASSUME Inv, Calm, ResumeHosts, faults' = faults
  PROVE  Calm'
<1> USE DEF storage, batch, control
<1>1. PICK hs \in SUBSET {h \in Host : slurm[h] = "off" /\ waiter[h] = "none"} :
        /\ IF \E h \in hs : SuspendPending(h) THEN Fault("slow") ELSE UNCHANGED faults
        /\ queue' = Put(queue, "Resume", hs, 0, TRUE)
        /\ waiter' = [h \in Host |-> IF h \in hs THEN "wait" ELSE waiter[h]]
        /\ slurm' = [h \in Host |-> IF h \in hs THEN "powering" ELSE slurm[h]]
  BY DEF ResumeHosts
<1>2. HasRoom(queue) /\ UNCHANGED <<tokens, entity, phase, carries, job>>
  BY DEF ResumeHosts
<1>3. \A h \in hs : ~SuspendPending(h)
  BY <1>1 DEF Fault, Inv, ControlInv
<1>4. hs \in SUBSET Host
  BY <1>1
<1>5. /\ RoutineQueue' /\ \A d \in Daemon : RoutineJob(job[d])'
      /\ \A h \in Host :
           /\ h \notin hs => Asks(h)' = Asks(h)
           /\ h \in hs /\ Asks(h) = {} => Asks(h)' # {} /\ \A i, j \in Asks(h)' : i = j
           /\ Works(h)' = Works(h)
           /\ Leaving(h)' <=> Leaving(h)
           /\ SuspendPending(h)' <=> SuspendPending(h)
  BY <1>1, <1>2, <1>4, PutMessage
<1>6. \A h \in Host : Runs(h)' = Runs(h)
  BY <1>2, SameNodes
<1>7. Reading'
  BY <1>2 DEF Calm, Reading, Resuming
<1>8. ASSUME NEW h \in hs
      PROVE  Sole(h)' /\ Awaited(h)' /\ Suspends(h)'
  <2>1. h \in Host /\ slurm[h] = "off" /\ waiter[h] = "none"
    BY <1>1
  <2>2. Sole(h) /\ Awaited(h) /\ Suspends(h)
    BY <2>1 DEF Calm
  <2>3. Asks(h) = {} /\ Works(h) = {} /\ tokens[h] = 0 /\ Runs(h) = {}
    BY <1>3, <2>1, <2>2, LeavingPending DEF Sole, Awaited, Suspends
  <2>4. waiter'[h] = "wait" /\ slurm'[h] = "powering"
    BY <1>1, <2>1
  <2>5. Sole(h)'
    BY <1>2, <1>5, <1>6, <2>1, <2>3 DEF Sole
  <2>6. Awaited(h)'
    BY <1>2, <1>5, <1>6, <2>1, <2>2, <2>3, <2>4 DEF Awaited
  <2>7. Suspends(h)'
    BY <1>2, <1>3, <1>5, <2>1, <2>4 DEF Suspends, SuspendPending
  <2> QED
    BY <2>5, <2>6, <2>7
<1>9. ASSUME NEW h \in Host \ hs
      PROVE  Sole(h)' /\ Awaited(h)' /\ Suspends(h)'
  <2>1. waiter'[h] = waiter[h] /\ slurm'[h] = slurm[h]
    BY <1>1
  <2> QED
    BY <1>2, <1>5, <1>6, <2>1 DEF Calm, Sole, Awaited, Suspends
<1> QED
  BY <1>5, <1>7, <1>8, <1>9 DEF Calm

LEMMA CalmSuspends ==
  ASSUME Inv, Calm, SuspendHosts
  PROVE  Calm'
<1> USE DEF storage, batch, control
<1>1. PICK hs \in SUBSET {h \in Host : slurm[h] = "on"} :
        /\ queue' = Put(queue, "Suspend", hs, 0, FALSE)
        /\ slurm' = [h \in Host |-> IF h \in hs THEN "off" ELSE slurm[h]]
  BY DEF SuspendHosts
<1>2. HasRoom(queue) /\ UNCHANGED <<tokens, entity, phase, carries, job, waiter>>
  BY DEF SuspendHosts
<1>3. hs \in SUBSET Host
  BY <1>1
<1>4. /\ RoutineQueue' /\ \A d \in Daemon : RoutineJob(job[d])'
      /\ \A h \in Host :
           /\ Asks(h)' = Asks(h) /\ Works(h)' = Works(h)
           /\ Leaving(h)' <=> Leaving(h) \/ h \in hs
           /\ SuspendPending(h)' <=> SuspendPending(h) \/ h \in hs
  BY <1>1, <1>2, <1>3, PutMessage
<1>5. \A h \in Host : Runs(h)' = Runs(h)
  BY <1>2, SameNodes
<1>6. Reading'
  BY <1>2 DEF Calm, Reading, Resuming
<1>7. \A h \in Host : Sole(h)'
  BY <1>2, <1>4, <1>5 DEF Calm, Sole
<1>8. \A h \in Host : Awaited(h)'
  BY <1>1, <1>2, <1>4, <1>5 DEF Calm, Awaited
<1>9. \A h \in Host : Suspends(h)'
  BY <1>1, <1>2, <1>4, <1>5 DEF Calm, Suspends
<1> QED
  BY <1>4, <1>6, <1>7, <1>8, <1>9 DEF Calm

\* A daemon goes on with a Resume message.
LEMMA ResumeMoves ==
  ASSUME Inv, Calm, NEW d \in Daemon, NEW j, job' = [job EXCEPT ![d] = j],
         job[d].act = "Resume", j.act = "Resume", j.hosts = job[d].hosts, RoutineJob(j),
         UNCHANGED <<queue, phase, carries, slurm>>
  PROVE  /\ RoutineQueue' /\ \A c \in Daemon : RoutineJob(job[c])'
         /\ \A h \in Host :
              /\ Asks(h)' = Asks(h) /\ Runs(h)' = Runs(h) /\ Suspends(h)'
              /\ Works(h)' = IF j.at \in {"start", "entity", "token"} /\ h \in j.todo
                               THEN Works(h) \cup {d} ELSE Works(h) \ {d}
<1>1. /\ job'[d] = j /\ \A c \in Daemon \ {d} : job'[c] = job[c]
  BY DEF Inv, JobsInv
<1>2. RoutineQueue' /\ \A c \in Daemon : RoutineJob(job[c])'
  BY <1>1 DEF Calm, RoutineQueue, RoutineJob
<1>3. ASSUME NEW h \in Host
      PROVE  /\ Asks(h)' = Asks(h) /\ Runs(h)' = Runs(h) /\ Suspends(h)'
             /\ Works(h)' = IF j.at \in {"start", "entity", "token"} /\ h \in j.todo
                              THEN Works(h) \cup {d} ELSE Works(h) \ {d}
  <2>1. Asks(h)' = Asks(h) /\ Runs(h)' = Runs(h)
    BY DEF Asks, Runs
  <2>2. Works(h)' = IF j.at \in {"start", "entity", "token"} /\ h \in j.todo
                      THEN Works(h) \cup {d} ELSE Works(h) \ {d}
    BY <1>1 DEF Works
  <2>3. Leaving(h)' <=> Leaving(h)
    BY <1>1 DEF Leaving
  <2>4. SuspendPending(h)' <=> SuspendPending(h)
    BY <1>1 DEF SuspendPending
  <2>5. Suspends(h)'
    BY <1>1, <2>1, <2>3, <2>4 DEF Calm, Suspends
  <2> QED
    BY <2>1, <2>2, <2>5
<1> QED
  BY <1>2, <1>3

\* process_resume_action: the host is worked on by one daemon until its token is on
\* the queue.
LEMMA CalmResumeAction ==
  ASSUME Inv, Calm, NEW d \in Daemon,
         ResumeFilter(d) \/ InsertHostEntity(d) \/ InsertToken(d) \/ AddNodesToPool(d)
  PROVE  Calm'
<1> USE DEF storage, batch, control
<1>1. /\ job[d] \in Job /\ RoutineJob(job[d]) /\ job[d].act = "Resume"
      /\ job \in [Daemon -> Job] /\ entity \in [Host -> Entity] /\ tokens \in [Host -> Nat]
  BY DEF Inv, JobsInv, StorageInv, Calm, Handling, ResumeFilter, InsertHostEntity,
     InsertToken, AddNodesToPool
<1>2. UNCHANGED <<queue, phase, carries, slurm, waiter>>
  BY DEF ResumeFilter, InsertHostEntity, InsertToken, AddNodesToPool
<1>3. ASSUME NEW j, job' = [job EXCEPT ![d] = j], UNCHANGED <<entity, tokens>>,
             j.act = "Resume", j.hosts = job[d].hosts, RoutineJob(j),
             \/ j.at \notin {"start", "entity", "token"}
             \/ /\ j.todo \subseteq job[d].todo
                /\ job[d].at \in {"start", "entity", "token"}
      PROVE  Calm'
  <2>1. /\ RoutineQueue' /\ \A c \in Daemon : RoutineJob(job[c])'
        /\ \A h \in Host :
             /\ Asks(h)' = Asks(h) /\ Runs(h)' = Runs(h) /\ Suspends(h)'
             /\ Works(h)' \subseteq Works(h)
    <3>1. \A h \in Host : h \in job[d].todo /\ job[d].at \in {"start", "entity", "token"}
                            => d \in Works(h)
      BY <1>1 DEF Works
    <3>2. /\ RoutineQueue' /\ \A c \in Daemon : RoutineJob(job[c])'
          /\ \A h \in Host :
               /\ Asks(h)' = Asks(h) /\ Runs(h)' = Runs(h) /\ Suspends(h)'
               /\ Works(h)' = IF j.at \in {"start", "entity", "token"} /\ h \in j.todo
                                THEN Works(h) \cup {d} ELSE Works(h) \ {d}
      BY <1>1, <1>2, <1>3, ResumeMoves
    <3> QED
      BY <1>3, <3>1, <3>2
  <2>2. Reading'
    BY <1>2, <1>3 DEF Calm, Reading, Resuming
  <2>3. \A h \in Host : Sole(h)' /\ Awaited(h)'
    BY <1>2, <1>3, <2>1 DEF Calm, Sole, Awaited
  <2> QED
    BY <2>1, <2>2, <2>3 DEF Calm
<1>4. CASE ResumeFilter(d)
  <2> DEFINE hosts == {h \in job[d].hosts : entity[h].state \notin {"Resuming", "Up"}}
             j == [job[d] EXCEPT !.todo = hosts,
                                 !.at = IF hosts = {} THEN "delete" ELSE "entity"]
  <2>1. /\ job' = [job EXCEPT ![d] = j] /\ job[d].at = "start"
        /\ UNCHANGED <<entity, tokens>>
    BY <1>4 DEF ResumeFilter, Handling
  <2>2. /\ j.act = job[d].act /\ j.hosts = job[d].hosts /\ j.todo = hosts
        /\ j.at \in {"delete", "entity"}
    BY <1>1 DEF Job
  <2>3. hosts \subseteq job[d].todo
    BY <1>1, <2>1 DEF RoutineJob
  <2> HIDE DEF j, hosts
  <2>4. RoutineJob(j)
    BY <1>1, <2>2 DEF RoutineJob
  <2> QED
    BY <1>1, <1>3, <2>1, <2>2, <2>3, <2>4
<1>5. CASE AddNodesToPool(d)
  <2> DEFINE j == [job[d] EXCEPT !.at = "delete"]
  <2>1. job' = [job EXCEPT ![d] = j] /\ UNCHANGED <<entity, tokens>>
    BY <1>5 DEF AddNodesToPool, Step
  <2>2. j.act = job[d].act /\ j.hosts = job[d].hosts /\ j.at = "delete"
    BY <1>1 DEF Job
  <2> HIDE DEF j
  <2>3. RoutineJob(j)
    BY <1>1, <2>2 DEF RoutineJob
  <2> QED
    BY <1>1, <1>3, <2>1, <2>2, <2>3
<1>6. CASE InsertHostEntity(d)
  <2>1. PICK h \in job[d].todo :
          /\ Write(h, [state |-> "Resuming", node |-> None])
          /\ job' = [job EXCEPT ![d].cur = h, ![d].at = "token"]
    BY <1>6 DEF InsertHostEntity
  <2> DEFINE j == [job[d] EXCEPT !.cur = h, !.at = "token"]
  <2>2. job' = [job EXCEPT ![d] = j] /\ job[d].at = "entity" /\ UNCHANGED tokens
    BY <1>1, <1>6, <2>1 DEF InsertHostEntity, Handling
  <2>3. /\ j.act = job[d].act /\ j.hosts = job[d].hosts /\ j.todo = job[d].todo
        /\ j.at = "token" /\ j.cur = h
    BY <1>1 DEF Job
  <2> HIDE DEF j
  <2>4. RoutineJob(j)
    BY <1>1, <2>3 DEF RoutineJob
  <2>5. /\ RoutineQueue' /\ \A c \in Daemon : RoutineJob(job[c])'
        /\ \A g \in Host :
             /\ Asks(g)' = Asks(g) /\ Runs(g)' = Runs(g) /\ Suspends(g)'
             /\ Works(g)' = Works(g)
    <3>1. \A g \in Host : g \in j.todo <=> d \in Works(g)
      BY <1>1, <2>2, <2>3 DEF Works
    <3>2. /\ RoutineQueue' /\ \A c \in Daemon : RoutineJob(job[c])'
          /\ \A g \in Host :
               /\ Asks(g)' = Asks(g) /\ Runs(g)' = Runs(g) /\ Suspends(g)'
               /\ Works(g)' = IF j.at \in {"start", "entity", "token"} /\ g \in j.todo
                                THEN Works(g) \cup {d} ELSE Works(g) \ {d}
      BY <1>1, <1>2, <2>2, <2>3, <2>4, ResumeMoves
    <3> QED
      BY <2>3, <3>1, <3>2
  <2>6. h \in Host /\ Works(h) # {}
    BY <1>1, <2>2 DEF Works, Job
  <2>7. /\ entity'[h] = [state |-> "Resuming", node |-> None]
        /\ \A g \in Host \ {h} : entity'[g] = entity[g]
    BY <1>1, <2>1, <2>6 DEF Write
  <2>8. Reading'
    <3> SUFFICES ASSUME NEW n \in Node, phase[n] = "reading" PROVE Resuming(n)'
      BY <1>2 DEF Reading
    <3>1. entity[carries[n]].state = "Resuming" /\ carries[n] \in Host
      BY DEF Calm, Reading, Resuming, Inv, BatchInv, Carried
    <3> QED
      BY <1>2, <2>7, <3>1 DEF Resuming
  <2>9. \A g \in Host : Sole(g)'
    BY <2>2, <2>5 DEF Calm, Sole
  <2>10. Awaited(h)'
    BY <1>2, <2>2, <2>5, <2>6, <2>7 DEF Calm, Awaited, Settled
  <2>11. \A g \in Host \ {h} : Awaited(g)'
    BY <1>2, <2>2, <2>5, <2>7 DEF Calm, Awaited
  <2> QED
    BY <2>5, <2>8, <2>9, <2>10, <2>11 DEF Calm
<1>7. CASE InsertToken(d)
  <2>1. PICK h \in Host : h = job[d].cur /\ h \in job[d].todo
    BY <1>1, <1>7 DEF InsertToken, Handling, RoutineJob, Job
  <2> DEFINE left == job[d].todo \ {h}
             j == [job[d] EXCEPT !.todo = left, !.done = @ \cup {h}, !.cur = None,
                                 !.at = IF left = {} THEN "grow" ELSE "entity"]
  <2>2. /\ tokens' = [tokens EXCEPT ![h] = @ + 1] /\ job[d].at = "token"
        /\ UNCHANGED entity
    BY <1>7, <2>1 DEF InsertToken, Handling
  <2>3. job' = [job EXCEPT ![d] = j]
    BY <1>1, <1>7, <2>1 DEF InsertToken, Job
  <2>4. /\ j.act = job[d].act /\ j.hosts = job[d].hosts /\ j.todo = left
        /\ j.at = IF left = {} THEN "grow" ELSE "entity"
    BY <1>1 DEF Job
  <2> HIDE DEF j
  <2>5. RoutineJob(j)
    BY <1>1, <2>4 DEF RoutineJob
  <2>6. /\ RoutineQueue' /\ \A c \in Daemon : RoutineJob(job[c])'
        /\ \A g \in Host :
             /\ Asks(g)' = Asks(g) /\ Runs(g)' = Runs(g) /\ Suspends(g)'
             /\ Works(g)' = IF g = h THEN Works(h) \ {d} ELSE Works(g)
    <3>1. \A g \in Host : g \in job[d].todo <=> d \in Works(g)
      BY <1>1, <2>2 DEF Works
    <3>2. /\ RoutineQueue' /\ \A c \in Daemon : RoutineJob(job[c])'
          /\ \A g \in Host :
               /\ Asks(g)' = Asks(g) /\ Runs(g)' = Runs(g) /\ Suspends(g)'
               /\ Works(g)' = IF j.at \in {"start", "entity", "token"} /\ g \in j.todo
                                THEN Works(g) \cup {d} ELSE Works(g) \ {d}
      BY <1>1, <1>2, <2>3, <2>4, <2>5, ResumeMoves
    <3> QED
      BY <2>1, <2>4, <3>1, <3>2
  <2>7. /\ Works(h) = {d} /\ Asks(h) = {} /\ tokens[h] = 0 /\ Runs(h) = {}
        /\ waiter[h] = "wait"
    <3>1. d \in Works(h) /\ Works(h) \subseteq Daemon
      BY <1>1, <2>2, <2>1 DEF Works
    <3> QED
      BY <2>1, <3>1 DEF Calm, Sole, Awaited
  <2>8. tokens'[h] = 1 /\ \A g \in Host \ {h} : tokens'[g] = tokens[g]
    BY <1>1, <2>2, <2>1, <2>7
  <2>9. Reading'
    BY <1>2, <2>2 DEF Calm, Reading, Resuming
  <2>10. Sole(h)'
    BY <2>1, <2>6, <2>7, <2>8 DEF Sole
  <2>11. Awaited(h)'
    BY <1>2, <2>2, <2>1, <2>6, <2>7, <2>8 DEF Calm, Awaited
  <2>12. \A g \in Host \ {h} : Sole(g)' /\ Awaited(g)'
    BY <1>2, <2>2, <2>6, <2>8 DEF Calm, Sole, Awaited
  <2> QED
    BY <2>1, <2>6, <2>9, <2>10, <2>11, <2>12 DEF Calm
<1> QED
  BY <1>4, <1>5, <1>6, <1>7

\* A message is taken: what it asks for is as much as before.
LEMMA CalmTakes ==
  ASSUME Inv, Calm, NEW d \in Daemon, NEW i \in Ids, Take(d, i)
  PROVE  Calm'
<1> USE DEF storage, batch, control
<1> DEFINE m == queue[i]
<1>1. /\ job[d].at = "idle" /\ i \in DOMAIN queue /\ m.by = None
      /\ queue' = [queue EXCEPT ![i].by = d]
      /\ UNCHANGED <<tokens, entity, phase, carries, waiter, slurm>>
  BY DEF Take
<1>2. /\ job \in [Daemon -> Job] /\ queue[i] \in Message
      /\ entity \in [Host -> Entity] /\ tokens \in [Host -> Nat]
  BY <1>1 DEF Inv, JobsInv, StorageInv, Typed
<1>3. /\ DOMAIN queue' = DOMAIN queue
      /\ queue'[i].by = d /\ queue'[i].act = m.act /\ queue'[i].hosts = m.hosts
      /\ \A k \in DOMAIN queue \ {i} : queue'[k] = queue[k]
  BY <1>1, <1>2 DEF Message
<1>4. /\ job'[d].at = "start" /\ job'[d].act = m.act /\ job'[d].hosts = m.hosts
      /\ job'[d].todo = m.hosts /\ job'[d].rest = {}
      /\ \A c \in Daemon \ {d} : job'[c] = job[c]
  BY <1>2 DEF Take, NoJob
<1>5. d # None /\ m.hosts \subseteq Host
  BY <1>2 DEF SlurmAssumption, Message
<1> HIDE DEF m
<1>6. m.act \in {"Resume", "Suspend"} /\ RoutineQueue'
  BY <1>1, <1>3 DEF Calm, RoutineQueue, m
<1>7. \A c \in Daemon : RoutineJob(job[c])'
  <2>1. RoutineJob(job[d])'
    BY <1>4, <1>6 DEF RoutineJob
  <2>2. \A c \in Daemon \ {d} : RoutineJob(job[c])'
    BY <1>4 DEF Calm, RoutineJob
  <2> QED
    BY <2>1, <2>2
<1>8. Reading'
  BY <1>1 DEF Calm, Reading, Resuming
<1>9. \A h \in Host : Runs(h)' = Runs(h)
  BY <1>1, SameNodes
<1>10. ASSUME NEW h \in Host
       PROVE  Sole(h)' /\ Awaited(h)' /\ Suspends(h)'
  <2>1. Sole(h) /\ Awaited(h) /\ Suspends(h)
    BY DEF Calm
  <2>2. CASE m.act = "Resume" /\ h \in m.hosts
    <3>1. Asks(h) = {i} /\ Asks(h)' = {}
      <4>1. i \in Asks(h)
        BY <1>1, <2>2 DEF Asks, m
      <4>2. Asks(h) = {i}
        BY <2>1, <4>1 DEF Sole
      <4>3. Asks(h)' \subseteq Asks(h) \ {i}
        BY <1>3, <1>5 DEF Asks
      <4> QED
        BY <4>2, <4>3
    <3>2. Works(h)' = {d}
      <4>1. Works(h) = {}
        BY <2>1, <3>1 DEF Sole
      <4> QED
        BY <1>4, <2>2, <4>1 DEF Works
    <3>3. Sole(h)'
      BY <1>1, <1>9, <2>1, <3>1, <3>2 DEF Sole
    <3>4. Awaited(h)'
      BY <1>1, <1>9, <2>1, <3>1, <3>2 DEF Awaited
    <3>5. waiter[h] = "wait" /\ slurm[h] = "powering"
      BY <2>1, <3>1 DEF Awaited
    <3>6. ~SuspendPending(h)
      BY <2>1, <3>5 DEF Suspends
    <3>7. ~SuspendPending(h)'
      BY <1>3, <1>4, <2>2, <3>6 DEF SuspendPending
    <3>8. Suspends(h)'
      BY <1>1, <3>5, <3>7 DEF Suspends, SuspendPending
    <3> QED
      BY <3>3, <3>4, <3>8
  <2>3. CASE m.act = "Suspend" \/ h \notin m.hosts
    <3>1. Asks(h)' = Asks(h)
      BY <1>3, <1>5, <2>3 DEF Asks, m
    <3>2. Works(h)' = Works(h)
      BY <1>1, <1>4, <2>3 DEF Works
    <3>3. Leaving(h) => Leaving(h)'
      <4>1. ASSUME NEW k \in DOMAIN queue, queue[k].by = None, queue[k].act = "Suspend",
                   h \in queue[k].hosts
            PROVE  Leaving(h)'
        <5>1. CASE k = i
          BY <1>4, <4>1, <5>1 DEF Leaving, m
        <5>2. CASE k # i
          BY <1>3, <4>1, <5>2 DEF Leaving
        <5> QED
          BY <5>1, <5>2
      <4>2. ASSUME NEW c \in Daemon, job[c].act = "Suspend", job[c].at \in {"start", "remove"},
                   h \in job[c].hosts
            PROVE  Leaving(h)'
        BY <1>1, <1>4, <4>2 DEF Leaving
      <4> QED
        BY <4>1, <4>2 DEF Leaving
    <3>4. SuspendPending(h)' => SuspendPending(h)
      BY <1>1, <1>3, <1>4 DEF SuspendPending, m
    <3>5. Sole(h)' /\ Awaited(h)'
      BY <1>1, <1>9, <2>1, <3>1, <3>2 DEF Sole, Awaited
    <3>6. Suspends(h)'
      BY <1>1, <1>4, <1>9, <2>1, <3>3, <3>4 DEF Suspends
    <3> QED
      BY <3>5, <3>6
  <2> QED
    BY <1>6, <2>2, <2>3
<1> QED
  BY <1>6, <1>7, <1>8, <1>10 DEF Calm

\* A message that is done with.
LEMMA CalmFinishes ==
  ASSUME Inv, Calm, NEW d \in Daemon, Finish(d),
         job[d].at \notin {"start", "entity", "token", "remove"},
         UNCHANGED <<storage, batch, control>>
  PROVE  Calm'
<1> USE DEF storage, batch, control
<1>1. /\ job'[d] = NoJob /\ \A c \in Daemon \ {d} : job'[c] = job[c]
      /\ NoJob.act = "None" /\ NoJob.at = "idle" /\ d # None
  BY DEF Finish, Inv, JobsInv, NoJob, SlurmAssumption
<1>2. /\ DOMAIN queue' \subseteq DOMAIN queue
      /\ \A i \in DOMAIN queue' : queue'[i] = queue[i]
      /\ \A i \in DOMAIN queue : queue[i].by = None => i \in DOMAIN queue'
  BY <1>1 DEF Finish, Without
<1>3. RoutineQueue' /\ \A c \in Daemon : RoutineJob(job[c])'
  BY <1>1, <1>2 DEF Calm, RoutineQueue, RoutineJob
<1>4. Reading'
  BY DEF Calm, Reading, Resuming
<1>5. ASSUME NEW h \in Host
      PROVE  Sole(h)' /\ Awaited(h)' /\ Suspends(h)'
  <2>1. Sole(h) /\ Awaited(h) /\ Suspends(h)
    BY DEF Calm
  <2>2. Asks(h)' = Asks(h)
    BY <1>2 DEF Asks
  <2>3. Works(h)' = Works(h)
    BY <1>1 DEF Works
  <2>4. Runs(h)' = Runs(h)
    BY DEF Runs
  <2>5. Leaving(h) => Leaving(h)'
    BY <1>1, <1>2 DEF Leaving
  <2>6. SuspendPending(h)' => SuspendPending(h)
    BY <1>1, <1>2 DEF SuspendPending
  <2>7. Sole(h)' /\ Awaited(h)'
    BY <2>1, <2>2, <2>3, <2>4 DEF Sole, Awaited
  <2>8. Suspends(h)'
    BY <1>1, <2>1, <2>4, <2>5, <2>6 DEF Suspends
  <2> QED
    BY <2>7, <2>8
<1> QED
  BY <1>3, <1>4, <1>5 DEF Calm

\* A host that is to be suspended is off, and no script waits for it.
LEMMA SuspendedIsOff ==
  ASSUME Calm, NEW d \in Daemon, job[d].act = "Suspend", NEW h \in Host, h \in job[d].hosts
  PROVE  slurm[h] = "off" /\ waiter[h] = "none" /\ entity[h].state # "Resuming"
<1>1. SuspendPending(h)
  BY DEF SuspendPending
<1> QED
  BY <1>1 DEF Calm, Suspends, Awaited

\* A daemon goes on with a Suspend message: its hosts are off.
LEMMA SuspendMoves ==
  ASSUME Inv, Calm, NEW d \in Daemon, NEW j, job' = [job EXCEPT ![d] = j],
         job[d].act = "Suspend", j.act = "Suspend", j.hosts = job[d].hosts, RoutineJob(j),
         UNCHANGED queue
  PROVE  /\ RoutineQueue' /\ \A c \in Daemon : RoutineJob(job[c])'
         /\ job'[d] = j /\ \A c \in Daemon \ {d} : job'[c] = job[c]
         /\ \A h \in Host :
              /\ Asks(h)' = Asks(h) /\ Works(h)' = Works(h)
              /\ SuspendPending(h)' <=> SuspendPending(h)
              /\ h \notin j.hosts \/ j.at \in {"start", "remove"} =>
                   (Leaving(h) => Leaving(h)')
<1>1. /\ job'[d] = j /\ \A c \in Daemon \ {d} : job'[c] = job[c]
  BY DEF Inv, JobsInv
<1>2. RoutineQueue' /\ \A c \in Daemon : RoutineJob(job[c])'
  BY <1>1 DEF Calm, RoutineQueue, RoutineJob
<1>3. ASSUME NEW h \in Host
      PROVE  /\ Asks(h)' = Asks(h) /\ Works(h)' = Works(h)
             /\ SuspendPending(h)' <=> SuspendPending(h)
             /\ h \notin j.hosts \/ j.at \in {"start", "remove"} => (Leaving(h) => Leaving(h)')
  <2>1. Asks(h)' = Asks(h)
    BY DEF Asks
  <2>2. Works(h)' = Works(h)
    BY <1>1 DEF Works
  <2>3. SuspendPending(h)' <=> SuspendPending(h)
    BY <1>1 DEF SuspendPending
  <2>4. h \notin j.hosts \/ j.at \in {"start", "remove"} => (Leaving(h) => Leaving(h)')
    BY <1>1 DEF Leaving
  <2> QED
    BY <2>1, <2>2, <2>3, <2>4
<1> QED
  BY <1>1, <1>2, <1>3

\* process_suspend_action reads: the entity of a host that is off names the node
\* that carries it, if one does.
LEMMA CalmSuspendReads ==
  ASSUME Inv, Calm, NEW d \in Daemon, SuspendRead(d)
  PROVE  Calm'
<1> USE DEF storage, batch, control
<1> DEFINE live == {h \in job[d].hosts : entity[h].state \notin {"None", "Suspended"}}
           hosts == {h \in live : entity[h].node # None}
           nodes == {entity[h].node : h \in hosts}
           at == IF hosts = {} THEN "requeue" ELSE "remove"
           j == [job[d] EXCEPT !.todo = hosts, !.rest = live \ hosts, !.nodes = nodes, !.at = at]
<1>1. /\ job' = [job EXCEPT ![d] = j] /\ job[d].act = "Suspend" /\ job[d].at = "start"
      /\ UNCHANGED <<queue, tokens, entity, phase, carries, waiter, slurm>>
  BY DEF SuspendRead, Handling
<1>2. job[d] \in Job /\ RoutineJob(job[d]) /\ entity \in [Host -> Entity]
  BY DEF Inv, JobsInv, StorageInv, Calm
<1>3. /\ j.act = job[d].act /\ j.hosts = job[d].hosts /\ j.todo = hosts
      /\ j.rest = live \ hosts /\ j.nodes = nodes /\ j.at = at
  BY <1>2 DEF Job
<1>4. job[d].hosts \subseteq Host
  BY <1>2 DEF Job
<1>5. \A h \in job[d].hosts : slurm[h] = "off" /\ waiter[h] = "none" /\ entity[h].state # "Resuming"
  BY <1>1, <1>4, SuspendedIsOff
<1>6. live \ hosts = {}
  <2> SUFFICES ASSUME NEW h \in live PROVE entity[h].node # None
    OBVIOUS
  <2>1. h \in Host /\ entity[h].state \in Settled
    BY <1>2, <1>4, <1>5 DEF Entity, HostStates, Settled
  <2> QED
    BY <2>1 DEF Calm, Awaited
<1>7. \A h \in job[d].hosts : Runs(h) # {} => h \in hosts /\ Runs(h) = {entity[h].node}
  <2> SUFFICES ASSUME NEW h \in job[d].hosts, Runs(h) # {}
               PROVE  h \in hosts /\ Runs(h) = {entity[h].node}
    OBVIOUS
  <2>1. h \in Host /\ Sole(h) /\ Awaited(h)
    BY <1>4 DEF Calm
  <2>2. entity[h].node \in Runs(h) /\ entity[h].state \in Settled
    BY <1>5, <2>1 DEF Awaited
  <2>3. entity[h].node # None
    BY <2>1, <2>2 DEF Awaited
  <2>4. h \in hosts
    BY <2>2, <2>3 DEF Settled
  <2>5. Runs(h) = {entity[h].node}
    BY <2>1, <2>2 DEF Sole
  <2> QED
    BY <2>4, <2>5
<1>8. \A h \in job[d].hosts : Runs(h) \subseteq nodes
  BY <1>7
<1>9. hosts = {} => \A h \in job[d].hosts : Runs(h) = {}
  BY <1>7
<1>10. hosts \subseteq job[d].hosts
  OBVIOUS
<1> HIDE DEF live, hosts, nodes, j
<1>11. RoutineJob(j)
  BY <1>1, <1>3, <1>6, <1>10 DEF RoutineJob
<1>12. /\ RoutineQueue' /\ \A c \in Daemon : RoutineJob(job[c])'
       /\ job'[d] = j /\ \A c \in Daemon \ {d} : job'[c] = job[c]
       /\ \A h \in Host :
            /\ Asks(h)' = Asks(h) /\ Works(h)' = Works(h)
            /\ SuspendPending(h)' <=> SuspendPending(h)
            /\ h \notin j.hosts \/ j.at \in {"start", "remove"} =>
                 (Leaving(h) => Leaving(h)')
  BY <1>1, <1>3, <1>11, SuspendMoves
<1>13. \A h \in Host : Runs(h)' = Runs(h)
  BY <1>1, SameNodes
<1>14. Reading'
  BY <1>1 DEF Calm, Reading, Resuming
<1>15. \A h \in Host : Sole(h)' /\ Awaited(h)'
  BY <1>1, <1>12, <1>13 DEF Calm, Sole, Awaited
<1>16. ASSUME NEW h \in Host
       PROVE  Suspends(h)'
  <2>1. slurm[h] = "off" /\ Runs(h) # {} => Leaving(h)'
    BY <1>3, <1>9, <1>12 DEF Calm, Suspends
  <2>2. ASSUME NEW c \in Daemon, job'[c].act = "Suspend", h \in job'[c].hosts
        PROVE  /\ job'[c].at = "remove" => Runs(h) \subseteq job'[c].nodes
               /\ job'[c].at \in {"mark", "requeue"} => Runs(h) = {}
    BY <1>3, <1>8, <1>9, <1>12, <2>2 DEF Calm, Suspends
  <2> QED
    BY <1>1, <1>12, <1>13, <2>1, <2>2 DEF Calm, Suspends
<1> QED
  BY <1>12, <1>14, <1>15, <1>16 DEF Calm

\* ... and removes them.
LEMMA CalmSuspendRemoves ==
  ASSUME Inv, Calm, NEW d \in Daemon, SuspendRemove(d), faults' = faults
  PROVE  Calm'
<1> USE DEF storage, batch, control
<1> DEFINE ns == job[d].nodes \cap Pool
           j == [job[d] EXCEPT !.at = "mark"]
<1>1. /\ job' = [job EXCEPT ![d] = j] /\ job[d].act = "Suspend" /\ job[d].at = "remove"
      /\ UNCHANGED <<queue, tokens, entity, carries, waiter, slurm>>
  BY DEF SuspendRemove, Handling, Step, RemoveNodes
<1>2. phase' = [n \in Node |-> IF n \in ns THEN "gone" ELSE phase[n]]
  BY DEF SuspendRemove, RemoveNodes, Fault, Inv, ControlInv
<1>3. /\ job[d] \in Job /\ RoutineJob(job[d]) /\ phase \in [Node -> Phases]
      /\ \A n \in job[d].nodes : carries[n] \in job[d].hosts
  BY DEF Inv, JobsInv, OwnNodes, BatchInv, Calm
<1>4. /\ j.act = job[d].act /\ j.hosts = job[d].hosts /\ j.todo = job[d].todo
      /\ j.rest = job[d].rest /\ j.at = "mark"
  BY <1>3 DEF Job
<1>5. job[d].hosts \subseteq Host
  BY <1>3 DEF Job
<1> HIDE DEF j
<1>6. RoutineJob(j)
  BY <1>1, <1>3, <1>4 DEF RoutineJob
<1>7. /\ RoutineQueue' /\ \A c \in Daemon : RoutineJob(job[c])'
      /\ job'[d] = j /\ \A c \in Daemon \ {d} : job'[c] = job[c]
      /\ \A h \in Host :
           /\ Asks(h)' = Asks(h) /\ Works(h)' = Works(h)
           /\ SuspendPending(h)' <=> SuspendPending(h)
           /\ h \notin j.hosts => (Leaving(h) => Leaving(h)')
  BY <1>1, <1>4, <1>6, SuspendMoves
<1>8. \A h \in Host \ job[d].hosts : Runs(h)' = Runs(h)
  BY <1>1, <1>2, <1>3 DEF Runs
<1>9. \A h \in job[d].hosts : Runs(h)' = {}
  <2> SUFFICES ASSUME NEW h \in job[d].hosts, NEW n \in Node, n \in Runs(h)'
               PROVE  FALSE
    BY DEF Runs
  <2>1. carries[n] = h /\ phase[n] # "gone" /\ n \notin ns
    BY <1>1, <1>2, <1>3 DEF Runs
  <2>2. n \in job[d].nodes
    BY <1>1, <1>5, <2>1 DEF Calm, Suspends, Runs
  <2>3. phase[n] # "unborn"
    BY <1>5, <2>1 DEF Inv, BatchInv, Carried, SlurmAssumption
  <2> QED
    BY <2>1, <2>2, <2>3 DEF Pool
<1> HIDE DEF ns
<1>10. \A h \in Host : Runs(h)' \subseteq Runs(h)
  BY <1>8, <1>9
<1>11. Reading'
  <2>1. \A n \in Node : phase'[n] = "reading" => phase[n] = "reading"
    BY <1>2
  <2> QED
    BY <1>1, <2>1 DEF Calm, Reading, Resuming
<1>12. ASSUME NEW h \in Host
       PROVE  Sole(h)' /\ Awaited(h)'
  <2>1. Sole(h) /\ Awaited(h)
    BY DEF Calm
  <2>2. Sole(h)'
    BY <1>1, <1>7, <1>10, <2>1 DEF Sole
  <2>3. h \in job[d].hosts => waiter[h] = "none" /\ slurm[h] = "off"
    BY <1>1, SuspendedIsOff
  <2>4. Awaited(h)'
    BY <1>1, <1>7, <1>8, <1>9, <2>1, <2>3 DEF Awaited
  <2> QED
    BY <2>2, <2>4
<1>13. ASSUME NEW h \in Host
       PROVE  Suspends(h)'
  <2>1. Suspends(h)
    BY DEF Calm
  <2>2. slurm[h] = "off" /\ Runs(h)' # {} => Leaving(h)'
    BY <1>4, <1>7, <1>8, <1>9, <2>1 DEF Suspends
  <2>3. ASSUME NEW c \in Daemon, job'[c].act = "Suspend", h \in job'[c].hosts
        PROVE  /\ job'[c].at = "remove" => Runs(h)' \subseteq job'[c].nodes
               /\ job'[c].at \in {"mark", "requeue"} => Runs(h)' = {}
    BY <1>4, <1>7, <1>9, <1>10, <2>1, <2>3 DEF Suspends
  <2> QED
    BY <1>1, <1>7, <2>1, <2>2, <2>3 DEF Suspends
<1> QED
  BY <1>7, <1>11, <1>12, <1>13 DEF Calm

\* ... and marks the hosts, which no node carries any more.
LEMMA CalmSuspendMarks ==
  ASSUME Inv, Calm, NEW d \in Daemon, SuspendMark(d)
  PROVE  Calm'
<1> USE DEF storage, batch, control
<1>1. PICK h \in job[d].todo :
        /\ Write(h, [entity[h] EXCEPT !.state = "Suspended"])
        /\ LET left == job[d].todo \ {h} IN
           job' = [job EXCEPT ![d].todo = left,
                              ![d].at = IF left = {} THEN "requeue" ELSE "mark"]
  BY DEF SuspendMark
<1> DEFINE left == job[d].todo \ {h}
           j == [job[d] EXCEPT !.todo = left, !.at = IF left = {} THEN "requeue" ELSE "mark"]
<1>2. /\ job[d].act = "Suspend" /\ job[d].at = "mark"
      /\ UNCHANGED <<queue, tokens, phase, carries, waiter, slurm>>
  BY DEF SuspendMark, Handling
<1>3. /\ job[d] \in Job /\ RoutineJob(job[d]) /\ job \in [Daemon -> Job]
      /\ entity \in [Host -> Entity]
  BY DEF Inv, JobsInv, StorageInv, Calm
<1>4. job' = [job EXCEPT ![d] = j]
  BY <1>1, <1>3
<1>5. /\ j.act = job[d].act /\ j.hosts = job[d].hosts /\ j.todo = left
      /\ j.rest = job[d].rest /\ j.at \in {"mark", "requeue"}
  BY <1>3 DEF Job
<1>6. h \in Host /\ h \in job[d].hosts
  BY <1>2, <1>3 DEF Job, RoutineJob
<1> HIDE DEF j
<1>7. RoutineJob(j)
  BY <1>2, <1>3, <1>5 DEF RoutineJob
<1>8. /\ RoutineQueue' /\ \A c \in Daemon : RoutineJob(job[c])'
      /\ job'[d] = j /\ \A c \in Daemon \ {d} : job'[c] = job[c]
      /\ \A g \in Host :
           /\ Asks(g)' = Asks(g) /\ Works(g)' = Works(g)
           /\ SuspendPending(g)' <=> SuspendPending(g)
           /\ g \notin j.hosts => (Leaving(g) => Leaving(g)')
  BY <1>2, <1>4, <1>5, <1>7, SuspendMoves
<1>9. \A g \in Host : Runs(g)' = Runs(g)
  BY <1>2, SameNodes
<1>10. \A g \in job[d].hosts : g \in Host => Runs(g) = {}
  BY <1>2 DEF Calm, Suspends
<1>11. /\ entity'[h].state = "Suspended"
       /\ \A g \in Host \ {h} : entity'[g] = entity[g]
  BY <1>1, <1>3, <1>6 DEF Write, Entity
<1>12. Reading'
  <2> SUFFICES ASSUME NEW n \in Node, phase[n] = "reading" PROVE Resuming(n)'
    BY <1>2 DEF Reading
  <2>1. entity[carries[n]].state = "Resuming" /\ carries[n] \in Host
    BY DEF Calm, Reading, Resuming, Inv, BatchInv, Carried
  <2>2. carries[n] # h
    BY <1>6, <1>10 DEF Runs
  <2> QED
    BY <1>2, <1>11, <2>1, <2>2 DEF Resuming
<1>13. \A g \in Host : Sole(g)'
  BY <1>2, <1>8, <1>9 DEF Calm, Sole
<1>14. Awaited(h)'
  <2>1. Awaited(h) /\ waiter[h] = "none"
    BY <1>2, <1>6, SuspendedIsOff DEF Calm
  <2> QED
    BY <1>2, <1>6, <1>8, <1>9, <1>10, <1>11, <2>1 DEF Awaited, Settled
<1>15. \A g \in Host \ {h} : Awaited(g)'
  BY <1>2, <1>8, <1>9, <1>11 DEF Calm, Awaited
<1>16. ASSUME NEW g \in Host
       PROVE  Suspends(g)'
  <2>1. Suspends(g)
    BY DEF Calm
  <2>2. slurm[g] = "off" /\ Runs(g) # {} => Leaving(g)'
    BY <1>5, <1>8, <1>10, <2>1 DEF Suspends
  <2>3. ASSUME NEW c \in Daemon, job'[c].act = "Suspend", g \in job'[c].hosts
        PROVE  /\ job'[c].at = "remove" => Runs(g) \subseteq job'[c].nodes
               /\ job'[c].at \in {"mark", "requeue"} => Runs(g) = {}
    BY <1>5, <1>8, <1>10, <2>1, <2>3 DEF Suspends
  <2> QED
    BY <1>2, <1>8, <1>9, <2>1, <2>2, <2>3 DEF Suspends
<1> QED
  BY <1>8, <1>12, <1>13, <1>14, <1>15, <1>16 DEF Calm

\* No other step is taken while only nodes fail.
LEMMA CalmNext ==
  ASSUME Inv, Calm, Next, faults'.calm
  PROVE  Calm'
<1> USE DEF storage, batch, control
<1>1. ASSUME NEW kind, Fault(kind)
      PROVE  kind = "node"
  BY <1>1 DEF Fault
<1>2. /\ \A i \in DOMAIN queue : queue[i].act \in {"Resume", "Suspend"}
      /\ \A d \in Daemon : job[d].act \in {"None", "Resume", "Suspend"}
  BY DEF Calm, RoutineQueue, RoutineJob
<1>3. CASE ResumeHosts
  <2>1. UNCHANGED faults
    BY <1>1, <1>3 DEF ResumeHosts
  <2> QED
    BY <1>3, <2>1, CalmResumes
<1>4. CASE SuspendHosts
  BY <1>4, CalmSuspends
<1>5. CASE NodeBoots
  BY <1>5, CalmBoots
<1>6. ASSUME NEW h \in Host, Waiter(h) \/ HostResponds(h)
      PROVE  Calm'
  BY <1>6, CalmScripts DEF Waiter
<1>7. ASSUME NEW h \in Host, WaiterTimesOut(h) \/ ResumeHostsFailed(h)
      PROVE  FALSE
  BY <1>1, <1>7 DEF WaiterTimesOut, ResumeHostsFailed
<1>8. ASSUME NEW n \in Node, NodeStep(n) \/ NodeFault(n)
      PROVE  Calm'
  <2>1. CASE GetNodeAssignment(n)
    <3>1. UNCHANGED faults
      BY <1>1, <2>1 DEF GetNodeAssignment
    <3> QED
      BY <2>1, <3>1, CalmAssigns
  <2>2. CASE CompleteWrites(n)
    <3>1. UNCHANGED faults
      BY <1>1, <2>2 DEF CompleteWrites
    <3> QED
      BY <2>2, <3>1, CalmNodes
  <2> QED
    BY <1>8, <2>1, <2>2, CalmNodes DEF NodeStep
<1>9. ASSUME NEW d \in Daemon,
             ResumeFilter(d) \/ InsertHostEntity(d) \/ InsertToken(d) \/ AddNodesToPool(d)
      PROVE  Calm'
  BY <1>9, CalmResumeAction
<1>10. ASSUME NEW d \in Daemon, SuspendRead(d) \/ SuspendMark(d)
       PROVE  Calm'
  BY <1>10, CalmSuspendReads, CalmSuspendMarks
<1>11. ASSUME NEW d \in Daemon, SuspendRemove(d)
       PROVE  Calm'
  <2>1. UNCHANGED faults
    BY <1>1, <1>11 DEF SuspendRemove, RemoveNodes
  <2> QED
    BY <1>11, <2>1, CalmSuspendRemoves
<1>12. ASSUME NEW d \in Daemon, DeleteMessage(d) \/ SuspendRequeue(d)
       PROVE  Calm'
  <2>1. Finish(d)
    <3>1. SuspendRequeue(d) => job[d].rest = {}
      BY DEF Calm, RoutineJob, SuspendRequeue, Handling
    <3> QED
      BY <1>12, <3>1 DEF DeleteMessage, SuspendRequeue
  <2>2. job[d].at \in {"delete", "requeue"} /\ UNCHANGED <<storage, batch, control>>
    BY <1>12 DEF DeleteMessage, SuspendRequeue, Handling
  <2> QED
    BY <2>1, <2>2, CalmFinishes
<1>13. ASSUME NEW d \in Daemon, NEW i \in Ids, Take(d, i)
       PROVE  Calm'
  BY <1>13, CalmTakes
<1>14. ASSUME NEW d \in Daemon,
              \/ ResumeFailedRaises(d) \/ ResumeFailedChecks(d) \/ ResumeFailedAnnounces(d)
              \/ CleanPool(d) \/ ResumeFailedInterrupts(d) \/ ResumeFailedExpels(d)
              \/ ResumeFailedResumes(d) \/ ResumeFailedRetries(d)
              \/ WaitSees(d) \/ WaitMarksUp(d) \/ WaitEnds(d)
       PROVE  FALSE
  BY <1>2, <1>14 DEF Handling, ResumeFailedRaises, ResumeFailedChecks, ResumeFailedAnnounces,
     CleanPool, ResumeFailedInterrupts, ResumeFailedExpels, ResumeFailedResumes,
     ResumeFailedRetries, WaitSees, WaitMarksUp, WaitEnds
<1>15. ASSUME NEW d \in Daemon, AddNodesRaises(d) \/ Crash(d) \/ Reappear(d)
       PROVE  FALSE
  BY <1>1, <1>15 DEF AddNodesRaises, Crash, Reappear
<1> QED
  BY <1>3, <1>4, <1>5, <1>6, <1>7, <1>8, <1>9, <1>10, <1>11, <1>12, <1>13, <1>14, <1>15
     DEF Next, Handle

\* A fault of another kind is not forgotten.
LEMMA CalmBefore == ASSUME Inv, Next, faults'.calm PROVE faults.calm
<1> USE DEF storage, batch, control
<1>1. ASSUME UNCHANGED faults \/ \E kind : Fault(kind)
      PROVE  faults.calm
  <2>1. ASSUME NEW kind, Fault(kind)
        PROVE  faults.calm
    <3>1. faults'.calm = (faults.calm /\ kind = "node")
      BY <2>1, Zenon DEF Fault
    <3> QED
      BY <3>1
  <2> QED
    BY <1>1, <2>1
<1>2. CASE ResumeHosts \/ SuspendHosts \/ NodeBoots
  BY <1>1, <1>2 DEF ResumeHosts, SuspendHosts, NodeBoots
<1>3. ASSUME NEW h \in Host,
             Waiter(h) \/ WaiterTimesOut(h) \/ HostResponds(h) \/ ResumeHostsFailed(h)
      PROVE  faults.calm
  BY <1>1, <1>3 DEF Waiter, WaiterSees, WaiterMarksUp, WaiterTimesOut, HostResponds,
     ResumeHostsFailed
<1>4. ASSUME NEW n \in Node, NodeStep(n) \/ NodeFault(n)
      PROVE  faults.calm
  BY <1>1, <1>4 DEF NodeStep, GetNodeAssignment, NodeIsAssigned, NodeRebooted,
     CompleteWrites, NodeFault
<1>5. ASSUME NEW d \in Daemon,
             \/ ResumeFilter(d) \/ InsertHostEntity(d) \/ InsertToken(d) \/ AddNodesToPool(d)
             \/ SuspendRead(d) \/ SuspendRemove(d) \/ SuspendMark(d) \/ SuspendRequeue(d)
             \/ ResumeFailedRaises(d) \/ ResumeFailedChecks(d) \/ ResumeFailedAnnounces(d)
             \/ CleanPool(d) \/ ResumeFailedInterrupts(d) \/ ResumeFailedExpels(d)
             \/ ResumeFailedResumes(d) \/ ResumeFailedRetries(d) \/ WaitSees(d)
             \/ WaitMarksUp(d) \/ WaitEnds(d) \/ DeleteMessage(d) \/ AddNodesRaises(d)
             \/ Crash(d) \/ Reappear(d) \/ \E i \in Ids : Take(d, i)
      PROVE  faults.calm
  <2>1. UNCHANGED faults \/ \E kind : Fault(kind)
    BY <1>5 DEF ResumeFilter, InsertHostEntity, InsertToken, AddNodesToPool, SuspendRead,
       SuspendRemove, RemoveNodes, SuspendMark, SuspendRequeue, ResumeFailedRaises,
       ResumeFailedChecks, ResumeFailedAnnounces, CleanPool, ResumeFailedInterrupts,
       ResumeFailedExpels, ResumeFailedResumes, ResumeFailedRetries, WaitSees, WaitMarksUp,
       WaitEnds, DeleteMessage, AddNodesRaises, Crash, Reappear, Take
  <2> QED
    BY <1>1, <2>1
<1> QED
  BY <1>2, <1>3, <1>4, <1>5 DEF Next, Handle

CalmInv == Inv /\ (faults.calm => Calm)

LEMMA CalmInit == Init => Calm
<1> SUFFICES ASSUME Init PROVE Calm
  OBVIOUS
<1> USE DEF Init
<1>1. \A d \in Daemon : job[d] = NoJob
  OBVIOUS
<1>2. NoJob.act = "None" /\ NoJob.at = "idle"
  BY DEF NoJob
<1>3. RoutineQueue /\ \A d \in Daemon : RoutineJob(job[d])
  BY <1>1, <1>2 DEF RoutineQueue, RoutineJob
<1>4. Reading
  BY DEF Reading
<1>5. ASSUME NEW h \in Host
      PROVE  Sole(h) /\ Awaited(h) /\ Suspends(h)
  <2>1. Asks(h) = {} /\ Works(h) = {} /\ Runs(h) = {}
    BY <1>1, <1>2 DEF Asks, Works, Runs, SlurmAssumption
  <2>2. ~SuspendPending(h)
    BY <1>1, <1>2 DEF SuspendPending
  <2>3. Sole(h) /\ Awaited(h)
    BY <2>1 DEF Sole, Awaited, Settled
  <2>4. Suspends(h)
    BY <1>1, <1>2, <2>1, <2>2 DEF Suspends
  <2> QED
    BY <2>3, <2>4
<1> QED
  BY <1>3, <1>4, <1>5 DEF Calm

LEMMA CalmInvariant == Spec => []CalmInv
<1>1. Init => CalmInv
  BY InvInit, CalmInit DEF CalmInv
<1>2. CalmInv /\ [Next]_vars => CalmInv'
  <2> SUFFICES ASSUME CalmInv, [Next]_vars PROVE CalmInv'
    OBVIOUS
  <2>1. Inv'
    BY InvNext DEF CalmInv
  <2>2. CASE Next
    BY <2>1, <2>2, CalmNext, CalmBefore DEF CalmInv
  <2>3. CASE UNCHANGED vars
    <3>1. faults.calm => Calm'
      <4> SUFFICES ASSUME Calm PROVE Calm'
        BY DEF CalmInv
      <4> USE <2>3 DEF vars, storage, batch, control
      <4>1. /\ RoutineQueue' /\ \A d \in Daemon : RoutineJob(job[d])'
            /\ Reading'
        BY DEF Calm, RoutineQueue, RoutineJob, Reading, Resuming
      <4>2. \A h \in Host : /\ Asks(h)' = Asks(h) /\ Works(h)' = Works(h)
                            /\ Leaving(h)' = Leaving(h)
                            /\ SuspendPending(h)' = SuspendPending(h)
                            /\ Runs(h)' = Runs(h)
        BY SameMessages, SameNodes
      <4>3. \A h \in Host : Sole(h)' /\ Awaited(h)' /\ Suspends(h)'
        BY <4>2 DEF Calm, Sole, Awaited, Suspends
      <4> QED
        BY <4>1, <4>3 DEF Calm
    <3> QED
      BY <2>1, <2>3, <3>1 DEF CalmInv, vars
  <2> QED
    BY <2>2, <2>3
<1> QED
  BY <1>1, <1>2, PTL DEF Spec

\* Only a host that is still Resuming becomes Provisioned, however many hosts are
\* resumed and suspended, whichever nodes fail or reboot, and in whichever order the
\* daemons take the messages, as long as each message is handled once and in time:
\* the registration (update_host_assignment_entity_as_provisioned) is the next write of
\* the entity after the last check, although nothing in the write makes it so.
THEOREM NodesRegisterInTime == Spec => RegistersWhileResuming
<1> DEFINE A == faults.calm =>
                  \A h \in Host :
                    (entity'[h].state = "Provisioned" /\ entity'[h] # entity[h])
                      => entity[h].state = "Resuming"
<1>1. ASSUME CalmInv, Next PROVE A
  <2> SUFFICES ASSUME faults.calm,
                      NEW g \in Host, entity'[g].state = "Provisioned", entity'[g] # entity[g]
               PROVE  entity[g].state = "Resuming"
    OBVIOUS
  <2> USE <1>1 DEF CalmInv, Inv, batch, storage, control
  <2>1. entity \in [Host -> Entity]
    BY DEF StorageInv
  <2>2. ASSUME NEW h \in Host, NEW e \in Entity, e.state # "Provisioned", Write(h, e)
        PROVE  FALSE
    BY <2>1, <2>2 DEF Write
  <2>3. ASSUME NEW h \in Host, NEW s \in HostStates \ {"Provisioned"},
               Write(h, [entity[h] EXCEPT !.state = s])
        PROVE  FALSE
    <3> DEFINE e == [entity[h] EXCEPT !.state = s]
    <3>1. e \in Entity /\ e.state = s
      BY <2>1 DEF Entity
    <3>2. Write(h, e)
      BY <2>3
    <3> HIDE DEF e
    <3> QED
      BY <2>2, <3>1, <3>2
  <2>4. ASSUME NEW n \in Node, Interrupt(n), carries[n] \in Host
        PROVE  FALSE
    <3>1. [state |-> "ProvisionInterrupt", node |-> n] \in Entity
      BY DEF Entity, HostStates
    <3> QED
      BY <2>2, <2>4, <3>1 DEF Interrupt
  <2>5. ASSUME NEW n \in Node, NodeStep(n)
        PROVE  entity[g].state = "Resuming"
    <3>1. CASE CompleteWrites(n)
      <4>1. /\ phase[n] = "reading"
            /\ entity' = [entity EXCEPT ![carries[n]] = [state |-> "Provisioned", node |-> n]]
        BY <3>1 DEF CompleteWrites, Write
      <4>2. g = carries[n]
        BY <2>1, <4>1
      <4> QED
        BY <4>1, <4>2 DEF Calm, Reading, Resuming
    <3>2. CASE NodeIsAssigned(n) \/ NodeRebooted(n)
      <4>1. carries[n] \in Host
        BY <3>2 DEF NodeIsAssigned, NodeRebooted, BatchInv, Carried
      <4> QED
        BY <2>4, <3>2, <4>1 DEF NodeIsAssigned, NodeRebooted
    <3>3. CASE GetNodeAssignment(n)
      BY <3>3 DEF GetNodeAssignment
    <3> QED
      BY <2>5, <3>1, <3>2, <3>3 DEF NodeStep
  <2>6. ASSUME NEW h \in Host, WaiterMarksUp(h)
        PROVE  FALSE
    BY <2>3, <2>6 DEF WaiterMarksUp, HostStates
  <2>7. ASSUME NEW d \in Daemon, SuspendMark(d) \/ ResumeFailedInterrupts(d)
        PROVE  FALSE
    <3>1. PICK s \in {"Suspended", "ProvisionInterrupt"} :
            \E h \in job[d].todo : Write(h, [entity[h] EXCEPT !.state = s])
      BY <2>7 DEF SuspendMark, ResumeFailedInterrupts
    <3>2. job[d].todo \subseteq Host /\ s \in HostStates \ {"Provisioned"}
      BY DEF JobsInv, Job, HostStates
    <3> QED
      BY <2>3, <3>1, <3>2
  <2>8. ASSUME NEW d \in Daemon, WaitMarksUp(d)
        PROVE  FALSE
    <3>1. LET h == job[d].cur IN Write(h, [entity[h] EXCEPT !.state = "Up"])
      BY <2>8 DEF WaitMarksUp
    <3>2. job[d].cur \in Host
      BY <2>8 DEF WaitMarksUp, Handling, JobsInv, AtHost
    <3>3. "Up" \in HostStates \ {"Provisioned"}
      BY DEF HostStates
    <3> QED
      BY <2>3, <3>1, <3>2, <3>3
  <2>9. ASSUME NEW d \in Daemon, InsertHostEntity(d)
        PROVE  FALSE
    <3>1. PICK h \in job[d].todo : Write(h, [state |-> "Resuming", node |-> None])
      BY <2>9 DEF InsertHostEntity
    <3>2. h \in Host /\ [state |-> "Resuming", node |-> None] \in Entity
      BY DEF JobsInv, Job, Entity, HostStates
    <3> QED
      BY <2>2, <3>1, <3>2
  <2>10. ASSUME NEW d \in Daemon,
                \/ ResumeFilter(d) \/ InsertToken(d) \/ AddNodesToPool(d) \/ SuspendRead(d)
                \/ SuspendRemove(d) \/ SuspendRequeue(d) \/ ResumeFailedRaises(d)
                \/ ResumeFailedChecks(d) \/ ResumeFailedAnnounces(d) \/ CleanPool(d)
                \/ ResumeFailedExpels(d) \/ ResumeFailedResumes(d) \/ ResumeFailedRetries(d)
                \/ WaitSees(d) \/ WaitEnds(d) \/ DeleteMessage(d) \/ AddNodesRaises(d)
                \/ Crash(d) \/ Reappear(d) \/ \E i \in Ids : Take(d, i)
         PROVE  FALSE
    <3>1. UNCHANGED entity
      BY <2>10 DEF ResumeFilter, InsertToken, AddNodesToPool, SuspendRead, SuspendRemove,
         RemoveNodes, SuspendRequeue, ResumeFailedRaises, ResumeFailedChecks,
         ResumeFailedAnnounces, CleanPool, ResumeFailedExpels, ResumeFailedResumes,
         ResumeFailedRetries, WaitSees, WaitEnds, DeleteMessage, AddNodesRaises, Crash,
         Reappear, Take
    <3> QED
      BY <3>1
  <2>11. CASE \/ ResumeHosts \/ SuspendHosts \/ NodeBoots \/ \E n \in Node : NodeFault(n)
              \/ \E h \in Host : \/ WaiterSees(h) \/ WaiterTimesOut(h) \/ HostResponds(h)
                                 \/ ResumeHostsFailed(h)
    BY <2>11 DEF ResumeHosts, SuspendHosts, NodeBoots, NodeFault, WaiterSees, WaiterTimesOut,
       HostResponds, ResumeHostsFailed
  <2> QED
    BY <1>1, <2>5, <2>6, <2>7, <2>8, <2>9, <2>10, <2>11 DEF Next, Handle, Waiter
<1>2. CalmInv /\ [Next]_vars => [A]_vars
  BY <1>1
<1> HIDE DEF A
<1>3. Spec => [][A]_vars
  BY CalmInvariant, <1>2, PTL DEF Spec
<1> QED
  BY <1>3 DEF A, RegistersWhileResuming

=============================================================================
