------------------------------ MODULE FedActions ------------------------------
(***************************************************************************)
(* The action pipeline of a Batch Shipyard federation: the CLI submits an  *)
(* action (add, terminate or delete of a job) as a message blob, a         *)
(* sequence entry of the job's action entity and a queue message           *)
(* (convoy/storage.py, convoy/batch.py); the federation proxies run        *)
(* process_federation_queue over the queue (federation/federation.py).     *)
(* One module action is one storage or Batch call of the code, so calls of *)
(* several clients and proxies interleave between any two of them.         *)
(*                                                                         *)
(* Abstractions.  The etag of an action entity is modelled by its content: *)
(* a conditional write succeeds iff the sequence still is the one read     *)
(* (unique ids never come back, so equal contents differ at most by a      *)
(* retry of the same write).  What an action does on the pools is reduced  *)
(* to whether location entities exist for its job.                         *)
(***************************************************************************)
EXTENDS Naturals, Sequences, FiniteSets

CONSTANTS
  Job,            \* job ids of one federation
  Uid,            \* unique ids of the actions clients submit
  Proxy,          \* federation proxies, run in HA mode
  NoUid,          \* "no action"
  NoProxy,        \* "no proxy"
  JobOf,          \* [Uid -> Job]: target of an action
  MethodOf,       \* [Uid -> Method]
  UniqueIds,      \* the federation requires unique job ids
  MaxSequence,    \* _MAX_SEQUENCE_IDS_PER_PROPERTY * _MAX_SEQUENCE_ID_PROPERTIES
  BatchMax,       \* num_messages of get_messages (32 in the code)
  Zappable,       \* actions a user may zap
  MaxFaults,      \* bound on crashes, failed calls and blocked matches
  Overrun,        \* a lease may run out while its holder is inside a message
  BlobFaults,     \* reading an existing message blob may fail
  PutFaults       \* put_message may fail

Method == {"add", "terminate", "delete"}

ASSUME ConstantsAssumption ==
  /\ NoUid \notin Uid
  /\ NoProxy \notin Proxy
  /\ JobOf \in [Uid -> Job]
  /\ MethodOf \in [Uid -> Method]
  /\ MaxSequence \in Nat \ {0}
  /\ BatchMax \in Nat \ {0}
  /\ MaxFaults \in Nat
  /\ Zappable \subseteq Uid
  /\ {UniqueIds, Overrun, BlobFaults, PutFaults} \subseteq BOOLEAN

VARIABLES
  client,     \* [Uid -> stage of the submitting CLI command]
  blob,       \* message blobs that exist
  entity,     \* jobs whose action entity exists
  seqs,       \* [Job -> Seq(Uid)]: the packed Sequence0..14 properties
  queue,      \* messages in the federation queue
  receipt,    \* [Uid -> Proxy]: whose pop receipt of the message is valid
  located,    \* [Job -> adds that wrote the location entities of the job]
  blocked,    \* jobs that have a blocked-action entity
  pc,         \* [Proxy -> where process_federation_queue is]
  batch,      \* [Proxy -> messages fetched and not handled yet]
  cur,        \* [Proxy -> message being handled]
  head,       \* [Proxy -> unique id being processed for it]
  ack,        \* [Proxy -> del_msg, the message is to be deleted]
  snap,       \* [Proxy -> sequence read by pop_and_pack_sequence_ids_for_job]
  lease,      \* proxy the global lock blob is leased to
  holds,      \* proxies whose lease_id is not None
  faults,     \* adverse events so far, at most MaxFaults
  retired,    \* history, [Job -> Seq(Uid)]: ids popped from the sequence
  log,        \* history, [Job -> Seq(Uid)]: completed executions
  voided      \* history: actions whose blob a user or a roll-back removed

clientVars == <<client>>
storeVars  == <<blob, entity, seqs, queue, receipt, located, blocked>>
proxyVars  == <<pc, batch, cur, head, ack, snap>>
lockVars   == <<lease, holds>>
histVars   == <<retired, log, voided>>
vars == <<clientVars, storeVars, proxyVars, lockVars, faults, histVars>>

Stages == {"new", "uploaded", "inserting", "merging", "sequenced", "queued",
           "rejected", "stranded"}
Labels == {"idle", "get", "exec", "clean", "pop", "write", "ack", "down"}

TypeOK ==
  /\ client \in [Uid -> Stages]
  /\ blob \subseteq Uid
  /\ entity \subseteq Job
  /\ seqs \in [Job -> Seq(Uid)]
  /\ queue \subseteq Uid
  /\ receipt \in [Uid -> Proxy \cup {NoProxy}]
  /\ located \in [Job -> SUBSET Uid]
  /\ blocked \subseteq Job
  /\ pc \in [Proxy -> Labels]
  /\ batch \in [Proxy -> SUBSET Uid]
  /\ cur \in [Proxy -> Uid \cup {NoUid}]
  /\ head \in [Proxy -> Uid \cup {NoUid}]
  /\ ack \in [Proxy -> BOOLEAN]
  /\ snap \in [Proxy -> Seq(Uid)]
  /\ lease \in Proxy \cup {NoProxy}
  /\ holds \subseteq Proxy
  /\ faults \in 0..MaxFaults
  /\ retired \in [Job -> Seq(Uid)]
  /\ log \in [Job -> Seq(Uid)]
  /\ voided \subseteq Uid

Init ==
  /\ client = [u \in Uid |-> "new"]
  /\ blob = {} /\ entity = {} /\ queue = {} /\ blocked = {}
  /\ located = [j \in Job |-> {}]
  /\ seqs = [j \in Job |-> <<>>]
  /\ receipt = [u \in Uid |-> NoProxy]
  /\ pc = [p \in Proxy |-> "idle"]
  /\ batch = [p \in Proxy |-> {}]
  /\ cur = [p \in Proxy |-> NoUid]
  /\ head = [p \in Proxy |-> NoUid]
  /\ ack = [p \in Proxy |-> FALSE]
  /\ snap = [p \in Proxy |-> <<>>]
  /\ lease = NoProxy /\ holds = {}
  /\ faults = 0
  /\ retired = [j \in Job |-> <<>>]
  /\ log = [j \in Job |-> <<>>]
  /\ voided = {}

Elements(s) == {s[i] : i \in 1..Len(s)}

Fault == faults < MaxFaults /\ faults' = faults + 1

(***************************************************************************)
(* The CLI command that submits action u.                                  *)
(***************************************************************************)
Stage(u, s) == client' = [client EXCEPT ![u] = s]

\* pickle_and_upload of the message blob.
Upload(u) ==
  /\ client[u] = "new"
  /\ Stage(u, "uploaded")
  /\ blob' = blob \cup {u}
  /\ UNCHANGED <<entity, seqs, queue, receipt, located, blocked, proxyVars,
                 lockVars, faults, histVars>>

\* An exception in add_job_to_federation makes the submitting code delete the
\* uploaded blob; the terminate/delete command has no such handler.
RollBack(u, s) ==
  /\ Stage(u, s)
  /\ IF MethodOf[u] = "add"
       THEN blob' = blob \ {u} /\ voided' = voided \cup {u}
       ELSE UNCHANGED <<blob, voided>>

\* The get_entity of _retrieve_and_merge_sequence.
ReadSequence(u) ==
  /\ client[u] = "uploaded"
  /\ \/ /\ JobOf[u] \notin entity
        /\ Stage(u, "inserting")
        /\ UNCHANGED <<blob, voided>>
     \/ /\ JobOf[u] \in entity
        /\ ~(UniqueIds /\ MethodOf[u] = "add")
        /\ Stage(u, "merging")
        /\ UNCHANGED <<blob, voided>>
     \/ /\ JobOf[u] \in entity
        /\ UniqueIds /\ MethodOf[u] = "add"
        /\ RollBack(u, "rejected")
  /\ UNCHANGED <<entity, seqs, queue, receipt, located, blocked, proxyVars,
                 lockVars, faults, retired, log>>

\* _insert_or_merge_entity_with_etag.  An insert that meets an entity reads
\* again; a merge that lost its race reads again and succeeds, unless the
\* sequence is full or the entity is gone, which raise.
Upsert(u) ==
  LET j == JobOf[u] IN
  /\ \/ /\ client[u] = "inserting" /\ j \in entity
        /\ Stage(u, "uploaded")
        /\ UNCHANGED <<blob, voided, entity, seqs>>
     \/ /\ \/ client[u] = "inserting" /\ j \notin entity
           \/ client[u] = "merging" /\ j \in entity /\ Len(seqs[j]) < MaxSequence
        /\ Stage(u, "sequenced")
        /\ entity' = entity \cup {j}
        /\ seqs' = [seqs EXCEPT ![j] = Append(@, u)]
        /\ UNCHANGED <<blob, voided>>
     \/ /\ client[u] = "merging"
        /\ j \notin entity \/ Len(seqs[j]) >= MaxSequence
        /\ RollBack(u, "rejected")
        /\ UNCHANGED <<entity, seqs>>
  /\ UNCHANGED <<queue, receipt, located, blocked, proxyVars, lockVars, faults,
                 retired, log>>


PutMessage(u) ==
  /\ client[u] = "sequenced"
  /\ Stage(u, "queued")
  /\ queue' = queue \cup {u}
  /\ UNCHANGED <<blob, entity, seqs, receipt, located, blocked, proxyVars,
                 lockVars, faults, histVars>>

\* put_message raises: the sequence entry stays, without a message.
PutFails(u) ==
  /\ PutFaults
  /\ client[u] = "sequenced"
  /\ Fault
  /\ RollBack(u, "stranded")
  /\ UNCHANGED <<entity, seqs, queue, receipt, located, blocked, proxyVars,
                 lockVars, retired, log>>

\* zap_unique_id_from_federation deletes the blob of an action.
Zap(u) ==
  /\ u \in Zappable \cap blob
  /\ client[u] \in {"sequenced", "queued"}
  /\ blob' = blob \ {u}
  /\ voided' = voided \cup {u}
  /\ UNCHANGED <<clientVars, entity, seqs, queue, receipt, located, blocked,
                 proxyVars, lockVars, faults, retired, log>>

(***************************************************************************)
(* The global lock.  lease_global_lock runs as a timer callback of the     *)
(* proxy's event loop, that is while the proxy sleeps between two passes   *)
(* over its queue or while the action being executed awaits: no await      *)
(* between two messages of a pass gives way to it.                         *)
(***************************************************************************)
LoopRuns(p) == \/ pc[p] = "idle" /\ batch[p] = {}
               \/ pc[p] = "exec"


\* acquire_blob_lease, or renew_blob_lease of a lease that ran out and that
\* nobody took meanwhile.
AcquireLease(p) ==
  /\ LoopRuns(p)
  /\ lease = NoProxy
  /\ lease' = p
  /\ holds' = holds \cup {p}
  /\ UNCHANGED <<clientVars, storeVars, proxyVars, faults, histVars>>

\* renew_blob_lease raises: the lease went to another proxy, or the call
\* itself failed.
RenewFails(p) ==
  /\ LoopRuns(p)
  /\ p \in holds
  /\ \/ lease \notin {p, NoProxy} /\ faults' = faults
     \/ lease \in {p, NoProxy} /\ Fault
  /\ holds' = holds \ {p}
  /\ UNCHANGED <<clientVars, storeVars, proxyVars, lease, histVars>>

\* 15 seconds without a renewal.  Without Overrun a holder that is up and
\* believes in its lease renews it in time, and one that does not is done
\* with its message before the lease runs out.
LeaseExpires ==
  /\ lease # NoProxy
  /\ \/ Overrun
     \/ pc[lease] = "down"
     \/ pc[lease] = "idle" /\ lease \notin holds
  /\ lease' = NoProxy
  /\ UNCHANGED <<clientVars, storeVars, proxyVars, holds, faults, histVars>>

(***************************************************************************)
(* A proxy working on its queue.                                           *)
(***************************************************************************)
Goto(p, l) == pc' = [pc EXCEPT ![p] = l]

\* The proxy leaves the message it works on, with these messages to go.
Leave(p, rest, l) ==
  /\ Goto(p, l)
  /\ batch' = [batch EXCEPT ![p] = rest]
  /\ cur' = [cur EXCEPT ![p] = NoUid]
  /\ head' = [head EXCEPT ![p] = NoUid]
  /\ ack' = [ack EXCEPT ![p] = FALSE]
  /\ snap' = [snap EXCEPT ![p] = <<>>]

NextMessage(p) == Leave(p, batch[p] \ {cur[p]}, "idle")

\* An exception leaves the for loop: the rest of the batch is not handled.
Abort(p) == Leave(p, {}, "idle")

\* get_messages_from_federation_queue, at the start of a pass; the messages
\* not taken are the invisible ones.
Fetch(p, ms) ==
  /\ pc[p] = "idle" /\ batch[p] = {}
  /\ p \in holds
  /\ ms # {} /\ ms \subseteq queue /\ Cardinality(ms) <= BatchMax
  /\ batch' = [batch EXCEPT ![p] = ms]
  /\ receipt' = [u \in Uid |-> IF u \in ms THEN p ELSE receipt[u]]
  /\ UNCHANGED <<clientVars, blob, entity, seqs, queue, located, blocked, pc,
                 cur, head, ack, snap, lockVars, faults, histVars>>

\* check_global_lock fails between two messages: the pass ends.
LockLost(p) ==
  /\ pc[p] = "idle" /\ batch[p] # {}
  /\ p \notin holds
  /\ Abort(p)
  /\ UNCHANGED <<clientVars, storeVars, lockVars, faults, histVars>>

\* Mutant: the message's own action is processed, not the head of the sequence.
ReadOwnId(p, u) ==
  LET j == JobOf[u] IN
  /\ pc[p] = "idle" /\ u \in batch[p]
  /\ p \in holds
  /\ cur' = [cur EXCEPT ![p] = u]
  /\ IF seqs[j] = <<>>
       THEN Goto(p, "ack") /\ ack' = [ack EXCEPT ![p] = TRUE] /\ UNCHANGED head
       ELSE Goto(p, "get") /\ head' = [head EXCEPT ![p] = u] /\ UNCHANGED ack
  /\ UNCHANGED <<clientVars, storeVars, batch, snap, lockVars, faults, histVars>>

\* get_first_sequence_id_for_job for the target of message u.
ReadHead(p, u) ==
  LET j == JobOf[u] IN
  /\ pc[p] = "idle" /\ u \in batch[p]
  /\ p \in holds
  /\ cur' = [cur EXCEPT ![p] = u]
  /\ \/ /\ seqs[j] = <<>>
        /\ blocked' = blocked \ {j}
        /\ Goto(p, "ack")
        /\ ack' = [ack EXCEPT ![p] = TRUE]
        /\ UNCHANGED head
     \/ /\ seqs[j] # <<>>
        /\ Goto(p, "get")
        /\ head' = [head EXCEPT ![p] = Head(seqs[j])]
        /\ UNCHANGED <<blocked, ack>>
  /\ UNCHANGED <<clientVars, blob, entity, seqs, queue, receipt, located,
                 batch, snap, lockVars, faults, histVars>>

\* retrieve_blob_data.  Any exception means "pop the id, keep the message".
GetBlob(p) ==
  /\ pc[p] = "get"
  /\ \/ /\ head[p] \in blob
        /\ Goto(p, "exec")
        /\ UNCHANGED <<blocked, faults>>
     \/ /\ \/ head[p] \notin blob /\ UNCHANGED faults
           \/ head[p] \in blob /\ BlobFaults /\ Fault
        /\ blocked' = blocked \ {JobOf[cur[p]]}
        /\ Goto(p, "pop")
  /\ UNCHANGED <<clientVars, blob, entity, seqs, queue, receipt, located,
                 batch, cur, head, ack, snap, lockVars, histVars>>

\* What an execution of action h may leave in the location table.  A pool-level
\* delete that raises is lost in asyncio.wait and leaves its entity.
LocatedAfter(h) ==
  LET now == located[JobOf[h]]
      after == CASE MethodOf[h] = "add"       -> {now \cup {h}}
                 [] MethodOf[h] = "delete"    -> SUBSET now
                 [] MethodOf[h] = "terminate" -> {now} IN
  {[located EXCEPT ![JobOf[h]] = s] : s \in after}

\* process_message_action_v1 returns True.
Execute(p) ==
  LET h == head[p]
      j == JobOf[h] IN
  /\ pc[p] = "exec"
  /\ located' \in LocatedAfter(h)
  /\ blocked' = IF MethodOf[h] = "add" THEN blocked \ {j} ELSE blocked
  /\ log' = [log EXCEPT ![j] = Append(@, h)]
  /\ Goto(p, "clean")
  /\ ack' = [ack EXCEPT ![p] = TRUE]
  /\ UNCHANGED <<clientVars, blob, entity, seqs, queue, receipt, batch, cur,
                 head, snap, lockVars, faults, retired, voided>>

\* Mutant: a blocked action keeps its target, so its id is popped.
BlockPops(p) ==
  /\ pc[p] = "exec" /\ MethodOf[head[p]] = "add"
  /\ Fault
  /\ blocked' = blocked \cup {JobOf[head[p]]}
  /\ Goto(p, "pop")
  /\ UNCHANGED <<clientVars, blob, entity, seqs, queue, receipt, located,
                 batch, cur, head, ack, snap, lockVars, histVars>>

\* Mutant: the message of a blocked action is deleted.
BlockAcks(p) ==
  /\ pc[p] = "exec" /\ MethodOf[head[p]] = "add"
  /\ Fault
  /\ blocked' = blocked \cup {JobOf[head[p]]}
  /\ Goto(p, "ack")
  /\ UNCHANGED <<clientVars, blob, entity, seqs, queue, receipt, located,
                 batch, cur, head, ack, snap, lockVars, histVars>>

\* No pool fits the job: the action is recorded as blocked and the message is
\* kept, the sequence untouched.
Block(p) ==
  /\ pc[p] = "exec" /\ MethodOf[head[p]] = "add"
  /\ Fault
  /\ blocked' = blocked \cup {JobOf[head[p]]}
  /\ NextMessage(p)
  /\ UNCHANGED <<clientVars, blob, entity, seqs, queue, receipt, located,
                 lockVars, histVars>>

\* A Batch or storage call of the action raises, after some of its effects.
ExecuteRaises(p) ==
  /\ pc[p] = "exec"
  /\ Fault
  /\ located' \in LocatedAfter(head[p]) \cup {located}
  /\ Abort(p)
  /\ UNCHANGED <<clientVars, blob, entity, seqs, queue, receipt, blocked,
                 lockVars, histVars>>

\* delete_blob raises when the blob is gone.
DeleteBlob(p) ==
  /\ pc[p] = "clean"
  /\ \/ /\ head[p] \in blob
        /\ blob' = blob \ {head[p]}
        /\ Goto(p, "pop")
        /\ UNCHANGED <<batch, cur, head, ack, snap>>
     \/ /\ head[p] \notin blob
        /\ Abort(p)
        /\ UNCHANGED blob
  /\ UNCHANGED <<clientVars, entity, seqs, queue, receipt, located, blocked,
                 lockVars, faults, histVars>>

\* pop_and_pack_sequence_ids_for_job reads the entity again; a missing entity
\* and an empty sequence both raise.
PopRead(p) ==
  LET j == JobOf[cur[p]] IN
  /\ pc[p] = "pop"
  /\ \/ /\ seqs[j] # <<>>
        /\ snap' = [snap EXCEPT ![p] = seqs[j]]
        /\ Goto(p, "write")
        /\ UNCHANGED <<batch, cur, head, ack>>
     \/ /\ seqs[j] = <<>>
        /\ Abort(p)
  /\ UNCHANGED <<clientVars, storeVars, lockVars, faults, histVars>>

\* Mutant: the write is unconditional.
PopWriteNoEtag(p) ==
  LET j == JobOf[cur[p]]
      s == snap[p] IN
  /\ pc[p] = "write"
  /\ seqs' = [seqs EXCEPT ![j] = Tail(s)]
  /\ retired' = [retired EXCEPT ![j] = Append(@, Head(s))]
  /\ IF ack[p]
       THEN Goto(p, "ack") /\ UNCHANGED <<batch, cur, head, ack, snap>>
       ELSE NextMessage(p)
  /\ UNCHANGED <<clientVars, blob, entity, queue, receipt, located, blocked,
                 lockVars, faults, log, voided>>

\* Mutant: an emptied entity is deleted although the job has locations.
PopWriteDropsEntity(p) ==
  LET j == JobOf[cur[p]]
      s == snap[p] IN
  /\ pc[p] = "write"
  /\ IF j \in entity /\ seqs[j] = s
       THEN /\ seqs' = [seqs EXCEPT ![j] = Tail(@)]
            /\ entity' = IF Len(s) = 1 THEN entity \ {j} ELSE entity
            /\ retired' = [retired EXCEPT ![j] = Append(@, Head(s))]
            /\ IF ack[p]
                 THEN Goto(p, "ack") /\ UNCHANGED <<batch, cur, head, ack, snap>>
                 ELSE NextMessage(p)
       ELSE Abort(p) /\ UNCHANGED <<entity, seqs, retired>>
  /\ UNCHANGED <<clientVars, blob, queue, receipt, located, blocked, lockVars,
                 faults, log, voided>>

\* The conditional write of dequeue_sequence_id_from_federation_sequence: an
\* emptied entity of a job without locations is deleted, any other is updated.
PopWrite(p) ==
  LET j == JobOf[cur[p]]
      s == snap[p]
      dropEntity == Len(s) = 1 /\ located[j] = {}
      Done == IF ack[p]
                THEN Goto(p, "ack") /\ UNCHANGED <<batch, cur, head, ack, snap>>
                ELSE NextMessage(p) IN
  /\ pc[p] = "write"
  /\ \/ /\ j \in entity /\ seqs[j] = s
        /\ seqs' = [seqs EXCEPT ![j] = Tail(@)]
        /\ entity' = IF dropEntity THEN entity \ {j} ELSE entity
        /\ retired' = [retired EXCEPT ![j] = Append(@, Head(s))]
        /\ Done
     \/ \* the entity changed: delete raises, update reads again
        /\ j \in entity /\ seqs[j] # s
        /\ IF dropEntity
             THEN Abort(p)
             ELSE Goto(p, "pop") /\ UNCHANGED <<batch, cur, head, ack, snap>>
        /\ UNCHANGED <<entity, seqs, retired>>
     \/ \* the entity is gone: delete takes that for success, update raises
        /\ j \notin entity
        /\ IF dropEntity THEN Done ELSE Abort(p)
        /\ UNCHANGED <<entity, seqs, retired>>
  /\ UNCHANGED <<clientVars, blob, queue, receipt, located, blocked, lockVars,
                 faults, log, voided>>

\* delete_message needs the message's latest pop receipt.
DeleteMessage(p) ==
  /\ pc[p] = "ack"
  /\ \/ /\ cur[p] \in queue /\ receipt[cur[p]] = p
        /\ queue' = queue \ {cur[p]}
        /\ NextMessage(p)
     \/ /\ ~(cur[p] \in queue /\ receipt[cur[p]] = p)
        /\ Abort(p)
        /\ UNCHANGED queue
  /\ UNCHANGED <<clientVars, blob, entity, seqs, receipt, located, blocked,
                 lockVars, faults, histVars>>

\* The proxy's process dies, in the middle of an action after some of its
\* effects, and is started again with no lease id.
Crash(p) ==
  /\ pc[p] # "down"
  /\ Fault
  /\ located' \in IF pc[p] = "exec" THEN LocatedAfter(head[p]) \cup {located}
                                    ELSE {located}
  /\ holds' = holds \ {p}
  /\ Leave(p, {}, "down")
  /\ UNCHANGED <<clientVars, blob, entity, seqs, queue, receipt, blocked, lease,
                 histVars>>

Restart(p) ==
  /\ pc[p] = "down"
  /\ Goto(p, "idle")
  /\ UNCHANGED <<clientVars, storeVars, batch, cur, head, ack, snap, lockVars,
                 faults, histVars>>

Submit(u) == Upload(u) \/ ReadSequence(u) \/ Upsert(u) \/ PutMessage(u)

Handle(p) ==
  \/ \E u \in Uid : ReadHead(p, u)
  \/ GetBlob(p) \/ Execute(p) \/ DeleteBlob(p) \/ PopRead(p) \/ PopWrite(p)
  \/ DeleteMessage(p) \/ LockLost(p)

Next ==
  \/ \E u \in Uid : Submit(u) \/ PutFails(u) \/ Zap(u)
  \/ \E p \in Proxy :
       \/ Handle(p) \/ Block(p) \/ ExecuteRaises(p)
       \/ \E ms \in SUBSET queue : Fetch(p, ms)
       \/ AcquireLease(p) \/ RenewFails(p) \/ Crash(p) \/ Restart(p)
  \/ LeaseExpires

Spec == Init /\ [][Next]_vars

(***************************************************************************)
(* Fairness.  The event loop of a proxy that is up runs its coroutine, and *)
(* systemd starts it again when it died; an expired lease is taken; the    *)
(* queue does not ignore a message forever; a CLI command is not killed    *)
(* between its last two calls.                                             *)
(***************************************************************************)
ProxyFairness ==
  /\ \A p \in Proxy : /\ WF_vars(Handle(p)) /\ WF_vars(AcquireLease(p))
                      /\ WF_vars(Restart(p))
                      /\ WF_vars(lease \notin {p, NoProxy} /\ RenewFails(p))
  /\ WF_vars(LeaseExpires)
  /\ \A u \in Uid : SF_vars(\E p \in Proxy : \E ms \in SUBSET queue :
                               u \in ms /\ Fetch(p, ms))

ClientFairness == \A u \in Uid : WF_vars(PutMessage(u))

FairSpec == Spec /\ ProxyFairness /\ ClientFairness

(***************************************************************************)
(* Properties.                                                             *)
(***************************************************************************)
Accepted(j) == retired[j] \o seqs[j]

\* Every id popped from a job's sequence was executed, unless the user zapped
\* it or its submission was rolled back: process_queue_message_v1 reads the
\* head and the later dequeue pops whatever is the head by then.
NoActionLost ==
  \A j \in Job : Elements(retired[j]) \subseteq Elements(log[j]) \cup voided

\* Executions of one job happen in the order its actions were accepted, even
\* when queue messages are reordered or redelivered: an action never runs after
\* a later one did.
FifoPerJob ==
  \A j \in Job : \A a, b \in 1..Len(log[j]) : a <= b =>
    \E m, n \in 1..Len(Accepted(j)) :
      m <= n /\ Accepted(j)[m] = log[j][a] /\ Accepted(j)[n] = log[j][b]

\* In a federation that requires unique job ids the locations of a job come from
\* one add action, however submissions race, actions fail half done and messages
\* come back: the action entity is the only guard (entity_must_not_exist), and
\* it is deleted while the job has no locations.
UniqueJobIds ==
  UniqueIds => \A j \in Job : \A u, v \in located[j] : u = v

\* Every action whose submission completed is popped in the end: its message
\* comes back until the ids before it and its own are gone.
EveryActionRetired ==
  \A u \in Uid : client[u] = "queued" ~> u \in Elements(retired[JobOf[u]])

\* The pipeline implements the per-job action queue.
Promise == INSTANCE JobActionQueue WITH todo <- seqs, withdrawn <- voided
ImplementsPromise == Promise!Spec
=============================================================================
