------------------------------ MODULE FedPools ------------------------------
(***************************************************************************)
(* The pools of one federation as the proxy caches them, and the choice of *)
(* a pool for a job (federation/federation.py): FederationPool, the        *)
(* refresh of the cache by update_federations, the match of add_job_v1     *)
(* (refresh, filter, best fit, create, schedule), and the commands that    *)
(* put pools in and out of the federation (convoy/storage.py).             *)
(*                                                                         *)
(* The federation lock keeps refresh and match apart (module EventLoop);   *)
(* the Batch service, the commands and the passage of time interleave with *)
(* each other and with every step of a match.                              *)
(***************************************************************************)
EXTENDS Integers, FiniteSets

CONSTANTS
    Pool,           \* pools, by the row key of their federation entity
    Size,           \* VM sizes
    None,           \* Python's None
    Counts,         \* the node counts the service may report
    Start,          \* the sizes of the pools there are at first
    Slots,          \* max_tasks_per_node of each pool
    Feats,          \* what each pool offers: location, network, image, logins...
    Talks,          \* pools with enable_inter_node_communication
    Scales,         \* pools with enable_auto_scale
    LowTarget,      \* pools with target_low_priority_nodes > 0
    Constraints,    \* the constraints of the jobs to place
    Blackout,       \* scheduling blackout_interval > 0
    MaxChanges,     \* bound: pools deleted, and pools taken out of the federation
    MaxFaults       \* bound: failed calls to the services

Class == {"dedicated", "low"}
Seen == [size: Size, active: BOOLEAN]
\* What job_federation_constraint_settings accepts.  nodes is low_priority_nodes: allow
\* and exclusive; only low-priority nodes where they are not allowed is refused, as is a
\* VM size (test by "name") together with cores or memory ("props").
Constraint == [nodes: {"any"} \cup Class, scale: BOOLEAN, multi: BOOLEAN,
               need: Nat, ratio: BOOLEAN, exclusive: BOOLEAN,
               feats: SUBSET (UNION {Feats[p] : p \in Pool}),
               sizes: SUBSET Size, test: {"props", "name", "family"}]

ASSUME PoolsAssumption ==
    /\ IsFiniteSet(Pool)
    /\ MaxChanges \in Nat /\ MaxFaults \in Nat
    /\ Start \in [Pool -> Size \cup {None}]
    /\ Slots \in [Pool -> Nat \ {0}]
    /\ Scales \subseteq Pool /\ Talks \subseteq Pool /\ LowTarget \subseteq Pool
    /\ Constraints \subseteq Constraint
    /\ Counts \subseteq [idle: [Class -> Nat], running: [Class -> Nat]]
    /\ Blackout \in BOOLEAN /\ None \notin Size /\ None \notin Counts

VARIABLES
    \* the services
    batch,      \* batch[p]: the pool in Batch, None when there is none
    listed,     \* pools with an entity in the federation table
    changes,
    faults,
    \* Federation.pools of the proxy
    known,      \* its keys
    cp,         \* cloud_pool
    vm,         \* vm_props: the size the properties were taken for
    name,       \* _vm_size
    cnt,        \* node_counts
    due,        \* counts never taken or invalidated
    dark,       \* pools before their _blackout_end_time
    \* the match in progress
    pc, con, black, kept, target,
    \* what the properties read
    old,        \* cached counts from before the last tasks were submitted
    excused     \* old counts that a match may still use, see FreshCounts

service == <<batch, listed, changes>>
cache == <<known, cp, vm, name, cnt, due>>
match == <<pc, con, black, kept, target>>
vars == <<service, faults, cache, dark, match, old, excused>>

TypeOK ==
    /\ batch \in [Pool -> Seen \cup {None}] /\ cp \in [Pool -> Seen \cup {None}]
    /\ vm \in [Pool -> Size \cup {None}] /\ name \in [Pool -> Size \cup {None}]
    /\ cnt \in [Pool -> Counts \cup {None}]
    /\ due \subseteq Pool /\ old \subseteq Pool
    /\ listed \subseteq Pool /\ known \subseteq Pool /\ dark \subseteq Pool
    /\ black \subseteq Pool /\ kept \subseteq Pool /\ excused \subseteq Pool
    /\ changes \in 0 .. MaxChanges /\ faults \in 0 .. MaxFaults
    /\ pc \in {"idle", "again", "filter", "create", "schedule", "blocked"}
    /\ con \in Constraints \cup {None} /\ target \in Pool \cup {None}

\* FederationPool.is_valid, for the pool description s
ValidAs(p, s) == s # None /\ vm[p] # None /\ p \notin dark /\ s.active
Valid(p) == ValidAs(p, cp[p])

-----------------------------------------------------------------------------
(***************************************************************************)
(* Choosing a pool, given the cached counts.                               *)
(***************************************************************************)

Nodes(p, cl) == cnt[p].idle[cl] + cnt[p].running[cl]

\* the checks on the pool, in front of those on its compute nodes
PoolFails(p, c) ==
    \/ ~(c.feats \subseteq Feats[p])
    \/ ~c.scale /\ p \in Scales
    \/ c.nodes = "dedicated" /\ p \in LowTarget
    \/ c.nodes = "low" /\ p \notin LowTarget /\ p \notin Scales
    \/ c.exclusive /\ Slots[p] > 1

\* _filter_pool_with_hard_constraints: the size is checked by name, by family
\* (gpu, infiniband) or by its properties (cores, memory)
HardFails(p, c) ==
    \/ PoolFails(p, c)
    \/ (IF c.test = "props" THEN vm[p] ELSE name[p]) \notin c.sizes
    \/ c.multi /\ p \notin Talks

\* is_gpu_pool and is_rdma_pool of a size that is None
Raises(p, c) == c.test = "family" /\ name[p] = None /\ ~PoolFails(p, c)

\* _filter_pool_nodes_with_constraints; steady: autoscale pools not resizing,
\* full: pools with more active tasks than the ratio allows on their slots
NodesFail(p, c, steady, full) ==
    \/ /\ c.nodes # "any" /\ Nodes(p, c.nodes) = 0
       /\ ~(c.scale /\ p \in Scales)
    \/ /\ c.ratio
       /\ IF Nodes(p, "dedicated") + Nodes(p, "low") > 0 THEN p \in full
                                                         ELSE p \notin steady

\* the bins of find_target_pool_for_job and what they hold of each pool
Idle(cand, cl) == {p \in cand : cnt[p].idle[cl] > 0}
Avail(cand, cl) == {p \in cand : Nodes(p, cl) > 0 \/ p \in Scales}
Unit(p, c) == IF c.multi THEN 1 ELSE Slots[p]
IdleCap(p, cl, c) == cnt[p].idle[cl] * Unit(p, c)
AvailCap(p, cl, c) == Nodes(p, cl) * Unit(p, c)

MostIdle(P, cl, c) == {p \in P : \A q \in P : IdleCap(p, cl, c) >= IdleCap(q, cl, c)}
MostAvail(P, cl, c) == {p \in P : \A q \in P : AvailCap(p, cl, c) >= AvailCap(q, cl, c)}

\* S, or T if there is none
OrElse(S, T) == IF S # {} THEN S ELSE T

\* the tiers of _select_pool_for_target_required: the largest pool with enough
\* idle or available room, any autoscaled pool that is steady, and, for tasks
\* that can wait, the largest pool with any room
IdleFits(cand, cl, c) == MostIdle({p \in Idle(cand, cl) : IdleCap(p, cl, c) >= c.need}, cl, c)
AvailFits(cand, cl, c) == MostAvail({p \in Avail(cand, cl) : AvailCap(p, cl, c) >= c.need}, cl, c)
IdleScales(cand, cl, c, steady) ==
    IF c.scale THEN MostIdle(Idle(cand, cl) \cap steady, cl, c) ELSE {}
AvailScales(cand, cl, c, steady) ==
    IF c.scale THEN MostAvail(Avail(cand, cl) \cap steady, cl, c) ELSE {}
IdleQueues(cand, cl, c) == IF c.multi THEN {} ELSE MostIdle(Idle(cand, cl), cl, c)
AvailQueues(cand, cl, c) ==
    IF c.multi THEN {} ELSE MostAvail({p \in Avail(cand, cl) : Nodes(p, cl) > 0}, cl, c)

\* Mutant: autoscale pools before pools that have the room.
PickScalingFirst(cand, cl, c, steady) ==
    OrElse(IdleFits(cand, cl, c),
    OrElse(AvailScales(cand, cl, c, steady),
    OrElse(AvailFits(cand, cl, c),
           AvailQueues(cand, cl, c))))

\* _select_pool_for_target_required: the pools it may return, those of the
\* first tier that is not empty (ties fall by the order of a dict)
PickIn(cand, cl, c, steady) ==
    OrElse(IdleFits(cand, cl, c),
    OrElse(AvailFits(cand, cl, c),
    OrElse(IdleScales(cand, cl, c, steady),
    OrElse(AvailScales(cand, cl, c, steady),
    OrElse(IdleQueues(cand, cl, c),
           AvailQueues(cand, cl, c))))))

\* _greedy_best_fit_match_for_job
Pick(cand, c, steady) ==
    LET first == IF c.nodes = "low" THEN "low" ELSE "dedicated"
        picked == PickIn(cand, first, c, steady)
    IN  IF picked = {} /\ c.nodes = "any" THEN PickIn(cand, "low", c, steady)
                                          ELSE picked

-----------------------------------------------------------------------------
(***************************************************************************)
(* The services, the commands, and time.                                   *)
(***************************************************************************)

Init ==
    /\ batch = [p \in Pool |-> IF Start[p] = None THEN None
                               ELSE [size |-> Start[p], active |-> TRUE]]
    /\ listed = Pool /\ known = {} /\ dark = {}
    /\ cp = [p \in Pool |-> None] /\ vm = cp /\ name = cp /\ cnt = cp
    /\ due = Pool /\ old = {} /\ excused = {}
    /\ pc = "idle" /\ con = None /\ black = {} /\ kept = {} /\ target = None
    /\ changes = 0 /\ faults = 0

Change == changes < MaxChanges /\ changes' = changes + 1
Fail(n) == faults + n <= MaxFaults /\ faults' = faults + n

\* a pool is created, starts to go away, and is gone
BatchChanges(p) ==
    /\ \/ /\ batch[p] = None /\ UNCHANGED changes
          /\ \E s \in Size : batch' = [batch EXCEPT ![p] = [size |-> s, active |-> TRUE]]
       \/ /\ batch[p] # None /\ batch[p].active /\ Change
          /\ batch' = [batch EXCEPT ![p].active = FALSE]
       \/ /\ batch[p] # None /\ ~batch[p].active /\ UNCHANGED changes
          /\ batch' = [batch EXCEPT ![p] = None]
    /\ UNCHANGED <<listed, faults, cache, dark, match, old, excused>>

\* add_pool_to_federation; an entity that exists is left as it is
AddPool(p) ==
    /\ p \notin listed
    /\ listed' = listed \cup {p}
    /\ UNCHANGED <<batch, changes, faults, cache, dark, match, old, excused>>

\* remove_pool_from_federation
RemovePool(p) ==
    /\ Change /\ p \in listed
    /\ listed' = listed \ {p}
    /\ UNCHANGED <<batch, faults, cache, dark, match, old, excused>>

BlackoutEnds(p) ==
    /\ p \in dark
    /\ dark' = dark \ {p}
    /\ excused' = IF pc = "filter" THEN excused \cup {p} ELSE excused
    /\ UNCHANGED <<service, faults, cache, match, old>>

Resting == pc \in {"idle", "blocked"}

(***************************************************************************)
(* update_federations: Federation.update_pool for every listed pool, each  *)
(* in a thread of its own, then trim_orphaned_pools.                       *)
(***************************************************************************)

\* what client.pool.get answers: a failed call reads like a missing pool
Read(p, lost) == IF p \in lost THEN None ELSE batch[p]

\* lost: calls that fail; raised: threads that raise (populate_vm_sizes),
\* which nobody looks at.  A valid pool is not read; one that is cached and
\* can be read keeps the rest of its entry; any other is built anew.
UpdateFederation ==
    /\ Resting
    /\ LET open == {p \in listed : p \notin known \/ ~Valid(p)} IN
       \E raised \in SUBSET open, lost \in SUBSET open :
         /\ raised \cap lost = {} /\ \A p \in lost : batch[p] # None
         /\ Fail(Cardinality(raised) + Cardinality(lost))
         /\ LET found == listed \ raised
                keep == {p \in found \cap known : Valid(p) \/ Read(p, lost) # None}
                new == found \ keep
                reset == new \cup (IF listed = {} THEN {} ELSE known \ found)
                seen(p) == IF p \in new THEN Read(p, lost) ELSE None
                size(p) == IF seen(p) = None THEN None ELSE seen(p).size
            IN  /\ known' = IF listed = {} THEN known ELSE found
                /\ cp' = [p \in Pool |->
                            IF p \in keep /\ ~Valid(p) THEN Read(p, lost)
                            ELSE IF p \in reset THEN seen(p) ELSE cp[p]]
                /\ vm' = [p \in Pool |-> IF p \in reset THEN size(p) ELSE vm[p]]
                /\ name' = [p \in Pool |->
                              IF p \notin reset THEN name[p]
                              ELSE IF seen(p) # None /\ seen(p).active THEN size(p)
                              ELSE None]
                /\ cnt' = [p \in Pool |-> IF p \in reset THEN None ELSE cnt[p]]
                /\ due' = due \cup reset
                /\ dark' = dark \ reset
                /\ old' = old \ reset
                /\ excused' = excused \ reset
    /\ UNCHANGED <<service, match>>

-----------------------------------------------------------------------------
(***************************************************************************)
(* The match of a job with a pool (add_job_v1).                            *)
(***************************************************************************)

EndMatch(how) ==
    pc' = how /\ con' = None /\ black' = {} /\ kept' = {} /\ target' = None

\* _pre_constraint_filter_pool_update for every pool that is not blacklisted,
\* in a thread each: pool_requires_update always holds (nothing ever sets
\* _pool_last_update), so the pool is read; then its node counts, when they
\* are due or past their time span.
\* lost: reads of a pool that fail; taken: pools whose counts are read, blind:
\* where that fails, empty: where the answer holds no counts and nc[0] raises
\* when the match waits for the thread.
Refresh(c, bl) ==
    LET pools == (known \cap listed) \ bl IN
    \E lost \in SUBSET {p \in pools : batch[p] # None} :
      LET valid == {p \in pools : ValidAs(p, Read(p, lost))} IN
      \E taken \in {S \in SUBSET valid : due \cap valid \subseteq S} :
      \E blind \in SUBSET taken : \E empty \in SUBSET (taken \ blind) :
      \E counts \in [taken \ (blind \cup empty) -> Counts] :
        /\ Fail(Cardinality(lost) + Cardinality(blind) + Cardinality(empty))
        /\ cp' = [p \in Pool |-> IF p \in pools THEN Read(p, lost) ELSE cp[p]]
        /\ cnt' = [p \in Pool |-> IF p \in DOMAIN counts THEN counts[p]
                                  ELSE IF p \in blind THEN None ELSE cnt[p]]
        /\ due' = due \ (taken \ empty)
        /\ old' = old \ (taken \ empty)
        /\ excused' = excused \ (taken \ empty)
        /\ IF empty # {} THEN EndMatch("idle")
           ELSE /\ pc' = "filter" /\ con' = c /\ black' = bl
                /\ kept' = pools /\ target' = None
        /\ UNCHANGED <<service, known, vm, name, dark>>

StartMatch(c) == Resting /\ Refresh(c, {})
MatchAgain == pc = "again" /\ Refresh(con, black)

\* find_target_pool_for_job past the refresh; no candidate and no pick both
\* end in add_blocked_action_for_job
Usable == {p \in kept : Valid(p) /\ cnt[p] # None}
SelectPool ==
    /\ pc = "filter"
    /\ IF \E p \in Usable : Raises(p, con) THEN EndMatch("idle")
       ELSE \E steady \in SUBSET Scales, full \in SUBSET Usable :
              LET hard == {p \in Usable : HardFails(p, con)}
                  cand == {p \in Usable \ hard : ~NodesFail(p, con, steady, full)}
                  picks == Pick(cand, con, steady)
              IN  IF picks = {} THEN EndMatch("blocked")
                  ELSE /\ pc' = "create" /\ target' \in picks
                       /\ black' = black \cup hard
                       /\ UNCHANGED <<con, kept>>
    /\ UNCHANGED <<service, faults, cache, dark, old, excused>>

\* Mutant: a pool that cannot take the job is not blacklisted.
CreateJobAgain ==
    /\ pc = "create"
    /\ \/ pc' = "schedule" /\ UNCHANGED <<con, black, kept, target, faults>>
       \/ /\ pc' = "again" /\ kept' = {} /\ target' = None
          /\ UNCHANGED <<con, black, faults>>
    /\ UNCHANGED <<service, cache, dark, old, excused>>

\* create_job: the job is there, or cannot be on this pool, or a call raises
CreateJob ==
    /\ pc = "create"
    /\ \/ pc' = "schedule" /\ UNCHANGED <<con, black, kept, target, faults>>
       \/ /\ pc' = "again" /\ black' = black \cup {target}
          /\ kept' = {} /\ target' = None /\ UNCHANGED <<con, faults>>
       \/ Fail(1) /\ EndMatch("idle")
    /\ UNCHANGED <<service, cache, dark, old, excused>>

\* Mutant: the pool is blacked out, its counts stay valid.
ScheduleKeepsCounts ==
    /\ pc = "schedule" /\ EndMatch("idle")
    /\ dark' = IF Blackout THEN dark \cup {target} ELSE dark
    /\ old' = old \cup {target} /\ excused' = excused \ {target}
    /\ UNCHANGED <<service, cache, faults>>

\* schedule_tasks with on_new_tasks_scheduled, which is not reached when
\* set_auto_complete_on_job raises after the tasks were added
ScheduleTasks ==
    /\ pc = "schedule"
    /\ \/ /\ due' = due \cup {target}
          /\ dark' = IF Blackout THEN dark \cup {target} ELSE dark
          /\ old' = old \cup {target}
          /\ excused' = excused \ {target}
          /\ UNCHANGED faults
       \/ /\ Fail(1)
          /\ old' = old \cup {target} /\ excused' = excused \cup {target}
          /\ UNCHANGED <<due, dark>>
       \/ Fail(1) /\ UNCHANGED <<due, dark, old, excused>>
    /\ EndMatch("idle")
    /\ UNCHANGED <<service, known, cp, vm, name, cnt>>

-----------------------------------------------------------------------------
Next ==
    \/ UpdateFederation \/ MatchAgain \/ SelectPool \/ CreateJob \/ ScheduleTasks
    \/ \E c \in Constraints : StartMatch(c)
    \/ \E p \in Pool : \/ BatchChanges(p) \/ AddPool(p) \/ RemovePool(p)
                       \/ BlackoutEnds(p)

Spec == Init /\ [][Next]_vars

\* a match that was begun is carried on; nothing obliges the services, the
\* commands or a new job to do anything
Fairness == WF_vars(MatchAgain) /\ WF_vars(SelectPool)
            /\ WF_vars(CreateJob) /\ WF_vars(ScheduleTasks)
FairSpec == Spec /\ Fairness

-----------------------------------------------------------------------------
(***************************************************************************)
(* Properties.                                                             *)
(***************************************************************************)

\* A pool is never chosen on counts taken before the last tasks were sent to
\* it (on_new_tasks_scheduled drops them and blacks the pool out), except in
\* the two ways the code leaves open: the blackout runs out between refresh
\* and filter of one match, or an error after the submission skips
\* on_new_tasks_scheduled.
FreshCounts ==
    pc = "create" => target \notin old \ excused

\* The size a pool is filtered by is the size it was last read with.  Not so
\* for a pool that was re-created while cached, and for one that was not
\* active or not readable when its entry was built.
Settled(p) == vm[p] = cp[p].size /\ name[p] = cp[p].size

\* What the constraints ask of a pool, read off the service's answers.
Suits(p) ==
    /\ p \in kept /\ Valid(p) /\ cnt[p] # None /\ Settled(p)
    /\ con.feats \subseteq Feats[p] /\ cp[p].size \in con.sizes
    /\ con.scale \/ p \notin Scales
    /\ con.exclusive => Slots[p] = 1
    /\ con.multi => p \in Talks
    /\ con.nodes = "dedicated" => p \notin LowTarget
    /\ con.nodes = "low" => p \in LowTarget \cup Scales

\* the classes of nodes the job may use, and how many tasks (of a multi-
\* instance job: instances) the schedulable and the idle ones of p take
Classes == IF con.nodes = "any" THEN Class ELSE {con.nodes}
FirstClass == IF con.nodes = "low" THEN "low" ELSE "dedicated"
Room(p, cl) == Nodes(p, cl) * (IF con.multi THEN 1 ELSE Slots[p])
IdleRoom(p, cl) == cnt[p].idle[cl] * (IF con.multi THEN 1 ELSE Slots[p])

\* Filter and greedy match together.  A job is blocked only when no suitable
\* pool has the room of one task (regular tasks may queue up) or of all the
\* instances.  The pool it is given suits it; and it has room for the whole
\* job, or idle room for it, in the class of nodes tried first, whenever a
\* suitable pool has.
Placement ==
    [][/\ pc = "filter" /\ pc' = "blocked" /\ ~con.ratio =>
            \A p \in Pool : Suits(p) => \A cl \in Classes :
                Room(p, cl) < 1 \/ (con.multi /\ Room(p, cl) < con.need)
       /\ pc = "filter" /\ pc' = "create" /\ ~con.ratio =>
            /\ Settled(target') => Suits(target')
            /\ (\E p \in Pool : Suits(p) /\ Room(p, FirstClass) >= con.need)
                   => Room(target', FirstClass) >= con.need
            /\ (\E p \in Pool : Suits(p) /\ IdleRoom(p, FirstClass) >= con.need)
                   => IdleRoom(target', FirstClass) >= con.need
      ]_vars

\* A match ends: with the tasks scheduled, blocked, or in an error.  A pool on
\* which the job cannot be created is not tried again.
MatchEnds == pc = "again" ~> Resting

=============================================================================
