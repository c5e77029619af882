-------------------------------- MODULE FedTasks --------------------------------
(***************************************************************************)
(* How the tasks of one add action get into a Batch job that may hold tasks*)
(* of other groups: schedule_tasks, which gives generated task ids new     *)
(* numbers, and add_task_collection, whose threads submit sub-collections. *)
(* The action is executed again when the proxy dies or the action raises.  *)
(*                                                                         *)
(* Abstractions.  A generated task id (prefix and zero-filled number, with *)
(* padding for all numbers that occur, so that ids sort as numbers) is its *)
(* number.  A custom id is a model value; one in Early sorts before the    *)
(* prefix.  A task is named by the id it has in the action's blob.  Ids of *)
(* a group with dependencies have a suffix that tells them from those of   *)
(* other groups: they never collide, but no number can be read from them   *)
(* (suffixed).                                                             *)
(***************************************************************************)
EXTENDS Integers, FiniteSets, Sequences, SequencesExt

CONSTANTS
  MaxGroup,    \* bound on the generated ids of a group
  MaxOther,    \* bound on the numbers in use by other groups
  Custom,      \* custom task ids
  Early,       \* those that sort before the prefix
  Width,       \* length of a sub-collection, 100 in the code
  MaxFaults,   \* bound on Batch errors
  MaxCrashes   \* bound on crashes of the proxy

ASSUME TasksAssumption ==
  /\ {MaxGroup, MaxOther, MaxFaults, MaxCrashes} \subseteq Nat
  /\ Width \in Nat \ {0}
  /\ IsFiniteSet(Custom) /\ Custom \cap Nat = {} /\ Early \subseteq Custom

Key == Nat \cup Custom

VARIABLES
  group,       \* the tasks of the action
  deps,        \* constraints.task.has_task_dependencies
  remapped,    \* task_map is keyed by ids without the suffix
  others,      \* numbers of the tasks of other groups in the job
  suffixed,    \* ids of other groups have the prefix and, with it, a suffix
  fits,        \* number of tasks that fit into one request
  phase,       \* "idle", "renumber", "submit" or "done"
  left,        \* task_ids of task_map still to be visited
  first, next, \* first and next number given out
  map,         \* task_map
  all,         \* all_tasks, as keys of task_map
  subs,        \* the sub-collections being submitted, one thread each
  job,         \* [id -> task]: the tasks of this group in the Batch job
  faults, crashes,
  dropped      \* history: a chunk got lost with a Batch error

inputs  == <<group, deps, remapped, others, suffixed, fits>>
mapVars == <<left, first, next, map>>
vars == <<inputs, phase, mapVars, all, subs, job, faults, crashes, dropped>>

Generated == group \cap Nat

Sub(start, end) ==
  [pc |-> "call", start |-> start, end |-> end, slice |-> end - start,
   initial |-> end - start, retry |-> {}, ret |-> TRUE]

SubType ==
  [pc : {"call", "retry", "ended", "raised"}, start : Nat, end : Nat, slice : Nat,
   initial : Nat, retry : SUBSET Nat, ret : BOOLEAN]

TypeOK ==
  /\ group \subseteq Key /\ {deps, remapped} \subseteq BOOLEAN
  /\ others \subseteq Nat /\ suffixed \in BOOLEAN /\ fits \in Nat
  /\ phase \in {"idle", "renumber", "submit", "done"}
  /\ left \subseteq group /\ {first, next} \subseteq Nat
  /\ DOMAIN map \subseteq Key /\ \A k \in DOMAIN map : map[k] \in group
  /\ all \in Seq(DOMAIN map)
  /\ DOMAIN subs \subseteq Nat
  /\ \A i \in DOMAIN subs :
       /\ subs[i] \in SubType
       /\ i <= subs[i].start /\ subs[i].start < subs[i].end
       /\ subs[i].end <= Len(all)
       /\ subs[i].initial = subs[i].end - i
       /\ subs[i].slice \in 1..subs[i].initial
       /\ subs[i].retry \subseteq DOMAIN all
  /\ DOMAIN job \subseteq Key /\ \A k \in DOMAIN job : job[k] \in group
  /\ faults \in 0..MaxFaults /\ crashes \in 0..MaxCrashes
  /\ dropped \in BOOLEAN

Init ==
  /\ \E n \in 0..MaxGroup, c \in SUBSET Custom :
       group = {k \in 0..MaxGroup : k < n} \cup c
  /\ deps \in BOOLEAN /\ remapped \in {FALSE, deps}
  /\ others \in SUBSET (0..MaxOther)
  /\ suffixed \in BOOLEAN
  /\ deps /\ ~remapped => others = {} /\ ~suffixed   \* the job ids are unique
  /\ fits \in 0..Width
  /\ phase = "idle"
  /\ left = {} /\ first = 0 /\ next = 0 /\ map = << >>
  /\ all = << >> /\ subs = << >> /\ job = << >>
  /\ faults = 0 /\ crashes = 0 /\ dropped = FALSE

(***************************************************************************)
(* schedule_tasks and regenerate_next_generic_task_id.                     *)
(***************************************************************************)

\* Mutant: the numbers of a new group start from the number of tasks.
FreeFromCount ==
  Cardinality(others \cup (DOMAIN job \cap Nat))

\* One more than the greatest number in the job, or 0.
Free ==
  LET used == others \cup (DOMAIN job \cap Nat)
  IN IF used = {} THEN 0 ELSE 1 + Max(used)

Begin ==
  /\ phase = "idle"
  /\ phase' = "renumber"
  /\ map' = [k \in group |-> k]
  /\ left' = IF deps THEN {} ELSE group
  /\ first' = Free /\ next' = Free
  /\ UNCHANGED <<inputs, all, subs, job, faults, crashes, dropped>>

\* Mutant: the ids are visited in no order.
Unsorted(k) == k \in left

\* sorted(task_map.keys())
Visited(k) ==
  /\ k \in left
  /\ left \cap Early # {} => k \in Early
  /\ k \in Nat => \A j \in left \cap Nat : k <= j
  /\ k \in Custom \ Early => left \cap Nat = {}

\* The task gets the next number.  What task_map had at that number is lost.
Renumber(k) ==
  /\ phase = "renumber" /\ Visited(k) /\ k \in Nat /\ ~suffixed
  /\ map' = [j \in (DOMAIN map \ {k}) \cup {next} |->
               IF j = next THEN map[k] ELSE map[j]]
  /\ left' = left \ {k}
  /\ next' = next + 1
  /\ UNCHANGED <<inputs, phase, first, all, subs, job, faults, crashes, dropped>>

\* The list of the ids in the job is read when the first number is given out.
NoList == left \cap Nat = Generated

KeepCustom(k) ==
  /\ phase = "renumber" /\ Visited(k) /\ k \in Custom /\ ~NoList
  /\ left' = left \ {k}
  /\ UNCHANGED <<inputs, phase, first, next, map, all, subs, job, faults, crashes,
                 dropped>>

\* A custom id cannot be appended to a list that was not read; the tasks of the job
\* cannot be listed; or one of their ids has no number after the prefix (ValueError).
Raise ==
  /\ phase = "renumber" /\ NoList
  /\ \E k \in left :
       /\ Visited(k)
       /\ \/ (k \in Custom \/ suffixed) /\ UNCHANGED faults
          \/ k \in Nat /\ faults < MaxFaults /\ faults' = faults + 1
  /\ phase' = "idle"
  /\ UNCHANGED <<inputs, mapVars, all, subs, job, crashes, dropped>>

(***************************************************************************)
(* add_task_collection and _submit_task_sub_collection.                    *)
(***************************************************************************)

\* range(0, num_tasks, slice): a sub-collection is named by its first index.
SubCollections(n) ==
  [b \in {b \in 0..(n - 1) : b % Width = 0} |->
     Sub(b, IF b + Width > n THEN n ELSE b + Width)]

StartThreads ==
  /\ phase = "renumber" /\ left = {}
  /\ phase' = "submit"
  /\ all' = SetToSeq(DOMAIN map)
  /\ subs' = SubCollections(Cardinality(DOMAIN map))
  /\ UNCHANGED <<inputs, mapVars, job, faults, crashes, dropped>>

ChunkEnd(s) == IF s.start + s.slice > s.end THEN s.end ELSE s.start + s.slice

Chunk(s) == (s.start + 1)..ChunkEnd(s)

\* Mutant: the next chunk starts one whole slice later.
SkipSlice(s) ==
  IF s.start + s.initial >= s.end
    THEN [s EXCEPT !.pc = "ended", !.retry = {}]
    ELSE [s EXCEPT !.pc = "call", !.retry = {}, !.start = s.start + s.initial,
                   !.slice = s.initial]

Advance(s) ==
  IF ChunkEnd(s) = s.end
    THEN [s EXCEPT !.pc = "ended", !.retry = {}]
    ELSE [s EXCEPT !.pc = "call", !.retry = {}, !.start = ChunkEnd(s),
                   !.slice = s.initial]

\* Mutant: a slice of one that is too large is tried for ever.
HalveForever(s) ==
  [s EXCEPT !.slice = IF @ = 1 THEN 1 ELSE @ \div 2]

Halve(s) ==
  IF s.slice = 1 THEN [s EXCEPT !.pc = "raised"]
                 ELSE [s EXCEPT !.slice = @ \div 2]

Taken(k) ==
  \/ k \in DOMAIN job
  \/ ~deps /\ k \in others

\* Batch adds the tasks whose ids are free; B are those it answers with a server
\* error, D those of them that it adds nonetheless.
Added(I, B, D) ==
  LET new == {all[i] : i \in {i \in (I \ B) \cup D : ~Taken(all[i])}}
  IN job' = [k \in DOMAIN job \cup new |->
               IF k \in DOMAIN job THEN job[k] ELSE map[k]]

\* The results of one request.  task_map does not know the ids with a suffix.
Results(s, I, B) ==
  LET t == [s EXCEPT !.ret = @ /\ \A i \in I \ B : ~Taken(all[i])]
  IN IF B = {} THEN Advance(t)
     ELSE [t EXCEPT !.pc = IF remapped THEN "raised" ELSE "retry", !.retry = B]

Request(i, I) ==
  \E B \in SUBSET I : \E D \in SUBSET B :
    /\ B # {} => faults < MaxFaults
    /\ faults' = IF B = {} THEN faults ELSE faults + 1
    /\ Added(I, B, D)
    /\ subs' = [subs EXCEPT ![i] = Results(@, I, B)]
    /\ UNCHANGED dropped

\* An exception of the call ends the thread; the request may have been served.
RequestRaises(i, I) ==
  /\ faults < MaxFaults /\ faults' = faults + 1
  /\ Added(I, {}, {}) \/ UNCHANGED job
  /\ subs' = [subs EXCEPT ![i].pc = "raised"]
  /\ UNCHANGED dropped

AddChunk(i) ==
  LET I == Chunk(subs[i])
  IN
  /\ phase = "submit" /\ subs[i].pc = "call"
  /\ IF Cardinality(I) > fits
       THEN /\ subs' = [subs EXCEPT ![i] = Halve(@)]
            /\ UNCHANGED <<job, faults, dropped>>
       ELSE \/ Request(i, I)
            \/ RequestRaises(i, I)
            \/ \* any other Batch error: the chunk is passed over
               /\ faults < MaxFaults /\ faults' = faults + 1
               /\ subs' = [subs EXCEPT ![i] = Advance(@)]
               /\ dropped' = TRUE
               /\ UNCHANGED job
  /\ UNCHANGED <<inputs, phase, mapVars, all, crashes>>

RetryFailed(i) ==
  /\ phase = "submit" /\ subs[i].pc = "retry"
  /\ Request(i, subs[i].retry) \/ RequestRaises(i, subs[i].retry)
  /\ UNCHANGED <<inputs, phase, mapVars, all, crashes>>

Errors == \E i \in DOMAIN subs : ~subs[i].ret \/ subs[i].pc = "raised"

\* Errors are logged; in either case the action is done.
EndSubmission ==
  /\ phase = "submit"
  /\ \A i \in DOMAIN subs : subs[i].pc \in {"ended", "raised"}
  /\ phase' = "done"
  /\ UNCHANGED <<inputs, mapVars, all, subs, job, faults, crashes, dropped>>

\* The proxy dies; the message of the action comes back.
Crash ==
  /\ phase \in {"renumber", "submit"}
  /\ crashes < MaxCrashes /\ crashes' = crashes + 1
  /\ phase' = "idle"
  /\ left' = {} /\ first' = 0 /\ next' = 0 /\ map' = << >>
  /\ all' = << >> /\ subs' = << >>
  /\ UNCHANGED <<inputs, job, faults, dropped>>

Act ==
  \/ Begin \/ StartThreads \/ EndSubmission \/ Raise
  \/ \E k \in group : Renumber(k) \/ KeepCustom(k)
  \/ \E i \in DOMAIN subs : AddChunk(i) \/ RetryFailed(i)

Next == Act \/ Crash

Spec == Init /\ [][Next]_vars

\* The proxy goes on; so do all its threads, of which finitely many exist.
FairSpec == Spec /\ WF_vars(Act)

(***************************************************************************)
(* Properties.                                                             *)
(***************************************************************************)

\* Renumbering loses no task, if it starts above all numbers of the group or leaves
\* them as they are.
NothingLost ==
  phase # "idle" /\ (deps \/ first = 0 \/ \A k \in Generated : k < first)
  => \A t \in group : \E k \in DOMAIN map : map[k] = t

\* The number given to a task is not in use: Batch refuses none of the tasks that
\* were not added before.
NoCollision ==
  phase = "submit" => \A k \in DOMAIN map \cap Nat :
    /\ deps \/ k \notin others
    /\ k \in DOMAIN job => job[k] = map[k]

\* What is reported as submitted is in the job, unless a chunk was passed over.
ReportTrue ==
  phase = "done" /\ ~Errors /\ ~dropped
  => \A k \in DOMAIN map : k \in DOMAIN job /\ job[k] = map[k]

\* Without crashes and errors the whole group is in the job.
GroupComplete ==
  phase = "done" /\ faults = 0 /\ fits > 0 /\ crashes = 0
  => \A t \in group : \E k \in DOMAIN job : job[k] = t

\* A group of generated ids, or with dependencies, is handled, unless the numbers in
\* the job cannot be read: then, or with an early custom id, the action raises at every
\* execution.
Handled ==
  deps \/ (Early \cap group = {} /\ Generated # {} /\ ~suffixed) => <>(phase = "done")
=============================================================================
