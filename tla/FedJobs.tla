-------------------------------- MODULE FedJobs --------------------------------
(***************************************************************************)
(* What the actions of one job do on the pools of a federation: add_job_v1,*)
(* add_job_schedule_v1 and delete_or_terminate_job_v1, with the Batch      *)
(* accounts they call, the location entities they keep in the jobs table   *)
(* (track_job), and crashes, exceptions and Batch errors between the calls.*)
(*                                                                         *)
(* Abstractions.  Actions come one at a time and in order, which is what   *)
(* FedActions shows of the pipeline; an action that was interrupted or     *)
(* found no pool is executed again.  Which pool fits is left open.  The    *)
(* tasks of an add action are one unit, named by the action's turn; how    *)
(* the unit may be added in part is the subject of FedTasks.               *)
(***************************************************************************)
EXTENDS Naturals, FiniteSets

CONSTANTS
  Pool, Account,
  NoPool,          \* "no pool"
  AccountOf,       \* [Pool -> Account]: a job id is unique in an account
  MaxActions,      \* length of the sequence of actions
  MaxInterrupts,   \* bound on crashes and exceptions
  MaxBatchFaults   \* bound on Batch errors that the code does not name

ASSUME JobsAssumption ==
  /\ IsFiniteSet(Account)
  /\ NoPool \notin Pool
  /\ AccountOf \in [Pool -> Account]
  /\ {MaxActions, MaxInterrupts, MaxBatchFaults} \subseteq Nat

Turn == 1..MaxActions
Method == {"add", "terminate", "delete"}

VARIABLES
  kind,        \* "job" or "job_schedule"
  plan,        \* [Turn -> Method]
  state,       \* [Account -> state of the Batch job with this id]
  pool,        \* [Account -> pool the Batch job is assigned to]
  tasks,       \* [Account -> turns whose tasks are in the Batch job]
  located,     \* pools with a location entity
  stamped,     \* those of them with a TerminateTimestamp
  uids,        \* [Pool -> SUBSET Turn]: UniqueIds of the location entities
  pc, turn,    \* the action being executed
  target, blacklist,
  todo,        \* location entities a terminate or delete still has to handle
  called,      \* the one whose Batch call was made
  interrupts, batchFaults,
  raised,      \* history: pools whose coroutine raised, in the present action
  orphaned     \* history: accounts with a job whose delete call failed without notice

batchVars == <<state, pool, tasks>>
tableVars == <<located, stamped, uids>>
procVars  == <<pc, turn, target, blacklist, todo, called>>
errorVars == <<interrupts, batchFaults, raised, orphaned>>
jobsVars == <<kind, plan, batchVars, tableVars, procVars, errorVars>>

JobsTypeOK ==
  /\ kind \in {"job", "job_schedule"}
  /\ plan \in [Turn -> Method]
  /\ state \in [Account -> {"none", "active", "completed", "deleting"}]
  /\ pool \in [Account -> Pool \cup {NoPool}]
  /\ tasks \in [Account -> SUBSET Turn]
  /\ located \subseteq Pool /\ stamped \subseteq located
  /\ uids \in [Pool -> SUBSET Turn]
  /\ pc \in {"idle", "find", "create", "cleanup", "wait", "track", "schedule",
             "retrack", "entities", "done"}
  /\ turn \in 1..(MaxActions + 1)
  /\ target \in Pool \cup {NoPool}
  /\ blacklist \subseteq Pool
  /\ todo \subseteq Pool /\ called \subseteq todo
  /\ interrupts \in 0..MaxInterrupts /\ batchFaults \in 0..MaxBatchFaults
  /\ raised \subseteq Pool /\ orphaned \subseteq Account

JobsInit ==
  /\ kind \in {"job", "job_schedule"}
  /\ plan \in [Turn -> Method]
  /\ state = [a \in Account |-> "none"]
  /\ pool = [a \in Account |-> NoPool]
  /\ tasks = [a \in Account |-> {}]
  /\ located = {} /\ stamped = {} /\ uids = [p \in Pool |-> {}]
  /\ pc = "idle" /\ turn = 1 /\ target = NoPool
  /\ blacklist = {} /\ todo = {} /\ called = {}
  /\ interrupts = 0 /\ batchFaults = 0 /\ raised = {} /\ orphaned = {}

Goto(l) == pc' = l

BatchFault == batchFaults < MaxBatchFaults /\ batchFaults' = batchFaults + 1

\* The account of the pool the action has selected.
Here == AccountOf[target]

\* Mutant: a schedule is added although the federation has one of this id.
StartUnchecked ==
  /\ pc = "idle" /\ turn \in Turn
  /\ blacklist' = {}
  /\ IF plan[turn] = "add"
       THEN Goto("find") /\ UNCHANGED todo
       ELSE Goto("entities") /\ todo' = located
  /\ UNCHANGED <<kind, plan, batchVars, tableVars, turn, target, called,
                 errorVars>>

\* process_message_action_v1.  An existing job schedule is not added again.
Start ==
  /\ pc = "idle" /\ turn \in Turn
  /\ blacklist' = {}
  /\ \/ /\ plan[turn] = "add"
        /\ Goto(IF kind = "job_schedule" /\ located # {} THEN "done" ELSE "find")
        /\ UNCHANGED todo
     \/ /\ plan[turn] # "add"
        /\ Goto("entities")
        /\ todo' = located
  /\ raised' = {}
  /\ UNCHANGED <<kind, plan, batchVars, tableVars, turn, target, called,
                 interrupts, batchFaults, orphaned>>

(***************************************************************************)
(* add_job_v1 and add_job_schedule_v1.                                     *)
(***************************************************************************)

\* find_target_pool_for_job returns a pool that is not blacklisted.
FindTarget(p) ==
  /\ pc = "find" /\ p \notin blacklist
  /\ target' = p
  /\ Goto("create")
  /\ UNCHANGED <<kind, plan, batchVars, tableVars, turn, blacklist, todo, called,
                 errorVars>>

\* It returns none: the action is blocked, its message comes back.
NoTarget ==
  /\ pc = "find"
  /\ Goto("idle")
  /\ UNCHANGED <<kind, plan, batchVars, tableVars, turn, target, blacklist, todo,
                 called, errorVars>>

\* Mutant: a pool that refused the job is matched again.
RefuseOnly == Goto("find") /\ UNCHANGED blacklist

Refuse ==
  /\ Goto("find")
  /\ blacklist' = blacklist \cup {target}

\* Mutant: the job is tracked only once its tasks are added.
TrackLater == Goto("schedule") /\ UNCHANGED blacklist

Accept == Goto("track") /\ UNCHANGED blacklist

\* create_job and create_job_schedule.
Create ==
  /\ pc = "create"
  /\ \/ /\ state[Here] = "none"
        /\ state' = [state EXCEPT ![Here] = "active"]
        /\ pool' = [pool EXCEPT ![Here] = target]
        /\ Accept
        /\ UNCHANGED batchFaults
     \/ \* the job exists, on this pool and with compatible settings
        /\ kind = "job" /\ state[Here] = "active" /\ pool[Here] = target
        /\ Accept
        /\ UNCHANGED <<state, pool, batchFaults>>
     \/ \* it exists and is completed, being deleted, on another pool of the
        \* account, incompatible, or a schedule
        /\ state[Here] # "none"
        /\ Refuse
        /\ UNCHANGED <<state, pool, batchFaults>>
     \/ BatchFault /\ Goto("cleanup") /\ UNCHANGED <<state, pool, blacklist>>
  /\ UNCHANGED <<kind, plan, tasks, tableVars, turn, target, todo, called,
                 interrupts, raised, orphaned>>

\* delete_or_terminate_job after an error the code does not name: whatever job
\* of this id the account has is deleted, also one that was there before.
CleanUp ==
  /\ pc = "cleanup"
  /\ \/ /\ state[Here] = "none"
        /\ Refuse
        /\ UNCHANGED <<state, batchFaults>>
     \/ /\ state[Here] # "none"
        /\ Goto("wait")
        /\ state' = [state EXCEPT ![Here] = "deleting"]
        /\ UNCHANGED <<blacklist, batchFaults>>
     \/ \* the delete call fails, too
        /\ BatchFault
        /\ Goto("wait")
        /\ UNCHANGED <<state, blacklist>>
  /\ UNCHANGED <<kind, plan, pool, tasks, tableVars, turn, target, todo, called,
                 interrupts, raised, orphaned>>

\* The loop with asyncio.sleep: wait for the job to disappear or complete.
WaitDeleted ==
  /\ pc = "wait" /\ state[Here] \in {"none", "completed"}
  /\ Refuse
  /\ UNCHANGED <<kind, plan, batchVars, tableVars, turn, target, todo, called,
                 errorVars>>

\* track_job, before the tasks and without the unique id; a schedule has none
\* and is done.
Track ==
  /\ pc = "track"
  /\ located' = located \cup {target}
  /\ uids' = IF kind = "job" THEN uids ELSE [uids EXCEPT ![target] = @ \cup {turn}]
  /\ Goto(IF kind = "job" THEN "schedule" ELSE "done")
  /\ UNCHANGED <<kind, plan, batchVars, stamped, turn, target, blacklist, todo,
                 called, errorVars>>

\* schedule_tasks.  An error of add_collection is logged, or not even that, and
\* the action goes on; set_auto_complete_on_job raises for a job that is gone.
Schedule ==
  /\ pc = "schedule"
  /\ \/ /\ state[Here] = "active"
        /\ tasks' = [tasks EXCEPT ![Here] = @ \cup {turn}]
        /\ Goto("retrack")
        /\ UNCHANGED batchFaults
     \/ /\ state[Here] # "active"
        /\ pc' \in {"retrack", "idle"}
        /\ UNCHANGED <<tasks, batchFaults>>
     \/ BatchFault /\ Goto("retrack") /\ UNCHANGED tasks
  /\ UNCHANGED <<kind, plan, state, pool, tableVars, turn, target, blacklist,
                 todo, called, interrupts, raised, orphaned>>

\* track_job once more, with the unique id.
Retrack ==
  /\ pc = "retrack"
  /\ located' = located \cup {target}
  /\ uids' = [uids EXCEPT ![target] = @ \cup {turn}]
  /\ Goto("done")
  /\ UNCHANGED <<kind, plan, batchVars, stamped, turn, target, blacklist, todo,
                 called, errorVars>>

(***************************************************************************)
(* delete_or_terminate_job_v1: one coroutine per location entity.  None of *)
(* them awaits, so they run one after the other, each a Batch call and a   *)
(* write to the table.  What a coroutine raises is not looked at: the      *)
(* action is done although the entity was not handled.                     *)
(***************************************************************************)

\* Mutant: a delete passes over entities that were terminated, too.
CallUnlessStamped(p) ==
  /\ pc = "entities" /\ p \in todo /\ called = {}
  /\ called' = {p}
  /\ state' = [state EXCEPT ![AccountOf[p]] =
                 IF p \in stamped \/ @ = "none" THEN @
                 ELSE IF plan[turn] = "delete" THEN "deleting" ELSE "completed"]
  /\ UNCHANGED <<kind, plan, pool, tasks, tableVars, pc, turn, target, blacklist,
                 todo, errorVars>>

\* delete_or_terminate_job.  Every BatchErrorException is taken for success, so the
\* entity of a job that was not deleted goes, too.  An entity that was terminated
\* before is passed over.
BatchCall(p) ==
  LET a == AccountOf[p]
      terminates == plan[turn] = "terminate"
  IN
  /\ pc = "entities" /\ p \in todo /\ called = {}
  /\ called' = {p}
  /\ \/ /\ terminates /\ p \in stamped
        /\ UNCHANGED <<state, batchFaults, orphaned>>
     \/ /\ ~(terminates /\ p \in stamped)
        /\ state' = [state EXCEPT ![a] = IF @ = "none" THEN @
                                         ELSE IF ~terminates THEN "deleting"
                                         ELSE IF @ = "active" THEN "completed"
                                         ELSE @]
        /\ UNCHANGED <<batchFaults, orphaned>>
     \/ /\ ~(terminates /\ p \in stamped)
        /\ BatchFault
        /\ orphaned' = IF terminates \/ state[a] = "none" THEN orphaned
                       ELSE orphaned \cup {a}
        /\ UNCHANGED state
  /\ UNCHANGED <<kind, plan, pool, tasks, tableVars, pc, turn, target, blacklist,
                 todo, interrupts, raised>>

\* The TerminateTimestamp is set, or the entity is deleted.
WriteEntity(p) ==
  /\ pc = "entities" /\ called = {p}
  /\ called' = {}
  /\ todo' = todo \ {p}
  /\ IF plan[turn] = "terminate"
       THEN stamped' = stamped \cup {p} /\ UNCHANGED <<located, uids>>
       ELSE /\ located' = located \ {p} /\ stamped' = stamped \ {p}
            /\ uids' = [uids EXCEPT ![p] = {}]
  /\ UNCHANGED <<kind, plan, batchVars, pc, turn, target, blacklist, errorVars>>

\* Any other exception of the call, or one of the write, ends the coroutine:
\* asyncio.wait returns all the same, and nobody asks for the exception.
CoroutineRaises(p) ==
  /\ pc = "entities" /\ p \in todo /\ called \subseteq {p}
  /\ plan[turn] = "terminate" /\ p \in stamped => called = {p}
  /\ BatchFault
  /\ called' = {}
  /\ todo' = todo \ {p}
  /\ raised' = raised \cup {p}
  /\ UNCHANGED <<kind, plan, batchVars, tableVars, pc, turn, target, blacklist,
                 interrupts, orphaned>>

AllHandled ==
  /\ pc = "entities" /\ todo = {}
  /\ Goto("done")
  /\ UNCHANGED <<kind, plan, batchVars, tableVars, turn, target, blacklist, todo,
                 called, errorVars>>

\* The action's id is popped, the next action is at the head.
Finish ==
  /\ pc = "done"
  /\ turn' = turn + 1
  /\ Goto("idle")
  /\ target' = NoPool /\ blacklist' = {}
  /\ UNCHANGED <<kind, plan, batchVars, tableVars, todo, called, errorVars>>

\* The proxy dies, or a call raises out of the action: it is executed again.
Interrupt ==
  /\ pc # "idle"
  /\ interrupts < MaxInterrupts /\ interrupts' = interrupts + 1
  /\ Goto("idle")
  /\ target' = NoPool /\ blacklist' = {} /\ todo' = {} /\ called' = {}
  /\ UNCHANGED <<kind, plan, batchVars, tableVars, turn, batchFaults, raised, orphaned>>

(***************************************************************************)
(* The Batch service.                                                      *)
(***************************************************************************)

\* A job completes: auto-completion, or its last task.
JobCompletes(a) ==
  /\ state[a] = "active"
  /\ state' = [state EXCEPT ![a] = "completed"]
  /\ UNCHANGED <<kind, plan, pool, tasks, tableVars, procVars, errorVars>>

DeletionEnds(a) ==
  /\ state[a] = "deleting"
  /\ state' = [state EXCEPT ![a] = "none"]
  /\ pool' = [pool EXCEPT ![a] = NoPool]
  /\ tasks' = [tasks EXCEPT ![a] = {}]
  /\ orphaned' = orphaned \ {a}
  /\ UNCHANGED <<kind, plan, tableVars, procVars, interrupts, batchFaults, raised>>

JobsAct ==
  \/ Start \/ NoTarget \/ Create \/ CleanUp \/ WaitDeleted \/ Track \/ Schedule
  \/ Retrack \/ AllHandled \/ Finish
  \/ \E p \in Pool : FindTarget(p) \/ BatchCall(p) \/ WriteEntity(p) \/ CoroutineRaises(p)

JobsNext == JobsAct \/ Interrupt \/ \E a \in Account : JobCompletes(a) \/ DeletionEnds(a)

JobsSpec == JobsInit /\ [][JobsNext]_jobsVars

\* The proxy goes on with an action, Batch with a deletion.
FairJobsSpec ==
  /\ JobsSpec
  /\ WF_jobsVars(JobsAct)
  /\ \A a \in Account : WF_jobsVars(DeletionEnds(a))

(***************************************************************************)
(* Properties.                                                             *)
(***************************************************************************)

\* A job with tasks has a location entity of its pool, so that a later terminate
\* or delete finds it ("track job prior to adding tasks in case task addition
\* fails"), wherever an add or a delete is interrupted or raises; a job whose
\* delete call failed without notice excepted.
TasksTracked ==
  \A a \in Account :
    tasks[a] # {} /\ state[a] \in {"active", "completed"}
    => pool[a] \in located \/ a \in orphaned

\* When a delete action is done, the only jobs with tasks that are left are those
\* whose coroutine raised, and these still have their location entity, so that the
\* next delete finds them; or Batch refused the delete and the entity went.
DeleteComplete ==
  pc = "done" /\ plan[turn] = "delete"
  => \A a \in Account :
       tasks[a] # {} /\ state[a] \in {"active", "completed"}
       => pool[a] \in raised \cap located \/ a \in orphaned

\* When a terminate action is done, no job with tasks is active.
TerminateEffective ==
  pc = "done" /\ plan[turn] = "terminate"
  => \A a \in Account : tasks[a] # {} => state[a] # "active"

\* Only an interruption leaves two job schedules of one id active, those aside whose
\* delete call failed without notice ("ensure there is no existing job schedule").
OneSchedule ==
  kind = "job_schedule"
  => Cardinality({a \in Account : state[a] = "active"} \ orphaned) <= 1 + interrupts

\* The search for a pool ends, with a job or with a blocked action, unless it
\* waits for the end of a job whose deletion failed.
SearchEnds ==
  pc = "find" ~> \/ pc \in {"idle", "done"}
                 \/ pc = "wait" /\ state[Here] = "active"
=============================================================================
