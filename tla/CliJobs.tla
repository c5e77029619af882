------------------------------ MODULE CliJobs ------------------------------
(***************************************************************************)
(* The jobs commands of the command line (convoy/batch.py, fleet.py) and   *)
(* the recurrent job manager (cargo/recurrent_job_manager.py), which adds  *)
(* the tasks of every run of a job schedule.  A command is a sequence of   *)
(* Batch calls; Batch changes the job in between, when tasks complete, and *)
(* so may another command.                                                 *)
(*                                                                         *)
(* The jobs configuration has one job, or one job schedule (recurrence).   *)
(* In the latter case job is the job of the schedule's current run.        *)
(***************************************************************************)
EXTENDS Naturals, FiniteSets

CONSTANTS
  Client,       \* command lines
  None,         \* nobody
  NewTasks,     \* tasks of the jobs configuration, without ids of their own
  MaxTask,      \* bound: task numbers 0..MaxTask-1 are used
  MaxCommands,  \* bound: commands given
  MaxRuns,      \* bound: runs of a schedule
  MaxFaults     \* bound: calls that fail, commands and job managers that die

ASSUME CliJobsAssumption ==
  /\ NewTasks \in Nat \ {0} /\ MaxTask \in Nat /\ NewTasks <= MaxTask
  /\ MaxCommands \in Nat /\ MaxRuns \in Nat /\ MaxFaults \in Nat
  /\ None \notin Client

VARIABLES
  cfg,       \* jobs configuration; full: a job manager leaves no task slot free
  sched,     \* job schedule
  map,       \* the pickled task map of the schedule is in the storage account
  job, tasks,
  jm,        \* job manager task of the job
  cmd,       \* commands
  commands, runs, faults,
  harmed     \* an error lost the map of a schedule or tasks of a run

batch == <<sched, job, tasks>>
bounds == <<commands, runs>>
vars == <<cfg, batch, map, jm, cmd, bounds, faults, harmed>>

Pool == {"old", "new"}
Num == 0..(MaxTask - 1)
Scratch == <<"scratch", 0>>
Id == ({"task", "merge"} \X Num) \cup {Scratch}
Manager == "jm"

NoJob == [state |-> "none", auto |-> FALSE, pool |-> "old"]
NoTask == [state |-> "none", by |-> None, deps |-> {}]
NoCommand == [op |-> "none", at |-> "idle", recreate |-> FALSE, wait |-> FALSE,
              ids |-> {}, todo |-> {}, fresh |-> FALSE, alone |-> FALSE,
              calm |-> TRUE, blind |-> FALSE]

TypeOK ==
  /\ sched \in [state : {"none", "active", "disabled", "completed"}, pool : Pool]
  /\ map \in BOOLEAN /\ harmed \in BOOLEAN
  /\ job \in [state : {"none", "active", "disabling", "disabled", "terminating",
                       "completed", "deleting"}, auto : BOOLEAN, pool : Pool]
  /\ \A i \in Id : /\ tasks[i].state \in {"none", "active", "done"}
                   /\ tasks[i].by \in Client \cup {Manager, None}
                   /\ tasks[i].deps \subseteq Id
                   /\ tasks[i].state # "none" => job.state # "none"
  /\ jm \in {"none", "submit", "monitor", "over"}
  /\ \A c \in Client : cmd[c].todo \subseteq cmd[c].ids /\ cmd[c].ids \subseteq Id

Init ==
  /\ cfg \in [recur : BOOLEAN, auto : BOOLEAN, monitor : BOOLEAN, full : BOOLEAN,
              merge : BOOLEAN, scratch : {"none", "block", "dependency"}]
  /\ IF cfg.recur THEN cfg.scratch = "none" ELSE ~cfg.monitor /\ ~cfg.full
  /\ sched = [state |-> "none", pool |-> "old"] /\ map = FALSE
  /\ job = NoJob /\ tasks = [i \in Id |-> NoTask] /\ jm = "none"
  /\ cmd = [c \in Client |-> NoCommand]
  /\ commands = 0 /\ runs = 0 /\ faults = 0 /\ harmed = FALSE

\* A schedule's job manager monitors the tasks and its end is the end of the job
\* (monitor_task_completion), unless the job completes with its tasks (auto_complete).
\* With neither, and with monitoring on a single slot, the user is asked, and may go on.
KillOnCompletion == cfg.recur /\ cfg.monitor /\ ~cfg.auto

----------------------------------------------------------------------------
(* Steps of commands *)

At(c, label) == cmd[c].at = label

Goto(c, label) == cmd' = [cmd EXCEPT ![c].at = label]

Raises(c) == cmd' = [cmd EXCEPT ![c].at = "raised"]

\* A call fails and the command with it.
Fails(c) == Raises(c) /\ faults < MaxFaults /\ faults' = faults + 1

AtRest(c) == cmd[c].at \in {"idle", "done", "raised"}

Begin(c, r) ==
  /\ AtRest(c) /\ commands < MaxCommands /\ commands' = commands + 1
  /\ LET alone == \A d \in Client \ {c} : AtRest(d) IN
     cmd' = [d \in Client |-> IF d = c THEN [r EXCEPT !.alone = alone]
                              ELSE [cmd[d] EXCEPT !.alone = FALSE]]

\* Ctrl-C, or the machine goes down.
Interrupt(c) ==
  /\ ~AtRest(c) /\ Fails(c)
  /\ UNCHANGED <<cfg, batch, map, jm, bounds, harmed>>

Quiet == UNCHANGED <<cfg, sched, map, jm, bounds, harmed>>

----------------------------------------------------------------------------
(* jobs add, of a job *)

Live == job.state \in {"active", "disabling", "disabled"}
NewJob == [NoJob EXCEPT !.state = "active"]
AfterJob == IF cfg.scratch = "none" THEN "list" ELSE "scratch"
Created(r) == [r EXCEPT !.at = AfterJob, !.fresh = TRUE]

\* Mutant: the job completes with its tasks from the start.
AddAutoJob(c) ==
  /\ At(c, "add") /\ job.state = "none"
  /\ job' = [NewJob EXCEPT !.auto = cfg.auto] /\ cmd' = [cmd EXCEPT ![c] = Created(@)]
  /\ UNCHANGED <<tasks, faults>> /\ Quiet

\* The auto scratch task of a job that exists was added, and did not fail; with
\* block it must have run.
Reuse(c) ==
  \/ /\ cfg.scratch = "none" \/ tasks[Scratch].state # "none"
     /\ Goto(c, "list")
  \/ /\ cfg.scratch # "none"
     /\ tasks[Scratch].state # "active" \/ cfg.scratch = "block"
     /\ Raises(c)

\* A job that exists is used again, if its auto scratch was set up; a completed
\* one is deleted and created anew if the user says so.
AddJob(c) ==
  /\ At(c, "add")
  /\ \/ /\ job.state = "none" /\ job' = NewJob
        /\ cmd' = [cmd EXCEPT ![c] = Created(@)] /\ UNCHANGED faults
     \/ Live /\ UNCHANGED <<job, faults>> /\ Reuse(c)
     \/ /\ job.state = "completed" /\ cmd[c].recreate
        /\ job' = [job EXCEPT !.state = "deleting"]
        /\ Goto(c, "recreate") /\ UNCHANGED faults
     \/ /\ \/ job.state \in {"terminating", "deleting"}
           \/ job.state = "completed" /\ ~cmd[c].recreate
        /\ Raises(c) /\ UNCHANGED <<job, faults>>
     \/ Fails(c) /\ UNCHANGED job
  /\ UNCHANGED tasks /\ Quiet

\* The deletion is waited for; the second job.add expects no job.
Recreate(c) ==
  /\ At(c, "recreate") /\ job.state # "deleting"
  /\ IF job.state = "none"
       THEN job' = NewJob /\ cmd' = [cmd EXCEPT ![c] = Created(@)]
       ELSE Raises(c) /\ UNCHANGED job
  /\ UNCHANGED <<tasks, faults>> /\ Quiet

\* The auto scratch task is added to a new job.
AddScratch(c) ==
  /\ At(c, "scratch")
  /\ \/ /\ Live /\ tasks[Scratch].state = "none"
        /\ tasks' = [tasks EXCEPT ![Scratch] = [state |-> "active", by |-> c, deps |-> {}]]
        /\ Goto(c, IF cfg.scratch = "block" THEN "setup" ELSE "list") /\ UNCHANGED faults
     \/ /\ ~Live \/ tasks[Scratch].state # "none"
        /\ Raises(c) /\ UNCHANGED <<tasks, faults>>
     \/ Fails(c) /\ UNCHANGED tasks
  /\ UNCHANGED job /\ Quiet

\* With block, the command waits for it; it may fail.
AwaitScratch(c) ==
  /\ At(c, "setup")
  /\ \/ tasks[Scratch].state = "done" /\ Goto(c, "list") /\ UNCHANGED faults
     \/ tasks[Scratch].state = "none" /\ Raises(c) /\ UNCHANGED faults
     \/ tasks[Scratch].state = "done" /\ Fails(c)
  /\ UNCHANGED <<job, tasks>> /\ Quiet

Numbers(kind) == {n \in Num : tasks[<<kind, n>>].state # "none"}
Last(S) == CHOOSE n \in S : \A m \in S : m <= n
Next0(S) == IF S = {} THEN 0 ELSE Last(S) + 1

\* The ids of the job are listed once; a list that fails counts as empty.
List(c) ==
  /\ At(c, "list")
  /\ \E used \in {Numbers("task"), {}} :
       LET n == Next0(used)
           ids == {<<"task", k>> : k \in n..(n + NewTasks - 1)} IN
       /\ n + NewTasks <= MaxTask
       /\ \/ used = Numbers("task") /\ UNCHANGED faults
          \/ used = {} /\ faults < MaxFaults /\ faults' = faults + 1
       /\ cmd' = [cmd EXCEPT ![c].ids = ids, ![c].todo = ids, ![c].blind = (used = {}),
                             ![c].calm = (@ /\ faults' = faults),
                             ![c].at = IF cfg.merge THEN "merge" ELSE "submit"]
  /\ UNCHANGED <<job, tasks>> /\ Quiet

\* The merge task has a prefix of its own: the ids are listed anew, unless the list
\* was empty, which tells nothing about merge tasks.
ListMerge(c) ==
  /\ At(c, "merge")
  /\ LET n == IF cmd[c].blind THEN 0 ELSE Next0(Numbers("merge")) IN
     /\ n < MaxTask
     /\ cmd' = [cmd EXCEPT ![c].ids = @ \cup {<<"merge", n>>},
                           ![c].todo = @ \cup {<<"merge", n>>}, ![c].at = "submit"]
  /\ UNCHANGED <<job, tasks, faults>> /\ Quiet

\* What a task of ids waits for.
Deps(i, ids) ==
  IF i[1] = "merge" THEN {j \in ids : j[1] = "task"}
  ELSE IF cfg.scratch = "dependency" THEN {Scratch} ELSE {}

\* Batch adds the tasks of S that do not exist.
Added(S, ids, who) ==
  [i \in Id |-> IF i \in S /\ tasks[i].state = "none"
                THEN [state |-> "active", by |-> who, deps |-> Deps(i, ids)]
                ELSE tasks[i]]

\* Mutant: a chunk with server errors is given up.
SubmitOnce(c) ==
  /\ At(c, "submit") /\ cmd[c].todo # {} /\ Live
  /\ \E S \in SUBSET cmd[c].todo \ {{}} : \E T \in SUBSET S :
       /\ tasks' = Added(T, cmd[c].ids, c)
       /\ cmd' = [cmd EXCEPT ![c].todo = @ \ S]
  /\ UNCHANGED <<job, faults>> /\ Quiet

\* Threads add chunks of up to a hundred tasks.  Batch answers task by task: those
\* with a client error (the id is taken) are skipped, those with a server error,
\* added or not, are tried again.  An error of the call loses the chunk.
Submit(c) ==
  /\ At(c, "submit") /\ cmd[c].todo # {}
  /\ \E S \in SUBSET cmd[c].todo \ {{}} :
       \/ \E T \in SUBSET S, R \in SUBSET S :
            /\ Live /\ S \ R \subseteq T /\ T # {}
            /\ tasks' = Added(T, cmd[c].ids, c)
            /\ cmd' = [cmd EXCEPT ![c].todo = @ \ (S \ R)]
            /\ UNCHANGED faults
       \/ /\ ~Live /\ cmd' = [cmd EXCEPT ![c].todo = @ \ S, ![c].calm = FALSE]
          /\ UNCHANGED <<tasks, faults>>
       \/ /\ faults < MaxFaults /\ faults' = faults + 1
          /\ cmd' = [cmd EXCEPT ![c].todo = @ \ S, ![c].calm = FALSE]
          /\ UNCHANGED tasks
  /\ UNCHANGED job /\ Quiet

\* Auto completion is switched on when all tasks are submitted.
PatchJob(c) ==
  /\ At(c, "submit") /\ cmd[c].todo = {}
  /\ \/ ~cfg.auto /\ Goto(c, "done") /\ UNCHANGED <<job, faults>>
     \/ /\ cfg.auto /\ Live /\ job' = [job EXCEPT !.auto = TRUE]
        /\ Goto(c, "done") /\ UNCHANGED faults
     \/ cfg.auto /\ ~Live /\ Raises(c) /\ UNCHANGED <<job, faults>>
     \/ cfg.auto /\ Fails(c) /\ UNCHANGED job
  /\ UNCHANGED tasks /\ Quiet

----------------------------------------------------------------------------
(* jobs add, of a job schedule *)

\* The task map is uploaded, over the one of an existing schedule.
UploadMap(c) ==
  /\ At(c, "upload")
  /\ \/ map' = TRUE /\ Goto(c, "schedule") /\ UNCHANGED faults
     \/ Fails(c) /\ UNCHANGED map
  /\ UNCHANGED <<cfg, batch, jm, bounds, harmed>>

\* Mutant: the map is deleted when the schedule has it.
AddScheduleCleans(c) ==
  /\ At(c, "schedule") /\ sched.state = "none"
  /\ sched' = [sched EXCEPT !.state = "active"] /\ map' = FALSE /\ Goto(c, "done")
  /\ UNCHANGED <<cfg, job, tasks, jm, bounds, faults, harmed>>

\* When the schedule is not added, the map is deleted: also that of the schedule
\* that exists, or of one that another command is about to add.
AddSchedule(c) ==
  /\ At(c, "schedule")
  /\ \/ /\ sched.state = "none" /\ sched' = [state |-> "active", pool |-> "old"]
        /\ Goto(c, "done") /\ UNCHANGED <<map, faults, harmed>>
     \/ /\ \/ sched.state # "none" /\ Raises(c) /\ UNCHANGED faults
           \/ Fails(c)
        /\ map' = FALSE /\ UNCHANGED sched
        /\ harmed' = (harmed \/ sched.state # "none"
                             \/ \E d \in Client \ {c} : At(d, "schedule"))
  /\ UNCHANGED <<cfg, job, tasks, jm, bounds>>

----------------------------------------------------------------------------
(* Recurrent job manager *)

MapIds == {<<"task", k>> : k \in 0..(NewTasks - 1)}
            \cup (IF cfg.merge THEN {<<"merge", 0>>} ELSE {})

\* Mutant: the map only has the tasks that are not the merge task.
JmSubmitSome ==
  /\ jm = "submit" /\ job.state = "active" /\ map
  /\ \E S \in SUBSET MapIds : tasks' = Added(S, MapIds, Manager)
  /\ jm' = IF KillOnCompletion THEN "monitor" ELSE "over"
  /\ UNCHANGED <<cfg, sched, map, job, cmd, bounds, faults, harmed>>

\* The job manager adds the tasks of the map, which is a resource file of it:
\* without the file it fails and is over.  A chunk that fails is not noticed.
JmSubmit ==
  /\ jm = "submit" /\ job.state = "active"
  /\ \/ /\ map /\ tasks' = Added(MapIds, MapIds, Manager) /\ UNCHANGED <<faults, harmed>>
        /\ jm' = IF KillOnCompletion THEN "monitor" ELSE "over"
     \/ /\ map /\ faults < MaxFaults /\ faults' = faults + 1 /\ harmed' = TRUE
        /\ \E S \in SUBSET MapIds : S # MapIds /\ tasks' = Added(S, MapIds, Manager)
        /\ jm' = IF KillOnCompletion THEN "monitor" ELSE "over"
     \/ ~map /\ jm' = "over" /\ UNCHANGED <<tasks, faults, harmed>>
  /\ UNCHANGED <<cfg, sched, map, job, cmd, bounds>>

Completed == {i \in Id : tasks[i].state = "done"}

\* Mutant: the end of the first task is enough.
JmMonitorFirst ==
  /\ jm = "monitor" /\ job.state = "active" /\ Completed # {} /\ jm' = "over"
  /\ UNCHANGED <<cfg, batch, map, cmd, bounds, faults, harmed>>

\* The tasks are monitored until as many completed as the map has.
JmMonitor ==
  /\ jm = "monitor" /\ job.state = "active"
  /\ Cardinality(Completed) = Cardinality(MapIds) /\ jm' = "over"
  /\ UNCHANGED <<cfg, batch, map, cmd, bounds, faults, harmed>>

\* The node of the job manager restarts or is preempted, at any point of its
\* threads: it runs again.
JmRestart ==
  /\ job.state = "active" /\ faults < MaxFaults /\ faults' = faults + 1
  /\ \/ /\ jm = "submit" /\ map
        /\ \E S \in SUBSET MapIds : tasks' = Added(S, MapIds, Manager)
     \/ jm = "monitor" /\ UNCHANGED tasks
  /\ jm' = "submit"
  /\ UNCHANGED <<cfg, sched, map, job, cmd, bounds, harmed>>

----------------------------------------------------------------------------
(* Batch *)

\* The job manager occupies a slot as long as it runs, or its node (run_exclusive).
SlotFree == cfg.full => jm \notin {"submit", "monitor"}

TaskEnds(i) ==
  /\ job.state \in {"active", "terminating"} /\ tasks[i].state = "active"
  /\ job.state = "active" => SlotFree
  /\ job.state = "active" => \A j \in tasks[i].deps : tasks[j].state = "done"
  /\ tasks' = [tasks EXCEPT ![i].state = "done"]
  /\ UNCHANGED <<cfg, sched, map, job, jm, cmd, bounds, faults, harmed>>

AllDone == \A i \in Id : tasks[i].state # "active"

\* The job terminates when all its tasks are completed, the job manager one of
\* them, or when the job manager, its completion being the job's, is over.
JobCompletes ==
  /\ job.state = "active" /\ jm \in {"none", "over"}
  /\ \/ job.auto /\ AllDone /\ \E i \in Id : tasks[i].state = "done"
     \/ job.auto /\ AllDone /\ jm = "over"
     \/ KillOnCompletion /\ jm = "over"
  /\ job' = [job EXCEPT !.state = "terminating"]
  /\ UNCHANGED <<cfg, sched, map, tasks, jm, cmd, bounds, faults, harmed>>

JobTransition ==
  /\ \/ /\ job.state = "disabling" /\ job' = [job EXCEPT !.state = "disabled"]
        /\ UNCHANGED <<tasks, jm>>
     \/ /\ job.state = "terminating" /\ AllDone
        /\ job' = [job EXCEPT !.state = "completed"] /\ UNCHANGED <<tasks, jm>>
     \/ /\ job.state = "deleting" /\ job' = NoJob
        /\ tasks' = [i \in Id |-> NoTask] /\ jm' = "none"
  /\ UNCHANGED <<cfg, sched, map, cmd, bounds, faults, harmed>>

\* A schedule runs one job at a time.
RunSchedule ==
  /\ sched.state = "active" /\ job.state \in {"none", "completed"}
  /\ runs < MaxRuns /\ runs' = runs + 1
  /\ job' = [state |-> "active", auto |-> cfg.auto, pool |-> sched.pool]
  /\ tasks' = [i \in Id |-> NoTask] /\ jm' = "submit"
  /\ UNCHANGED <<cfg, sched, map, cmd, commands, faults, harmed>>

----------------------------------------------------------------------------
(* jobs del, jobs term *)

Ended(state) == IF state \in {"none", "completed"} THEN state ELSE "terminating"

\* The call and what Batch does with it: a job that is gone or completed is not an
\* error to all callers; one that is being deleted or terminated is.
EndJob(c) ==
  /\ At(c, "end") /\ ~cfg.recur
  /\ LET del == cmd[c].op = "del"
         next == IF cmd[c].wait THEN "await" ELSE "done" IN
     \/ /\ job.state = "none" /\ UNCHANGED <<job, faults>>
        /\ IF del THEN Goto(c, "done") ELSE Raises(c)
     \/ /\ Live \/ job.state = "completed" \/ (del /\ job.state = "terminating")
        /\ job' = [job EXCEPT !.state = IF del THEN "deleting" ELSE Ended(@)]
        /\ Goto(c, next) /\ UNCHANGED faults
     \/ /\ job.state = "deleting" \/ (~del /\ job.state = "terminating")
        /\ Raises(c) /\ UNCHANGED <<job, faults>>
     \/ Fails(c) /\ UNCHANGED job
  /\ UNCHANGED tasks /\ Quiet

\* A schedule takes its job with it.
EndSchedule(c) ==
  /\ At(c, "end") /\ cfg.recur
  /\ LET del == cmd[c].op = "del"
         next == IF cmd[c].wait THEN "await" ELSE "done" IN
     \/ /\ sched.state = "none" /\ UNCHANGED <<sched, job, faults>>
        /\ IF del THEN Goto(c, "done") ELSE Raises(c)
     \/ /\ sched.state # "none" /\ Goto(c, next) /\ UNCHANGED faults
        /\ sched' = [sched EXCEPT !.state = IF del THEN "none" ELSE "completed"]
        /\ job' = IF del /\ job.state # "none" THEN [job EXCEPT !.state = "deleting"]
                  ELSE [job EXCEPT !.state = IF Live THEN "terminating" ELSE @]
     \/ Fails(c) /\ UNCHANGED <<sched, job>>
  /\ UNCHANGED <<cfg, tasks, map, jm, bounds, harmed>>

AwaitEnd(c) ==
  /\ At(c, "await")
  /\ IF cfg.recur THEN sched.state \in {"none", "completed"}
                  ELSE job.state \in {"none", "completed"}
  /\ Goto(c, "done")
  /\ UNCHANGED <<cfg, batch, map, jm, bounds, faults, harmed>>

----------------------------------------------------------------------------
(* jobs disable, enable and migrate *)

Stopped(state) == state \in {"completed", "terminating", "deleting", "none"}

\* A migration first looks at where the job is and whether it can be moved.
CheckMigration(c) ==
  /\ At(c, "check")
  /\ LET m == IF cfg.recur THEN sched ELSE job IN
     IF Stopped(m.state) \/ m.pool = "new" THEN Raises(c) ELSE Goto(c, "disable")
  /\ UNCHANGED <<cfg, batch, map, jm, bounds, faults, harmed>>

\* A job that is gone or completed is logged, and the command goes on.
Disable(c) ==
  /\ At(c, "disable")
  /\ LET next == IF cmd[c].op = "migrate" THEN "update" ELSE "done" IN
     \/ /\ ~cfg.recur /\ Live /\ UNCHANGED <<sched, faults>>
        /\ job' = [job EXCEPT !.state = IF @ = "disabled" THEN @ ELSE "disabling"]
        /\ Goto(c, "disabling")
     \/ /\ cfg.recur /\ sched.state \in {"active", "disabled"}
        /\ sched' = [sched EXCEPT !.state = "disabled"]
        /\ Goto(c, next) /\ UNCHANGED <<job, faults>>
     \/ /\ IF cfg.recur THEN sched.state \in {"none", "completed"}
                        ELSE job.state \in {"none", "completed"}
        /\ Goto(c, next) /\ UNCHANGED <<sched, job, faults>>
     \/ /\ ~cfg.recur /\ job.state \in {"terminating", "deleting"}
        /\ Raises(c) /\ UNCHANGED <<sched, job, faults>>
     \/ Fails(c) /\ UNCHANGED <<sched, job>>
  /\ UNCHANGED <<cfg, tasks, map, jm, bounds, harmed>>

\* The job is waited for to be disabled, completed or deleting; gone, it raises.
AwaitDisabled(c) ==
  /\ At(c, "disabling")
  /\ \/ /\ job.state \in {"disabled", "completed", "deleting"}
        /\ Goto(c, IF cmd[c].op = "migrate" THEN "update" ELSE "done")
     \/ job.state = "none" /\ Raises(c)
  /\ UNCHANGED <<cfg, batch, map, jm, bounds, faults, harmed>>

\* Mutant: the pool is changed without looking whether Batch did.
UpdateBlindly(c) ==
  /\ At(c, "update") /\ Goto(c, "enable")
  /\ UNCHANGED <<cfg, batch, map, jm, bounds, faults, harmed>>

\* The pool of a job only changes while the job is disabled.
UpdatePool(c) ==
  /\ At(c, "update")
  /\ \/ /\ ~cfg.recur /\ job.state = "disabled"
        /\ job' = [job EXCEPT !.pool = "new"]
        /\ Goto(c, "enable") /\ UNCHANGED <<sched, faults>>
     \/ /\ cfg.recur /\ sched.state \in {"active", "disabled"}
        /\ sched' = [sched EXCEPT !.pool = "new"]
        /\ Goto(c, "enable") /\ UNCHANGED <<job, faults>>
     \/ /\ IF cfg.recur THEN Stopped(sched.state) ELSE job.state # "disabled"
        /\ Raises(c) /\ UNCHANGED <<sched, job, faults>>
     \/ Fails(c) /\ UNCHANGED <<sched, job>>
  /\ UNCHANGED <<cfg, tasks, map, jm, bounds, harmed>>

\* An error of this call is not looked at.
Enable(c) ==
  /\ At(c, "enable")
  /\ \/ /\ job' = IF ~cfg.recur /\ job.state \in {"disabling", "disabled"}
                    THEN [job EXCEPT !.state = "active"] ELSE job
        /\ sched' = IF cfg.recur /\ sched.state = "disabled"
                      THEN [sched EXCEPT !.state = "active"] ELSE sched
        /\ Goto(c, "done") /\ UNCHANGED faults
     \/ /\ faults < MaxFaults /\ faults' = faults + 1 /\ UNCHANGED <<job, sched>>
        /\ cmd' = [cmd EXCEPT ![c].at = "done", ![c].calm = FALSE]
  /\ UNCHANGED <<cfg, tasks, map, jm, bounds, harmed>>

----------------------------------------------------------------------------
(* jobs tasks term, jobs tasks del *)

\* Tasks are terminated by threads, whose errors are not looked at; terminate_tasks
\* waits for each of the tasks.
TerminateTasks(c) ==
  /\ At(c, "tasks") /\ job.state # "none"
  /\ \/ tasks' = [i \in Id |-> IF tasks[i].state = "active"
                                 THEN [tasks[i] EXCEPT !.state = "done"] ELSE tasks[i]]
        /\ UNCHANGED faults
     \/ faults < MaxFaults /\ faults' = faults + 1 /\ UNCHANGED tasks
  /\ Goto(c, IF cmd[c].op = "deltasks" THEN "delete" ELSE
             IF cmd[c].op = "termtasks" THEN "done" ELSE "end")
  /\ UNCHANGED job /\ Quiet

\* Those listed are deleted, by threads as well.
DeleteTasks(c) ==
  /\ At(c, "delete") /\ job.state # "none"
  /\ \E S \in SUBSET {i \in Id : tasks[i].state # "none"} :
       /\ tasks' = [i \in Id |-> IF i \in S THEN NoTask ELSE tasks[i]]
       /\ \/ \A i \in Id \ S : tasks[i].state = "none"
          \/ \E i \in S : S = {i}     \* --taskid
       /\ UNCHANGED faults
  /\ Goto(c, "done") /\ UNCHANGED job /\ Quiet

\* They list the tasks of a job: without the job they raise.
TasksOfNoJob(c) ==
  /\ cmd[c].at \in {"tasks", "delete"} /\ job.state = "none" /\ Raises(c)
  /\ UNCHANGED <<job, tasks, faults>> /\ Quiet

----------------------------------------------------------------------------

Order(op, at) == [NoCommand EXCEPT !.op = op, !.at = at]
Waits(r) == {r, [r EXCEPT !.wait = TRUE]}

\* The commands for a job, --recreate, --termtasks and --wait with them, and those
\* for a job schedule.  Tasks of a native pool are deleted without being terminated.
JobOrders ==
  {Order("disable", "disable"), Order("enable", "enable"), Order("migrate", "check"),
   Order("termtasks", "tasks"), Order("deltasks", "tasks"),
   Order("deltasks", "delete"), Order("add", "add"),
   [Order("add", "add") EXCEPT !.recreate = TRUE]}
  \cup UNION {Waits(Order(op, at)) : op \in {"del", "term"}, at \in {"end", "tasks"}}

ScheduleOrders ==
  {Order("disable", "disable"), Order("enable", "enable"), Order("migrate", "check"),
   Order("add", "upload")}
  \cup UNION {Waits(Order(op, "end")) : op \in {"del", "term"}}

Start(c) ==
  /\ \E r \in IF cfg.recur THEN ScheduleOrders ELSE JobOrders : Begin(c, r)
  /\ UNCHANGED <<cfg, batch, map, jm, runs, faults, harmed>>

Command(c) ==
  \/ AddJob(c) \/ Recreate(c) \/ AddScratch(c) \/ AwaitScratch(c)
  \/ List(c) \/ ListMerge(c) \/ Submit(c) \/ PatchJob(c)
  \/ UploadMap(c) \/ AddSchedule(c)
  \/ EndJob(c) \/ EndSchedule(c) \/ AwaitEnd(c)
  \/ CheckMigration(c) \/ Disable(c) \/ AwaitDisabled(c) \/ UpdatePool(c) \/ Enable(c)
  \/ TerminateTasks(c) \/ DeleteTasks(c) \/ TasksOfNoJob(c)

Next ==
  \/ \E c \in Client : Start(c) \/ Command(c) \/ Interrupt(c)
  \/ JmSubmit \/ JmMonitor \/ JmRestart
  \/ \E i \in Id : TaskEnds(i)
  \/ JobCompletes \/ JobTransition \/ RunSchedule

\* Batch and the job manager run on.  Nobody need give a command or finish it.
Fairness ==
  /\ WF_vars(JmSubmit) /\ WF_vars(JmMonitor) /\ WF_vars(JobCompletes)
  /\ WF_vars(JobTransition) /\ \A i \in Id : WF_vars(TaskEnds(i))

Spec == Init /\ [][Next]_vars /\ Fairness

----------------------------------------------------------------------------
(* Properties *)

\* What _add_task_collection logs, "submitted all tasks to job", is true of a jobs
\* add without errors that no other command overlaps: none of its tasks met the id
\* of a task that was there, whatever was added, deleted, completed and recreated
\* before.  (But for a merge task named after an empty list of ids.)
AddsAll ==
  \A c \in Client :
    (cmd[c].op = "add" /\ At(c, "done") /\ cmd[c].alone /\ cmd[c].calm) =>
      \A i \in cmd[c].ids : tasks[i].by = c \/ (i[1] = "merge" /\ cmd[c].blind)

\* A job does not complete before the command that created it submitted all of its
\* tasks, although the first ones may complete long before: auto completion is
\* "patched" in last.
NoEarlyEnd ==
  \A c \in Client :
    (cmd[c].fresh /\ cmd[c].alone /\ ~AtRest(c)) =>
      job.state = "active"

\* A schedule's task map is there for its next run, unless an add of the schedule
\* again was harmed or failed: that deletes the map that "the existing job schedule will
\* require".
MapKept == sched.state \in {"active", "disabled"} /\ ~harmed => map

\* A migration that reports no error, which no other command overlaps, leaves the
\* job on the new pool and running, however the job went on while it was disabled.
MigrationResumes ==
  \A c \in Client :
    (cmd[c].op = "migrate" /\ At(c, "done") /\ cmd[c].alone /\ cmd[c].calm) =>
      LET m == IF cfg.recur THEN sched ELSE job IN
      m.pool = "new" /\ m.state \notin {"disabling", "disabled"}

\* Every run of a schedule ends, with auto completion or with the job manager's count
\* of its tasks if these have a slot beside it, so that the next can start, unless the
\* job manager lost tasks: it then counts up to a number that is not reached.  With neither
\* of them, and without such a slot, a run does not end.
RunsEnd ==
  [](/\ cfg.recur /\ (cfg.auto \/ (KillOnCompletion /\ ~cfg.full))
     /\ job.state = "active"
     => <>(job.state # "active" \/ harmed))

\* A run is not ended while a task of its map has not completed, over restarts of
\* the job manager and tasks that it adds again.
RunsWhole ==
  [][(cfg.recur /\ job.state = "active" /\ job'.state = "terminating" /\ sched' = sched
      /\ ~harmed) => \A i \in MapIds : tasks[i].state = "done"]_vars

=============================================================================
