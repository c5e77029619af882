----------------------------- MODULE CliJobsProofs -----------------------------
(***************************************************************************)
(* What holds of the jobs commands and of the recurrent job manager for    *)
(* any number of commands, tasks, runs and errors.                         *)
(*                                                                         *)
(* Inv has five parts.  CmdInv: a command is where its kind may be, and    *)
(* works on a job or on a schedule as the configuration says.  Data: what  *)
(* a record may hold, the invariant of every other part.  Kinds: what a    *)
(* configuration with or without recurrence can have.  MapThere and        *)
(* RunGoes: what the job manager can rely on and what it did.  Alone: what *)
(* a command that nobody overlaps knows of the job from one step to the    *)
(* next.  Only its own steps (OwnSteps) and those of Batch need be looked  *)
(* at: a command that another one overlaps is not alone any more.          *)
(***************************************************************************)
EXTENDS CliJobs, FiniteSetTheorems, TLAPS

\* What a command, and the data it works on, can be.
Ops == {"none", "disable", "enable", "migrate", "termtasks", "deltasks", "add", "del",
        "term"}
Labels == {"idle", "done", "raised", "add", "recreate", "scratch", "setup", "list", "merge",
           "submit", "upload", "schedule", "end", "await", "check", "disable", "disabling",
           "update", "enable", "tasks", "delete"}

Cmd == [op : Ops, at : Labels, recreate : BOOLEAN, wait : BOOLEAN, ids : SUBSET Id,
        todo : SUBSET Id, fresh : BOOLEAN, alone : BOOLEAN, calm : BOOLEAN,
        blind : BOOLEAN]

Config == [recur : BOOLEAN, auto : BOOLEAN, monitor : BOOLEAN, full : BOOLEAN,
           merge : BOOLEAN, scratch : {"none", "block", "dependency"}]
Schedule == [state : {"none", "active", "disabled", "completed"}, pool : Pool]
JobStates == {"none", "active", "disabling", "disabled", "terminating", "completed",
              "deleting"}
BatchJob == [state : JobStates, auto : BOOLEAN, pool : Pool]
Task == [state : {"none", "active", "done"}, by : Client \cup {Manager, None},
         deps : SUBSET Id]

\* The labels a command of each kind goes through.
Way(op) ==
  CASE op = "none" -> {}
    [] op = "add" -> {"add", "recreate", "scratch", "setup", "list", "merge", "submit",
                      "upload", "schedule"}
    [] op = "disable" -> {"disable", "disabling"}
    [] op = "enable" -> {"enable"}
    [] op = "migrate" -> {"check", "disable", "disabling", "update", "enable"}
    [] op = "termtasks" -> {"tasks"}
    [] op = "deltasks" -> {"tasks", "delete"}
    [] OTHER -> {"tasks", "end", "await"}

OfJobs == {"add", "recreate", "scratch", "setup", "list", "merge", "submit", "tasks",
           "delete", "disabling"}
OfSchedules == {"upload", "schedule"}

Modes ==
  \A c \in Client :
    /\ cmd[c].at \in Way(cmd[c].op) \cup {"idle", "done", "raised"}
    /\ cmd[c].at \in OfJobs => ~cfg.recur
    /\ cmd[c].at \in OfSchedules => cfg.recur
    /\ cfg.recur => cmd[c].ids = {}
    /\ cmd[c].todo \subseteq cmd[c].ids

CmdInv == cmd \in [Client -> Cmd] /\ Modes

\* Nobody else is at work while a command is alone.
Lonely == \A c, d \in Client : cmd[c].alone /\ c # d => AtRest(d)

USE CliJobsAssumption

LEMMA SetAt == ASSUME NEW r \in Cmd, NEW at \in Labels PROVE [r EXCEPT !.at = at] \in Cmd
BY Zenon DEF Cmd

LEMMA SetAlone ==
  ASSUME NEW r \in Cmd, NEW b \in BOOLEAN PROVE [r EXCEPT !.alone = b] \in Cmd
BY Zenon DEF Cmd

LEMMA SetFresh ==
  ASSUME NEW r \in Cmd, NEW at \in Labels PROVE [r EXCEPT !.at = at, !.fresh = TRUE] \in Cmd
<1>1. TRUE \in BOOLEAN
  OBVIOUS
<1> QED
  BY <1>1, Zenon DEF Cmd

LEMMA SetIds ==
  ASSUME NEW r \in Cmd, NEW ids \in SUBSET Id, NEW todo \in SUBSET Id, NEW at \in Labels
  PROVE  [r EXCEPT !.ids = ids, !.todo = todo, !.at = at] \in Cmd
BY Zenon DEF Cmd

LEMMA SetList ==
  ASSUME NEW r \in Cmd, NEW ids \in SUBSET Id, NEW blind \in BOOLEAN, NEW calm \in BOOLEAN,
         NEW at \in Labels
  PROVE  [r EXCEPT !.ids = ids, !.todo = ids, !.blind = blind, !.calm = calm, !.at = at]
           \in Cmd
BY Zenon DEF Cmd

LEMMA SetTodo ==
  ASSUME NEW r \in Cmd, NEW todo \in SUBSET Id PROVE [r EXCEPT !.todo = todo] \in Cmd
BY Zenon DEF Cmd

LEMMA SetLost ==
  ASSUME NEW r \in Cmd, NEW todo \in SUBSET Id
  PROVE  [r EXCEPT !.todo = todo, !.calm = FALSE] \in Cmd
<1>1. FALSE \in BOOLEAN
  OBVIOUS
<1> QED
  BY <1>1, Zenon DEF Cmd

LEMMA SetHarmed ==
  ASSUME NEW r \in Cmd, NEW at \in Labels PROVE [r EXCEPT !.at = at, !.calm = FALSE] \in Cmd
<1>1. FALSE \in BOOLEAN
  OBVIOUS
<1> QED
  BY <1>1, Zenon DEF Cmd

----------------------------------------------------------------------------
(* Commands *)

\* A step of a command that keeps it on its way keeps CmdInv, and leaves it alone.
LEMMA Own ==
  ASSUME CmdInv, Lonely, NEW c \in Client, NEW j \in Cmd, UNCHANGED cfg,
         cmd' = [cmd EXCEPT ![c] = j], ~AtRest(c), j.op = cmd[c].op,
         j.alone = cmd[c].alone, j.at \in Way(j.op) \cup {"idle", "done", "raised"},
         j.at \in OfJobs => ~cfg.recur, j.at \in OfSchedules => cfg.recur,
         cfg.recur => j.ids = {}, j.todo \subseteq j.ids
  PROVE  CmdInv' /\ Lonely'
<1>1. /\ cmd' \in [Client -> Cmd] /\ cmd'[c] = j
      /\ \A d \in Client \ {c} : cmd'[d] = cmd[d]
  BY DEF CmdInv
<1>2. Modes'
  BY <1>1 DEF CmdInv, Modes
<1>3. Lonely'
  <2> SUFFICES ASSUME NEW a \in Client, NEW b \in Client, cmd'[a].alone, a # b
               PROVE  AtRest(b)'
    BY DEF Lonely
  <2>1. cmd[a].alone
    BY <1>1
  <2>2. AtRest(b) /\ b # c
    BY <2>1 DEF Lonely
  <2> QED
    BY <1>1, <2>2 DEF AtRest
<1> QED
  BY <1>1, <1>2, <1>3 DEF CmdInv

LEMMA OwnGoto ==
  ASSUME CmdInv, Lonely, NEW c \in Client, NEW at \in Labels, UNCHANGED cfg,
         Goto(c, at), ~AtRest(c), at \in Way(cmd[c].op) \cup {"idle", "done", "raised"},
         at \in OfJobs => ~cfg.recur, at \in OfSchedules => cfg.recur
  PROVE  CmdInv' /\ Lonely'
<1> DEFINE j == [cmd[c] EXCEPT !.at = at]
<1>1. cmd[c] \in Cmd
  BY DEF CmdInv
<1>2. j \in Cmd
  BY <1>1, SetAt
<1>3. cmd' = [cmd EXCEPT ![c] = j]
  BY DEF Goto
<1>4. /\ j.op = cmd[c].op /\ j.alone = cmd[c].alone /\ j.at = at /\ j.ids = cmd[c].ids
      /\ j.todo = cmd[c].todo
  BY <1>1 DEF Cmd
<1>5. (cfg.recur => cmd[c].ids = {}) /\ cmd[c].todo \subseteq cmd[c].ids
  BY DEF CmdInv, Modes
<1> HIDE DEF j
<1> QED
  BY <1>2, <1>3, <1>4, <1>5, Own

\* The forms of a command: plain, with --wait, with --recreate.
Forms(op, at) ==
  {Order(op, at), [Order(op, at) EXCEPT !.wait = TRUE], [Order(op, at) EXCEPT !.recreate = TRUE]}

Given == {<<"disable", "disable">>, <<"enable", "enable">>, <<"migrate", "check">>,
          <<"termtasks", "tasks">>, <<"deltasks", "tasks">>, <<"deltasks", "delete">>,
          <<"add", "add">>, <<"add", "upload">>, <<"del", "end">>, <<"del", "tasks">>,
          <<"term", "end">>, <<"term", "tasks">>}

LEMMA OrdersGiven ==
  /\ \A r \in JobOrders : \E p \in Given : r \in Forms(p[1], p[2]) /\ p[2] # "upload"
  /\ \A r \in ScheduleOrders :
       \E p \in Given : r \in Forms(p[1], p[2]) /\ p[2] \notin {"add", "tasks", "delete"}
<1>1. \A p \in Given : /\ Order(p[1], p[2]) \in Forms(p[1], p[2])
                       /\ Waits(Order(p[1], p[2])) \subseteq Forms(p[1], p[2])
                       /\ [Order(p[1], p[2]) EXCEPT !.recreate = TRUE] \in Forms(p[1], p[2])
  BY DEF Forms, Waits
<1> DEFINE P(op, at) == <<op, at>>
<1>2. \A op \in {"del", "term"}, at \in {"end", "tasks"} :
        P(op, at) \in Given /\ Waits(Order(op, at)) \subseteq Forms(op, at)
  BY DEF Given, Forms, Waits
<1>3. ASSUME NEW r \in JobOrders
      PROVE  \E p \in Given : r \in Forms(p[1], p[2]) /\ p[2] # "upload"
  <2>1. CASE r \in UNION {Waits(Order(op, at)) : op \in {"del", "term"}, at \in {"end", "tasks"}}
    <3>1. PICK op \in {"del", "term"}, at \in {"end", "tasks"} : r \in Waits(Order(op, at))
      BY <2>1
    <3>2. P(op, at) \in Given /\ r \in Forms(op, at)
      BY <1>2, <3>1
    <3> QED
      BY <3>2
  <2>2. CASE r \notin UNION {Waits(Order(op, at)) : op \in {"del", "term"}, at \in {"end", "tasks"}}
    <3>1. PICK p \in {<<"disable", "disable">>, <<"enable", "enable">>, <<"migrate", "check">>,
             <<"termtasks", "tasks">>, <<"deltasks", "tasks">>, <<"deltasks", "delete">>,
             <<"add", "add">>} :
            \/ r = Order(p[1], p[2]) \/ r = [Order(p[1], p[2]) EXCEPT !.recreate = TRUE]
      BY <2>2 DEF JobOrders
    <3>2. p \in Given /\ p[2] # "upload"
      BY DEF Given
    <3> QED
      BY <1>1, <3>1, <3>2
  <2> QED
    BY <2>1, <2>2
<1>4. ASSUME NEW r \in ScheduleOrders
      PROVE  \E p \in Given : r \in Forms(p[1], p[2]) /\ p[2] \notin {"add", "tasks", "delete"}
  <2>1. CASE r \in UNION {Waits(Order(op, "end")) : op \in {"del", "term"}}
    <3>1. PICK op \in {"del", "term"} : r \in Waits(Order(op, "end"))
      BY <2>1
    <3>2. P(op, "end") \in Given /\ r \in Forms(op, "end")
      BY <1>2, <3>1
    <3> QED
      BY <3>2
  <2>2. CASE r \notin UNION {Waits(Order(op, "end")) : op \in {"del", "term"}}
    <3>1. PICK p \in {<<"disable", "disable">>, <<"enable", "enable">>, <<"migrate", "check">>,
             <<"add", "upload">>} : r = Order(p[1], p[2])
      BY <2>2 DEF ScheduleOrders
    <3> QED
      BY <1>1, <3>1 DEF Given
  <2> QED
    BY <2>1, <2>2
<1> QED
  BY <1>3, <1>4

LEMMA FormsTyped ==
  ASSUME NEW p \in Given, NEW r \in Forms(p[1], p[2])
  PROVE  /\ r \in Cmd /\ r.op = p[1] /\ r.at = p[2] /\ r.ids = {} /\ r.todo = {} /\ ~r.fresh
         /\ p[2] \in Way(p[1]) /\ p[2] \notin {"idle", "done", "raised"}
<1>1. p[1] \in Ops /\ p[2] \in Labels
  BY DEF Given, Ops, Labels
<1>2. /\ {} \in SUBSET Id /\ TRUE \in BOOLEAN /\ FALSE \in BOOLEAN
  OBVIOUS
<1>3. /\ Order(p[1], p[2]) \in Cmd
      /\ [Order(p[1], p[2]) EXCEPT !.wait = TRUE] \in Cmd
      /\ [Order(p[1], p[2]) EXCEPT !.recreate = TRUE] \in Cmd
  BY <1>1, <1>2, Zenon DEF Order, NoCommand, Cmd
<1>4. r \in Cmd
  BY <1>3 DEF Forms
<1>5. r.op = p[1] /\ r.at = p[2] /\ r.ids = {} /\ r.todo = {} /\ ~r.fresh
  <2> DEFINE o == Order(p[1], p[2])
  <2>1. o.op = p[1] /\ o.at = p[2] /\ o.ids = {} /\ o.todo = {} /\ ~o.fresh /\ o \in Cmd
    BY <1>3 DEF Order, NoCommand
  <2>2. r \in {o, [o EXCEPT !.wait = TRUE], [o EXCEPT !.recreate = TRUE]}
    BY DEF Forms
  <2> HIDE DEF o
  <2> QED
    BY <2>1, <2>2 DEF Cmd
<1>6. p[2] \in Way(p[1]) /\ p[2] \notin {"idle", "done", "raised"}
  BY DEF Given, Way
<1> QED
  BY <1>4, <1>5, <1>6

\* Of numbers in use there is a last one.
LEMMA LastIsLast ==
  ASSUME NEW S \in SUBSET Num, S # {}
  PROVE  Last(S) \in S /\ \A m \in S : m <= Last(S)
<1> DEFINE Above(n) == {m \in S : m > n}
           T == {Above(n) : n \in S}
<1>1. IsFiniteSet(S)
  <2>1. IsFiniteSet(0..(MaxTask - 1))
    BY FS_Interval DEF CliJobsAssumption
  <2> QED
    BY <2>1, FS_Subset DEF Num
<1>2. T \subseteq FiniteSubsetsOf(S) /\ T # {}
  <2>1. ASSUME NEW n \in S
        PROVE  Above(n) \in SUBSET S /\ IsFiniteSet(Above(n))
    <3>1. Above(n) \in SUBSET S
      OBVIOUS
    <3> HIDE DEF Above
    <3> QED
      BY <1>1, <3>1, FS_Subset
  <2> QED
    BY <2>1 DEF FiniteSubsetsOf
<1>3. PICK A \in T : \A B \in T : ~(<<B, A>> \in StrictSubsetOrdering(S))
  <2> HIDE DEF T
  <2> QED
    BY <1>2, FS_StrictSubsetOrderingWellFounded, WFMin
<1>4. PICK n \in S : A = Above(n)
  BY <1>3
<1>5. \A m \in S : m \in Int /\ n \in Int
  BY DEF Num
<1>6. ASSUME NEW m \in S, m > n
      PROVE  FALSE
  <2>1. Above(m) \subseteq Above(n) /\ m \in Above(n) /\ m \notin Above(m)
    BY <1>5, <1>6
  <2>2. Above(m) \in T /\ Above(m) \in SUBSET S /\ Above(n) \in SUBSET S
    OBVIOUS
  <2> HIDE DEF Above
  <2>3. <<Above(m), Above(n)>> \in StrictSubsetOrdering(S)
    BY <2>1, <2>2 DEF StrictSubsetOrdering
  <2> QED
    BY <1>3, <1>4, <2>2, <2>3
<1>7. \A m \in S : m <= n
  BY <1>5, <1>6
<1> QED
  BY <1>7 DEF Last

\* The number after those in use is free, and so are all that follow.
LEMMA FreeNumbers ==
  ASSUME NEW S \in SUBSET Num
  PROVE  Next0(S) \in 0..MaxTask /\ \A k \in S : k < Next0(S)
<1>1. CASE S = {}
  BY <1>1 DEF Next0, CliJobsAssumption
<1>2. CASE S # {}
  <2>1. Last(S) \in S /\ \A m \in S : m <= Last(S)
    BY <1>2, LastIsLast
  <2>2. Next0(S) = Last(S) + 1
    BY <1>2 DEF Next0
  <2>3. \A m \in S : m \in 0..(MaxTask - 1)
    BY DEF Num
  <2> QED
    BY <2>1, <2>2, <2>3 DEF CliJobsAssumption
<1> QED
  BY <1>1, <1>2

\* The steps that neither begin a command nor go on with one.
Batch ==
  \/ JmSubmit \/ JmMonitor \/ JmRestart \/ \E i \in Id : TaskEnds(i)
  \/ JobCompletes \/ JobTransition \/ RunSchedule

LEMMA BatchKeepsCommands == ASSUME Batch PROVE UNCHANGED <<cmd, cfg>>
BY DEF Batch, JmSubmit, JmMonitor, JmRestart, TaskEnds, JobCompletes, JobTransition,
   RunSchedule

LEMMA CmdNext == ASSUME CmdInv, Lonely, Next PROVE CmdInv' /\ Lonely'
<1> USE DEF Quiet
<1> DEFINE Rest == {"idle", "done", "raised"}
<1>1. ASSUME UNCHANGED <<cmd, cfg>> PROVE CmdInv' /\ Lonely'
  BY <1>1 DEF CmdInv, Modes, Lonely, AtRest
<1>2. ASSUME NEW c \in Client
      PROVE  /\ cmd[c] \in Cmd /\ cmd[c].at \in Way(cmd[c].op) \cup Rest
             /\ cmd[c].op \in Ops /\ cmd[c].at \in Labels
             /\ cmd[c].ids \in SUBSET Id /\ cmd[c].todo \in SUBSET Id
             /\ cmd[c].at \in OfJobs => ~cfg.recur
             /\ cmd[c].at \in OfSchedules => cfg.recur
             /\ cfg.recur => cmd[c].ids = {}
             /\ cmd[c].todo \subseteq cmd[c].ids
  BY DEF CmdInv, Modes, Cmd
<1>3. ASSUME NEW c \in Client, Raises(c), ~AtRest(c), UNCHANGED cfg
      PROVE  CmdInv' /\ Lonely'
  BY <1>3, OwnGoto DEF Raises, Goto, Labels, OfJobs, OfSchedules
<1>4. ASSUME NEW c \in Client, Fails(c), ~AtRest(c), UNCHANGED cfg
      PROVE  CmdInv' /\ Lonely'
  BY <1>3, <1>4 DEF Fails
<1>5. ASSUME NEW c \in Client, cmd[c].at \notin Rest
      PROVE  ~AtRest(c)
  BY <1>5 DEF AtRest
<1>6. ASSUME NEW c \in Client, NEW at \in Labels, Goto(c, at), cmd[c].at \notin Rest,
             UNCHANGED cfg, at \in Way(cmd[c].op) \cup Rest,
             at \in OfJobs => ~cfg.recur, at \notin OfSchedules
      PROVE  CmdInv' /\ Lonely'
  BY <1>5, <1>6, OwnGoto
<1>7. ASSUME NEW c \in Client, Goto(c, "done"), cmd[c].at \notin Rest, UNCHANGED cfg
      PROVE  CmdInv' /\ Lonely'
  BY <1>6, <1>7 DEF Labels, OfJobs, OfSchedules
<1>8. ASSUME NEW c \in Client, cmd[c].at \in OfJobs \ {"tasks", "delete", "disabling"}
      PROVE  /\ cmd[c].op = "add" /\ ~cfg.recur /\ cmd[c].at \notin Rest
             /\ \A at \in OfJobs \ {"tasks", "delete", "disabling"} :
                  at \in Labels /\ at \in Way("add") /\ at \notin OfSchedules
  BY <1>2, <1>8 DEF OfJobs, OfSchedules, Labels, Way, Ops
<1>9. ASSUME NEW c \in Client, NEW at \in OfJobs \ {"tasks", "delete", "disabling"}, Goto(c, at),
             cmd[c].at \in OfJobs \ {"tasks", "delete", "disabling"}, UNCHANGED cfg
      PROVE  CmdInv' /\ Lonely'
  BY <1>6, <1>8, <1>9
<1>10. ASSUME NEW c \in Client, cmd' = [cmd EXCEPT ![c] = Created(@)], UNCHANGED cfg,
              cmd[c].at \in {"add", "recreate"}
       PROVE  CmdInv' /\ Lonely'
  <2> DEFINE j == [cmd[c] EXCEPT !.at = AfterJob, !.fresh = TRUE]
  <2>1. cmd' = [cmd EXCEPT ![c] = j]
    BY <1>10 DEF Created
  <2>2. cmd[c].at \in OfJobs \ {"tasks", "delete", "disabling"}
    BY <1>10 DEF OfJobs
  <2>3. AfterJob \in OfJobs \ {"tasks", "delete", "disabling"}
    BY DEF AfterJob, OfJobs
  <2>4. j \in Cmd
    BY <1>2, <1>8, <2>2, <2>3, SetFresh
  <2>5. /\ j.op = cmd[c].op /\ j.alone = cmd[c].alone /\ j.at = AfterJob
        /\ j.ids = cmd[c].ids /\ j.todo = cmd[c].todo
    BY <1>2 DEF Cmd
  <2> HIDE DEF j
  <2> QED
    BY <1>2, <1>5, <1>8, <1>10, <2>1, <2>2, <2>3, <2>4, <2>5, Own
<1>11. ASSUME NEW c \in Client, AddJob(c) \/ Recreate(c)
       PROVE  CmdInv' /\ Lonely'
  <2>1. cmd[c].at \in {"add", "recreate"} /\ UNCHANGED cfg
    BY <1>11 DEF AddJob, Recreate, At
  <2>2. cmd[c].at \in OfJobs \ {"tasks", "delete", "disabling"} /\ ~AtRest(c)
    BY <1>5, <2>1 DEF OfJobs
  <2>3. \/ cmd' = [cmd EXCEPT ![c] = Created(@)] \/ Raises(c) \/ Fails(c)
        \/ \E at \in {"list", "recreate"} : Goto(c, at)
    BY <1>11 DEF AddJob, Recreate, Reuse
  <2>4. \A at \in {"list", "recreate"} : at \in OfJobs \ {"tasks", "delete", "disabling"}
    BY DEF OfJobs
  <2> QED
    BY <1>3, <1>4, <1>9, <1>10, <2>1, <2>2, <2>3, <2>4
<1>12. ASSUME NEW c \in Client, AddScratch(c) \/ AwaitScratch(c)
       PROVE  CmdInv' /\ Lonely'
  <2>1. cmd[c].at \in {"scratch", "setup"} /\ UNCHANGED cfg
    BY <1>12 DEF AddScratch, AwaitScratch, At
  <2>2. cmd[c].at \in OfJobs \ {"tasks", "delete", "disabling"} /\ ~AtRest(c)
    BY <1>5, <2>1 DEF OfJobs
  <2>3. \/ Raises(c) \/ Fails(c) \/ \E at \in {"list", "setup"} : Goto(c, at)
    BY <1>12 DEF AddScratch, AwaitScratch
  <2>4. \A at \in {"list", "setup"} : at \in OfJobs \ {"tasks", "delete", "disabling"}
    BY DEF OfJobs
  <2> QED
    BY <1>3, <1>4, <1>9, <2>1, <2>2, <2>3, <2>4
<1>13. ASSUME NEW c \in Client, List(c)
       PROVE  CmdInv' /\ Lonely'
  <2>1. cmd[c].at = "list" /\ UNCHANGED cfg
    BY <1>13 DEF List, At
  <2>2. cmd[c].at \in OfJobs \ {"tasks", "delete", "disabling"}
    BY <2>1 DEF OfJobs
  <2>3. PICK used \in {Numbers("task"), {}} :
          LET n == Next0(used)
              ids == {<<"task", k>> : k \in n..(n + NewTasks - 1)} IN
          /\ n + NewTasks <= MaxTask
          /\ cmd' = [cmd EXCEPT ![c].ids = ids, ![c].todo = ids, ![c].blind = (used = {}),
                             ![c].calm = (@ /\ faults' = faults),
                             ![c].at = IF cfg.merge THEN "merge" ELSE "submit"]
    BY <1>13 DEF List
  <2> DEFINE n == Next0(used)
             ids == {<<"task", k>> : k \in n..(n + NewTasks - 1)}
             blind == (used = {})
             calm == (cmd[c].calm /\ faults' = faults)
             at == IF cfg.merge THEN "merge" ELSE "submit"
             j == [cmd[c] EXCEPT !.ids = ids, !.todo = ids, !.blind = blind, !.calm = calm,
                                 !.at = at]
  <2>4. used \in SUBSET Num
    BY DEF Numbers
  <2>5. n \in 0..MaxTask
    BY <2>4, FreeNumbers
  <2>6. ids \in SUBSET Id
    <3>1. n + NewTasks <= MaxTask
      BY <2>3
    <3>2. MaxTask \in Nat /\ NewTasks \in Nat
      BY DEF CliJobsAssumption
    <3> SUFFICES ASSUME NEW k \in n..(n + NewTasks - 1) PROVE k \in Num
      BY DEF Id
    <3> HIDE DEF n
    <3>3. k \in 0..(MaxTask - 1)
      BY ONLY <3>1, <3>2, <2>5, k \in n..(n + NewTasks - 1)
    <3> QED
      BY <3>3 DEF Num
  <2>7. at \in OfJobs \ {"tasks", "delete", "disabling"} /\ at \in Labels
    BY DEF OfJobs, Labels
  <2>8. blind \in BOOLEAN /\ calm \in BOOLEAN
    OBVIOUS
  <2>9. cmd' = [cmd EXCEPT ![c] = j]
    BY <2>3
  <2> HIDE DEF ids, blind, calm, at
  <2>10. j \in Cmd
    BY <1>2, <2>6, <2>7, <2>8, SetList
  <2>11. j.op = cmd[c].op /\ j.alone = cmd[c].alone /\ j.at = at /\ j.ids = ids /\ j.todo = ids
    BY <1>2 DEF Cmd
  <2> HIDE DEF j
  <2> QED
    BY <1>2, <1>5, <1>8, <2>1, <2>2, <2>7, <2>9, <2>10, <2>11, Own
<1>14. ASSUME NEW c \in Client, ListMerge(c)
       PROVE  CmdInv' /\ Lonely'
  <2> DEFINE n == IF cmd[c].blind THEN 0 ELSE Next0(Numbers("merge"))
             new == {<<"merge", n>>}
             ids == cmd[c].ids \cup new
             todo == cmd[c].todo \cup new
             j == [cmd[c] EXCEPT !.ids = ids, !.todo = todo, !.at = "submit"]
  <2>1. cmd[c].at = "merge" /\ UNCHANGED cfg /\ n < MaxTask
    BY <1>14 DEF ListMerge, At
  <2>2. cmd[c].at \in OfJobs \ {"tasks", "delete", "disabling"}
    BY <2>1 DEF OfJobs
  <2>3. cmd' = [cmd EXCEPT ![c] = j]
    BY <1>14 DEF ListMerge
  <2>4. n \in 0..MaxTask
    <3>1. Numbers("merge") \in SUBSET Num
      BY DEF Numbers
    <3>2. Next0(Numbers("merge")) \in 0..MaxTask
      BY <3>1, FreeNumbers
    <3>3. 0 \in 0..MaxTask
      BY DEF CliJobsAssumption
    <3> QED
      BY <3>2, <3>3
  <2>5. n \in Num
    BY <2>1, <2>4 DEF Num, CliJobsAssumption
  <2>6. new \in SUBSET Id
    BY <2>5 DEF Id
  <2> HIDE DEF new
  <2>7. ids \in SUBSET Id /\ todo \in SUBSET Id /\ todo \subseteq ids
    BY <1>2, <2>6
  <2>8. "submit" \in Labels /\ "submit" \in OfJobs \ {"tasks", "delete", "disabling"}
    BY DEF Labels, OfJobs
  <2> HIDE DEF ids, todo
  <2>9. j \in Cmd
    BY <1>2, <2>7, <2>8, SetIds
  <2>10. /\ j.op = cmd[c].op /\ j.alone = cmd[c].alone /\ j.at = "submit"
         /\ j.ids = ids /\ j.todo = todo
    BY <1>2 DEF Cmd
  <2> HIDE DEF j
  <2> QED
    BY <1>2, <1>5, <1>8, <2>1, <2>2, <2>3, <2>7, <2>8, <2>9, <2>10, Own
<1>15. ASSUME NEW c \in Client, Submit(c)
       PROVE  CmdInv' /\ Lonely'
  <2>1. cmd[c].at = "submit" /\ UNCHANGED cfg
    BY <1>15 DEF Submit, At
  <2>2. cmd[c].at \in OfJobs \ {"tasks", "delete", "disabling"}
    BY <2>1 DEF OfJobs
  <2>3. PICK D \in SUBSET cmd[c].todo :
          \/ cmd' = [cmd EXCEPT ![c].todo = @ \ D]
          \/ cmd' = [cmd EXCEPT ![c].todo = @ \ D, ![c].calm = FALSE]
    <3>1. PICK S \in SUBSET cmd[c].todo :
            \/ \E R \in SUBSET S : cmd' = [cmd EXCEPT ![c].todo = @ \ (S \ R)]
            \/ cmd' = [cmd EXCEPT ![c].todo = @ \ S, ![c].calm = FALSE]
      BY <1>15 DEF Submit
    <3> QED
      BY <3>1
  <2> DEFINE left == cmd[c].todo \ D
             j == [cmd[c] EXCEPT !.todo = left]
             k == [cmd[c] EXCEPT !.todo = left, !.calm = FALSE]
  <2>4. cmd' = [cmd EXCEPT ![c] = j] \/ cmd' = [cmd EXCEPT ![c] = k]
    BY <2>3
  <2>5. left \in SUBSET Id /\ left \subseteq cmd[c].ids
    BY <1>2
  <2> HIDE DEF left
  <2>6. j \in Cmd /\ k \in Cmd
    BY <1>2, <2>5, SetTodo, SetLost
  <2>7. /\ j.op = cmd[c].op /\ j.alone = cmd[c].alone /\ j.at = "submit"
        /\ j.ids = cmd[c].ids /\ j.todo = left
        /\ k.op = cmd[c].op /\ k.alone = cmd[c].alone /\ k.at = "submit"
        /\ k.ids = cmd[c].ids /\ k.todo = left
    BY <1>2, <2>1 DEF Cmd
  <2> HIDE DEF j, k
  <2> QED
    BY <1>2, <1>5, <1>8, <2>1, <2>2, <2>4, <2>5, <2>6, <2>7, Own
<1>16. ASSUME NEW c \in Client,
              \/ PatchJob(c) \/ AddSchedule(c) \/ AwaitEnd(c) \/ DeleteTasks(c)
              \/ TasksOfNoJob(c) \/ Interrupt(c)
       PROVE  CmdInv' /\ Lonely'
  <2>1. UNCHANGED cfg /\ (Raises(c) \/ Fails(c) \/ Goto(c, "done"))
    BY <1>16 DEF PatchJob, AddSchedule, AwaitEnd, DeleteTasks, TasksOfNoJob, Interrupt
  <2>2. ~AtRest(c)
    BY <1>16 DEF PatchJob, AddSchedule, AwaitEnd, DeleteTasks, TasksOfNoJob, Interrupt, At,
       AtRest
  <2> QED
    BY <1>3, <1>4, <1>7, <2>1, <2>2 DEF AtRest
<1>17. ASSUME NEW c \in Client, UploadMap(c)
       PROVE  CmdInv' /\ Lonely'
  <2>1. cmd[c].at = "upload" /\ UNCHANGED cfg /\ (Fails(c) \/ Goto(c, "schedule"))
    BY <1>17 DEF UploadMap, At
  <2>2. cmd[c].op = "add" /\ cfg.recur /\ ~AtRest(c)
    BY <1>2, <1>5, <2>1 DEF Way, OfSchedules, Ops
  <2>3. "schedule" \in Labels /\ "schedule" \in Way("add") /\ "schedule" \notin OfJobs
    BY DEF Labels, Way, OfJobs
  <2> QED
    BY <1>4, <2>1, <2>2, <2>3, OwnGoto
<1>18. ASSUME NEW c \in Client, EndJob(c) \/ EndSchedule(c)
       PROVE  CmdInv' /\ Lonely'
  <2>1. /\ cmd[c].at = "end" /\ UNCHANGED cfg
        /\ Raises(c) \/ Fails(c) \/ Goto(c, "done") \/ Goto(c, "await")
    BY <1>18 DEF EndJob, EndSchedule, At
  <2>2. cmd[c].op \in {"del", "term"} /\ ~AtRest(c)
    BY <1>2, <1>5, <2>1 DEF Way, Ops
  <2>3. /\ "await" \in Labels /\ "await" \in Way(cmd[c].op) /\ "await" \notin OfJobs
        /\ "await" \notin OfSchedules
    BY <2>2 DEF Labels, Way, OfJobs, OfSchedules
  <2> QED
    BY <1>3, <1>4, <1>7, <2>1, <2>2, <2>3, OwnGoto DEF AtRest
<1>19. ASSUME NEW c \in Client, CheckMigration(c)
       PROVE  CmdInv' /\ Lonely'
  <2>1. cmd[c].at = "check" /\ UNCHANGED cfg /\ (Raises(c) \/ Goto(c, "disable"))
    BY <1>19 DEF CheckMigration, At
  <2>2. cmd[c].op = "migrate" /\ ~AtRest(c)
    BY <1>2, <1>5, <2>1 DEF Way, Ops
  <2>3. /\ "disable" \in Labels /\ "disable" \in Way("migrate") /\ "disable" \notin OfJobs
        /\ "disable" \notin OfSchedules
    BY DEF Labels, Way, OfJobs, OfSchedules
  <2> QED
    BY <1>3, <2>1, <2>2, <2>3, OwnGoto
<1>20. ASSUME NEW c \in Client, Disable(c) \/ AwaitDisabled(c)
       PROVE  CmdInv' /\ Lonely'
  <2>1. cmd[c].at \in {"disable", "disabling"} /\ UNCHANGED cfg
    BY <1>20 DEF Disable, AwaitDisabled, At
  <2>2. \/ Raises(c) \/ Fails(c) \/ Goto(c, "done")
        \/ Goto(c, "update") /\ cmd[c].op = "migrate"
        \/ Goto(c, "disabling") /\ ~cfg.recur
    BY <1>20 DEF Disable, AwaitDisabled
  <2>3. cmd[c].op \in {"migrate", "disable"} /\ ~AtRest(c)
    BY <1>2, <1>5, <2>1 DEF Way, Ops
  <2>4. /\ "update" \in Labels /\ "update" \in Way("migrate") /\ "update" \notin OfJobs
        /\ "update" \notin OfSchedules
        /\ "disabling" \in Labels /\ "disabling" \in Way(cmd[c].op)
        /\ "disabling" \notin OfSchedules
    BY <2>3 DEF Labels, Way, OfJobs, OfSchedules
  <2> QED
    BY <1>3, <1>4, <1>7, <2>1, <2>2, <2>3, <2>4, OwnGoto DEF AtRest
<1>21. ASSUME NEW c \in Client, UpdatePool(c)
       PROVE  CmdInv' /\ Lonely'
  <2>1. cmd[c].at = "update" /\ UNCHANGED cfg /\ (Raises(c) \/ Fails(c) \/ Goto(c, "enable"))
    BY <1>21 DEF UpdatePool, At
  <2>2. cmd[c].op = "migrate" /\ ~AtRest(c)
    BY <1>2, <1>5, <2>1 DEF Way, Ops
  <2>3. /\ "enable" \in Labels /\ "enable" \in Way("migrate") /\ "enable" \notin OfJobs
        /\ "enable" \notin OfSchedules
    BY DEF Labels, Way, OfJobs, OfSchedules
  <2> QED
    BY <1>3, <1>4, <2>1, <2>2, <2>3, OwnGoto
<1>22. ASSUME NEW c \in Client, Enable(c)
       PROVE  CmdInv' /\ Lonely'
  <2> DEFINE j == [cmd[c] EXCEPT !.at = "done", !.calm = FALSE]
  <2>1. /\ cmd[c].at = "enable" /\ UNCHANGED cfg
        /\ Goto(c, "done") \/ cmd' = [cmd EXCEPT ![c] = j]
    BY <1>22 DEF Enable, At
  <2>2. "done" \in Labels /\ "done" \notin OfJobs /\ "done" \notin OfSchedules
    BY DEF Labels, OfJobs, OfSchedules
  <2>3. j \in Cmd
    BY <1>2, <2>2, SetHarmed
  <2>4. /\ j.op = cmd[c].op /\ j.alone = cmd[c].alone /\ j.at = "done" /\ j.ids = cmd[c].ids
        /\ j.todo = cmd[c].todo
    BY <1>2 DEF Cmd
  <2> HIDE DEF j
  <2> QED
    BY <1>2, <1>5, <1>7, <2>1, <2>2, <2>3, <2>4, Own
<1>23. ASSUME NEW c \in Client, TerminateTasks(c)
       PROVE  CmdInv' /\ Lonely'
  <2>1. /\ cmd[c].at = "tasks" /\ UNCHANGED cfg
        /\ Goto(c, IF cmd[c].op = "deltasks" THEN "delete" ELSE
                   IF cmd[c].op = "termtasks" THEN "done" ELSE "end")
    BY <1>23 DEF TerminateTasks, At
  <2>2. cmd[c].op \in {"deltasks", "termtasks", "del", "term"} /\ ~cfg.recur
    BY <1>2, <2>1 DEF Way, OfJobs, Ops
  <2>3. CASE cmd[c].op = "termtasks"
    BY <1>7, <2>1, <2>3
  <2>4. CASE cmd[c].op = "deltasks"
    BY <1>6, <2>1, <2>2, <2>4 DEF Labels, Way, OfSchedules
  <2>5. CASE cmd[c].op \in {"del", "term"}
    BY <1>6, <2>1, <2>2, <2>5 DEF Labels, Way, OfSchedules
  <2> QED
    BY <2>2, <2>3, <2>4, <2>5
<1>24. ASSUME NEW c \in Client, Start(c)
       PROVE  CmdInv' /\ Lonely'
  <2>1. PICK r \in IF cfg.recur THEN ScheduleOrders ELSE JobOrders : Begin(c, r)
    BY <1>24 DEF Start
  <2>2. PICK p \in Given :
          /\ r \in Forms(p[1], p[2])
          /\ p[2] \in OfJobs => ~cfg.recur
          /\ p[2] \in OfSchedules => cfg.recur
    <3>1. \A p \in Given : p[2] \in OfJobs => p[2] \in {"add", "tasks", "delete"}
      BY DEF Given, OfJobs
    <3>2. \A p \in Given : p[2] \in OfSchedules => p[2] = "upload"
      BY DEF Given, OfSchedules
    <3> QED
      BY <2>1, <3>1, <3>2, OrdersGiven
  <2>3. /\ r \in Cmd /\ r.op = p[1] /\ r.at = p[2] /\ r.ids = {} /\ r.todo = {}
        /\ p[2] \in Way(p[1])
    BY <2>2, FormsTyped
  <2> DEFINE alone == \A d \in Client \ {c} : AtRest(d)
             j == [r EXCEPT !.alone = alone]
  <2>4. j \in Cmd
    <3>1. alone \in BOOLEAN
      OBVIOUS
    <3> HIDE DEF alone
    <3> QED
      BY <2>3, <3>1, SetAlone
  <2>5. /\ j.op = p[1] /\ j.at = p[2] /\ j.ids = {} /\ j.todo = {} /\ (j.alone <=> alone)
    BY <2>3 DEF Cmd
  <2>6. /\ cmd' = [d \in Client |-> IF d = c THEN j ELSE [cmd[d] EXCEPT !.alone = FALSE]]
        /\ UNCHANGED cfg
    BY <1>24, <2>1 DEF Begin, Start
  <2> HIDE DEF j
  <2>7. ASSUME NEW d \in Client, d # c
        PROVE  /\ cmd'[d] \in Cmd /\ cmd'[d].at = cmd[d].at /\ cmd'[d].op = cmd[d].op
               /\ cmd'[d].ids = cmd[d].ids /\ cmd'[d].todo = cmd[d].todo
               /\ ~cmd'[d].alone
    <3>1. cmd'[d] = [cmd[d] EXCEPT !.alone = FALSE] /\ cmd[d] \in Cmd
      BY <1>2, <2>6, <2>7
    <3>2. [cmd[d] EXCEPT !.alone = FALSE] \in Cmd
      BY <3>1, SetAlone
    <3> QED
      BY <3>1, <3>2 DEF Cmd
  <2>8. cmd'[c] = j
    BY <2>6
  <2>9. cmd' \in [Client -> Cmd]
    BY <2>4, <2>6, <2>7
  <2>10. Modes'
    BY <1>2, <2>2, <2>3, <2>5, <2>6, <2>7, <2>8 DEF Modes
  <2>11. Lonely'
    BY <2>5, <2>7, <2>8 DEF Lonely, AtRest
  <2> QED
    BY <2>9, <2>10, <2>11 DEF CmdInv
<1> QED
  BY <1>1, <1>11, <1>12, <1>13, <1>14, <1>15, <1>16, <1>17, <1>18, <1>19, <1>20, <1>21,
     <1>22, <1>23, <1>24, BatchKeepsCommands DEF Next, Command, Batch

----------------------------------------------------------------------------
(* The inductive invariant *)

Data ==
  /\ cfg \in Config /\ (cfg.recur => cfg.scratch = "none")
  /\ sched \in Schedule /\ job \in BatchJob /\ tasks \in [Id -> Task]
  /\ jm \in {"none", "submit", "monitor", "over"}
  /\ map \in BOOLEAN /\ harmed \in BOOLEAN /\ faults \in Nat
  /\ \A i \in Id : tasks[i].state # "none" => job.state # "none"

\* A jobs configuration without recurrence has neither schedule nor job manager.  The
\* job of a schedule always has its job manager, is not disabled, runs as long as the
\* schedule does, and its tasks are those of the map.
Kinds ==
  /\ ~cfg.recur => sched.state = "none" /\ jm = "none"
  /\ cfg.recur => /\ job.state \notin {"disabling", "disabled"}
                  /\ job.state # "none" => jm # "none"
                  /\ job.state = "active" => sched.state \in {"active", "disabled"}
                  /\ \A i \in Id \ MapIds : tasks[i].state = "none"

\* The map is there from its upload on.
MapThere ==
  ~harmed => /\ sched.state \in {"active", "disabled"} => map
             /\ \A c \in Client : At(c, "schedule") => map

\* What the job manager did so far, in a run that nothing harmed.
RunGoes ==
  (cfg.recur /\ ~harmed /\ job.state = "active") =>
    /\ jm \in {"monitor", "over"} => \A i \in MapIds : tasks[i].state # "none"
    /\ jm = "over" /\ KillOnCompletion => \A i \in MapIds : tasks[i].state = "done"

\* The job that a command created is active, and does not complete with its tasks.
Fresh(c) ==
  cmd[c].fresh /\ cmd[c].alone /\ ~AtRest(c) =>
    /\ ~cfg.recur /\ job.state = "active" /\ ~job.auto
    /\ cmd[c].at \in {"scratch", "setup", "list", "merge", "submit"}

Mine(c, i) == tasks[i].by = c \/ (i[1] = "merge" /\ cmd[c].blind)

\* The job of a jobs add without overlap stays; the ids it chose are free until it
\* adds the tasks itself.
Adding(c) ==
  (cmd[c].op = "add" /\ cmd[c].alone /\ ~cfg.recur) =>
    /\ cmd[c].at \in {"scratch", "setup", "list", "merge", "submit", "done"} =>
         job.state \notin {"none", "deleting"}
    /\ cmd[c].calm /\ cmd[c].at \in {"merge", "submit", "done"} =>
         /\ \A i \in cmd[c].todo : tasks[i].state = "none" \/ Mine(c, i)
         /\ \A i \in cmd[c].ids \ cmd[c].todo : Mine(c, i)
    /\ cmd[c].at = "done" => cmd[c].todo = {}

\* A migration without overlap finds the job as it left it.
Migrating(c) ==
  (cmd[c].op = "migrate" /\ cmd[c].alone /\ cmd[c].calm) =>
    /\ At(c, "enable") =>
         IF cfg.recur THEN sched.pool = "new" /\ sched.state \in {"active", "disabled"}
         ELSE job.pool = "new" /\ job.state = "disabled"
    /\ At(c, "done") =>
         IF cfg.recur THEN sched.pool = "new" /\ sched.state = "active"
         ELSE job.pool = "new" /\ job.state \in {"active", "terminating", "completed"}

Alone == \A c \in Client : Fresh(c) /\ Adding(c) /\ Migrating(c)

Inv == CmdInv /\ Lonely /\ Data /\ Kinds /\ MapThere /\ RunGoes /\ Alone

----------------------------------------------------------------------------
(* Data *)

LEMMA JobRecords ==
  ASSUME NEW r \in BatchJob
  PROVE  /\ \A s \in JobStates : LET q == [r EXCEPT !.state = s] IN
              q \in BatchJob /\ q.state = s /\ q.auto = r.auto /\ q.pool = r.pool
         /\ LET q == [r EXCEPT !.auto = TRUE] IN
              q \in BatchJob /\ q.state = r.state /\ q.pool = r.pool
         /\ LET q == [r EXCEPT !.pool = "new"] IN
              q \in BatchJob /\ q.state = r.state /\ q.auto = r.auto /\ q.pool = "new"
         /\ r.state \in JobStates /\ r.auto \in BOOLEAN /\ r.pool \in Pool
<1>1. TRUE \in BOOLEAN /\ "new" \in Pool
  BY DEF Pool
<1>2. \A s \in JobStates : [r EXCEPT !.state = s] \in BatchJob
  BY Zenon DEF BatchJob
<1>3. [r EXCEPT !.auto = TRUE] \in BatchJob /\ [r EXCEPT !.pool = "new"] \in BatchJob
  BY <1>1, Zenon DEF BatchJob
<1>4. \A s \in JobStates : LET q == [r EXCEPT !.state = s] IN
         q.state = s /\ q.auto = r.auto /\ q.pool = r.pool
  BY DEF BatchJob
<1>5. /\ LET q == [r EXCEPT !.auto = TRUE] IN q.state = r.state /\ q.pool = r.pool
      /\ LET q == [r EXCEPT !.pool = "new"] IN
           q.state = r.state /\ q.auto = r.auto /\ q.pool = "new"
  BY DEF BatchJob
<1>6. r.state \in JobStates /\ r.auto \in BOOLEAN /\ r.pool \in Pool
  BY DEF BatchJob
<1> QED
  BY <1>2, <1>3, <1>4, <1>5, <1>6, Zenon

LEMMA JobValues ==
  /\ NewJob \in BatchJob /\ NewJob.state = "active" /\ ~NewJob.auto
  /\ NoJob \in BatchJob /\ NoJob.state = "none" /\ ~NoJob.auto
<1>1. "active" \in JobStates /\ "none" \in JobStates /\ "old" \in Pool /\ FALSE \in BOOLEAN
  BY DEF JobStates, Pool
<1>2. NoJob \in BatchJob /\ NoJob.state = "none" /\ ~NoJob.auto
  BY <1>1 DEF NoJob, BatchJob
<1>3. NewJob \in BatchJob /\ NewJob.state = "active"
  BY <1>1, <1>2, JobRecords DEF NewJob
<1>4. ~NewJob.auto
  BY DEF NewJob, NoJob
<1> QED
  BY <1>2, <1>3, <1>4

\* What a step may make of the job.
JobMade ==
  \/ job' = job
  \/ \E s \in JobStates \ {"none"} : job' = [job EXCEPT !.state = s]
  \/ job' = [job EXCEPT !.auto = TRUE]
  \/ job' = [job EXCEPT !.pool = "new"]
  \/ job' = NewJob
  \/ job' = [state |-> "active", auto |-> cfg.auto, pool |-> sched.pool]
  \/ job' = NoJob /\ tasks' = [i \in Id |-> NoTask]

LEMMA SameState == ASSUME NEW r \in BatchJob PROVE [r EXCEPT !.state = @] = r
BY DEF BatchJob

LEMMA JobNext == ASSUME Data, Next PROVE JobMade
<1> USE DEF Quiet
<1>1. ASSUME UNCHANGED job PROVE JobMade
  BY <1>1 DEF JobMade
<1>2. ASSUME NEW s \in JobStates, s # "none", job' = [job EXCEPT !.state = s] PROVE JobMade
  BY <1>2 DEF JobMade
<1>3. job.state \in JobStates /\ job \in BatchJob
  BY JobRecords DEF Data
<1>4. ASSUME NEW c \in Client, AddJob(c) \/ Recreate(c) PROVE JobMade
  <2>1. job' = job \/ job' = NewJob \/ job' = [job EXCEPT !.state = "deleting"]
    BY <1>4 DEF AddJob, Recreate
  <2> QED
    BY <1>2, <2>1 DEF JobMade, JobStates
<1>5. ASSUME NEW c \in Client, PatchJob(c) PROVE JobMade
  BY <1>5 DEF PatchJob, JobMade
<1>6. ASSUME NEW c \in Client, EndJob(c) PROVE JobMade
  <2>1. CASE job' = job
    BY <2>1, <1>1
  <2>2. CASE job' # job
    <3>1. /\ Live \/ job.state = "completed" \/ job.state = "terminating"
          /\ job' = [job EXCEPT !.state = IF cmd[c].op = "del" THEN "deleting" ELSE Ended(@)]
      BY <1>6, <2>2 DEF EndJob
    <3> DEFINE s == IF cmd[c].op = "del" THEN "deleting" ELSE Ended(job.state)
    <3>2. s \in JobStates /\ s # "none"
      BY <3>1 DEF Ended, JobStates, Live
    <3>3. job' = [job EXCEPT !.state = s]
      BY <3>1
    <3> HIDE DEF s
    <3> QED
      BY <1>2, <3>2, <3>3
  <2> QED
    BY <2>1, <2>2
<1>7. ASSUME NEW c \in Client, EndSchedule(c) PROVE JobMade
  <2>1. \/ job' = job
        \/ job' = [job EXCEPT !.state = "deleting"]
        \/ job' = [job EXCEPT !.state = IF Live THEN "terminating" ELSE @]
    BY <1>7 DEF EndSchedule
  <2>2. CASE job' = [job EXCEPT !.state = IF Live THEN "terminating" ELSE @]
    BY <1>1, <1>2, <1>3, <2>2, SameState DEF JobStates
  <2> QED
    BY <1>1, <1>2, <2>1, <2>2 DEF JobStates
<1>8. ASSUME NEW c \in Client, Disable(c) PROVE JobMade
  <2>1. \/ job' = job
        \/ job' = [job EXCEPT !.state = IF @ = "disabled" THEN @ ELSE "disabling"]
    BY <1>8 DEF Disable
  <2> QED
    BY <1>1, <1>2, <1>3, <2>1, SameState DEF JobStates
<1>9. ASSUME NEW c \in Client, UpdatePool(c) PROVE JobMade
  BY <1>9 DEF UpdatePool, JobMade
<1>10. ASSUME NEW c \in Client, Enable(c) PROVE JobMade
  <2>1. job' = job \/ job' = [job EXCEPT !.state = "active"]
    BY <1>10 DEF Enable
  <2> QED
    BY <1>1, <1>2, <2>1 DEF JobStates
<1>11. ASSUME NEW c \in Client,
              \/ AddScratch(c) \/ AwaitScratch(c) \/ List(c) \/ ListMerge(c) \/ Submit(c)
              \/ UploadMap(c) \/ AddSchedule(c) \/ AwaitEnd(c) \/ CheckMigration(c)
              \/ AwaitDisabled(c) \/ TerminateTasks(c) \/ DeleteTasks(c) \/ TasksOfNoJob(c)
              \/ Start(c) \/ Interrupt(c)
       PROVE  JobMade
  <2>1. UNCHANGED job
    BY <1>11 DEF AddScratch, AwaitScratch, List, ListMerge, Submit, UploadMap, AddSchedule,
       AwaitEnd, CheckMigration, AwaitDisabled, TerminateTasks, DeleteTasks, TasksOfNoJob,
       Start, Interrupt, batch
  <2> QED
    BY <1>1, <2>1
<1>12. ASSUME JmSubmit \/ JmMonitor \/ JmRestart \/ \E i \in Id : TaskEnds(i)
       PROVE  JobMade
  BY <1>1, <1>12 DEF JmSubmit, JmMonitor, JmRestart, TaskEnds, batch
<1>13. ASSUME JobCompletes PROVE JobMade
  BY <1>2, <1>13 DEF JobCompletes, JobStates
<1>14. ASSUME JobTransition PROVE JobMade
  <2>1. \/ job' = [job EXCEPT !.state = "disabled"] \/ job' = [job EXCEPT !.state = "completed"]
        \/ job' = NoJob /\ tasks' = [i \in Id |-> NoTask]
    BY <1>14 DEF JobTransition
  <2> QED
    BY <1>2, <2>1 DEF JobStates, JobMade
<1>15. ASSUME RunSchedule PROVE JobMade
  BY <1>15 DEF RunSchedule, JobMade
<1> QED
  BY <1>4, <1>5, <1>6, <1>7, <1>8, <1>9, <1>10, <1>11, <1>12, <1>13, <1>14, <1>15
     DEF Next, Command

\* What a step may make of the tasks.
TasksMade ==
  \/ tasks' = tasks
  \/ /\ job.state # "none"
     /\ \E S, ids \in SUBSET Id, who \in Client \cup {Manager} : tasks' = Added(S, ids, who)
  \/ /\ job.state # "none"
     /\ \E c \in Client : tasks' = [tasks EXCEPT ![Scratch] =
                                      [state |-> "active", by |-> c, deps |-> {}]]
  \/ \E i \in Id : /\ tasks[i].state = "active"
                   /\ tasks' = [tasks EXCEPT ![i].state = "done"]
  \/ tasks' = [i \in Id |-> IF tasks[i].state = "active"
                              THEN [tasks[i] EXCEPT !.state = "done"] ELSE tasks[i]]
  \/ \E S \in SUBSET Id : tasks' = [i \in Id |-> IF i \in S THEN NoTask ELSE tasks[i]]

LEMMA MapIdsTyped ==
  MapIds \in SUBSET Id /\ IsFiniteSet(MapIds)
<1> DEFINE ks == 0..(NewTasks - 1)
           one == {<<"task", k>> : k \in ks}
           two == IF cfg.merge THEN {<<"merge", 0>>} ELSE {}
<1>1. NewTasks \in Nat /\ MaxTask \in Nat /\ NewTasks <= MaxTask /\ NewTasks # 0
  BY DEF CliJobsAssumption
<1>2. ks \subseteq Num /\ 0 \in Num
  BY <1>1 DEF Num
<1>3. one \subseteq Id /\ two \subseteq Id
  BY <1>2 DEF Id
<1>4. IsFiniteSet(ks)
  BY <1>1, FS_Interval
<1>5. IsFiniteSet(one)
  <2> DEFINE f == [k \in ks |-> <<"task", k>>]
  <2>1. f \in Surjection(ks, one)
    BY DEF Surjection
  <2> QED
    BY <1>4, <2>1, FS_Surjection
<1>6. IsFiniteSet(two)
  BY FS_EmptySet, FS_Singleton
<1>7. MapIds = one \cup two
  BY DEF MapIds
<1> QED
  BY <1>3, <1>5, <1>6, <1>7, FS_Union

LEMMA TasksNext == ASSUME Data, CmdInv, Next PROVE TasksMade
<1> USE DEF Quiet
<1>1. ASSUME UNCHANGED tasks PROVE TasksMade
  BY <1>1 DEF TasksMade
<1>2. ASSUME NEW S \in SUBSET Id, NEW ids \in SUBSET Id, NEW who \in Client \cup {Manager},
             tasks' = Added(S, ids, who), job.state # "none"
      PROVE  TasksMade
  BY <1>2 DEF TasksMade
<1>3. ASSUME NEW S \in SUBSET Id, tasks' = [i \in Id |-> IF i \in S THEN NoTask ELSE tasks[i]]
      PROVE  TasksMade
  BY <1>3 DEF TasksMade
<1>4. ASSUME tasks' = [i \in Id |-> NoTask] PROVE TasksMade
  <2>1. tasks' = [i \in Id |-> IF i \in Id THEN NoTask ELSE tasks[i]]
    BY <1>4
  <2> QED
    BY <1>3, <2>1
<1>5. ASSUME NEW c \in Client, AddScratch(c) PROVE TasksMade
  <2>1. UNCHANGED tasks \/
        (Live /\ tasks' = [tasks EXCEPT ![Scratch] =
                                      [state |-> "active", by |-> c, deps |-> {}]])
    BY <1>5 DEF AddScratch
  <2> QED
    BY <2>1 DEF TasksMade, Live
<1>6. ASSUME NEW c \in Client, Submit(c) PROVE TasksMade
  <2>1. UNCHANGED tasks \/
        (Live /\ \E T \in SUBSET cmd[c].todo : tasks' = Added(T, cmd[c].ids, c))
    BY <1>6 DEF Submit
  <2>2. cmd[c].todo \in SUBSET Id /\ cmd[c].ids \in SUBSET Id
    BY DEF CmdInv, Cmd
  <2>3. Live => job.state # "none"
    BY DEF Live
  <2> QED
    BY <1>1, <1>2, <2>1, <2>2, <2>3
<1>7. ASSUME JmSubmit \/ JmRestart PROVE TasksMade
  <2>1. UNCHANGED tasks \/ \E S \in SUBSET MapIds : tasks' = Added(S, MapIds, Manager)
    BY <1>7 DEF JmSubmit, JmRestart
  <2>2. job.state # "none"
    BY <1>7 DEF JmSubmit, JmRestart
  <2> QED
    BY <1>1, <1>2, <2>1, <2>2, MapIdsTyped
<1>8. ASSUME NEW i \in Id, TaskEnds(i) PROVE TasksMade
  BY <1>8 DEF TaskEnds, TasksMade
<1>9. ASSUME NEW c \in Client, TerminateTasks(c) PROVE TasksMade
  BY <1>9 DEF TerminateTasks, TasksMade
<1>10. ASSUME NEW c \in Client, DeleteTasks(c) PROVE TasksMade
  <2>1. PICK S \in SUBSET {i \in Id : tasks[i].state # "none"} :
          tasks' = [i \in Id |-> IF i \in S THEN NoTask ELSE tasks[i]]
    BY <1>10 DEF DeleteTasks
  <2>2. S \in SUBSET Id
    OBVIOUS
  <2> QED
    BY <1>3, <2>1, <2>2
<1>11. ASSUME JobTransition \/ RunSchedule PROVE TasksMade
  BY <1>1, <1>4, <1>11 DEF JobTransition, RunSchedule
<1>12. ASSUME JmMonitor \/ JobCompletes PROVE TasksMade
  BY <1>1, <1>12 DEF JmMonitor, JobCompletes, batch
<1>13. ASSUME NEW c \in Client,
              \/ AddJob(c) \/ Recreate(c) \/ AwaitScratch(c) \/ List(c) \/ ListMerge(c)
              \/ PatchJob(c) \/ UploadMap(c) \/ AddSchedule(c) \/ EndJob(c) \/ EndSchedule(c)
              \/ AwaitEnd(c) \/ CheckMigration(c) \/ Disable(c) \/ AwaitDisabled(c)
              \/ UpdatePool(c) \/ Enable(c) \/ TasksOfNoJob(c) \/ Start(c) \/ Interrupt(c)
       PROVE  TasksMade
  <2>1. UNCHANGED tasks
    BY <1>13 DEF AddJob, Recreate, AwaitScratch, List, ListMerge, PatchJob, UploadMap,
       AddSchedule, EndJob, EndSchedule, AwaitEnd, CheckMigration, Disable, AwaitDisabled,
       UpdatePool, Enable, TasksOfNoJob, Start, Interrupt, batch
  <2> QED
    BY <1>1, <2>1
<1> QED
  BY <1>5, <1>6, <1>7, <1>8, <1>9, <1>10, <1>11, <1>12, <1>13 DEF Next, Command

LEMMA AddedFacts ==
  ASSUME NEW S \in SUBSET Id, NEW ids \in SUBSET Id, NEW who \in Client \cup {Manager},
         tasks \in [Id -> Task]
  PROVE  /\ Added(S, ids, who) \in [Id -> Task]
         /\ \A i \in Id :
              /\ tasks[i].state # "none" \/ i \notin S => Added(S, ids, who)[i] = tasks[i]
              /\ tasks[i].state = "none" /\ i \in S =>
                   /\ Added(S, ids, who)[i].state = "active"
                   /\ Added(S, ids, who)[i].by = who
<1>1. Scratch \in Id
  BY DEF Id
<1>2. \A i \in Id : Deps(i, ids) \in SUBSET Id
  BY <1>1 DEF Deps
<1>3. ASSUME NEW i \in Id
      PROVE  [state |-> "active", by |-> who, deps |-> Deps(i, ids)] \in Task
  BY <1>2 DEF Task
<1>4. Added(S, ids, who) \in [Id -> Task]
  BY <1>3 DEF Added
<1> QED
  BY <1>4 DEF Added

LEMMA TaskRecords ==
  /\ NoTask \in Task /\ NoTask.state = "none" /\ NoTask.by = None
  /\ \A r \in Task : LET q == [r EXCEPT !.state = "done"] IN
       q \in Task /\ q.state = "done" /\ q.by = r.by
  /\ \A c \in Client : [state |-> "active", by |-> c, deps |-> {}] \in Task
<1>1. "none" \in {"none", "active", "done"} /\ "done" \in {"none", "active", "done"}
  OBVIOUS
<1>2. \A r \in Task : [r EXCEPT !.state = "done"] \in Task
  BY <1>1, Zenon DEF Task
<1>3. \A r \in Task : LET q == [r EXCEPT !.state = "done"] IN q.state = "done" /\ q.by = r.by
  BY DEF Task
<1>4. NoTask \in Task /\ NoTask.state = "none" /\ NoTask.by = None
  BY DEF NoTask, Task
<1>5. \A c \in Client : [state |-> "active", by |-> c, deps |-> {}] \in Task
  BY DEF Task
<1> QED
  BY <1>2, <1>3, <1>4, <1>5, Zenon

LEMMA TasksTyped ==
  ASSUME Data, TasksMade
  PROVE  /\ tasks' \in [Id -> Task]
         /\ \A i \in Id : tasks'[i].state # "none" => job.state # "none"
<1>1. /\ tasks \in [Id -> Task]
      /\ \A i \in Id : tasks[i] \in Task /\ (tasks[i].state # "none" => job.state # "none")
  BY DEF Data
<1>2. CASE /\ job.state # "none"
           /\ \E S, ids \in SUBSET Id, who \in Client \cup {Manager} :
                tasks' = Added(S, ids, who)
  <2>1. PICK S \in SUBSET Id, ids \in SUBSET Id, who \in Client \cup {Manager} :
          tasks' = Added(S, ids, who)
    BY <1>2
  <2>2. Added(S, ids, who) \in [Id -> Task]
    BY <1>1, AddedFacts
  <2> QED
    BY <1>2, <2>1, <2>2
<1>3. CASE /\ job.state # "none"
           /\ \E c \in Client : tasks' = [tasks EXCEPT ![Scratch] =
                                      [state |-> "active", by |-> c, deps |-> {}]]
  BY <1>1, <1>3, TaskRecords
<1>4. CASE \E i \in Id : /\ tasks[i].state = "active"
                         /\ tasks' = [tasks EXCEPT ![i].state = "done"]
  <2>1. PICK i \in Id : /\ tasks[i].state = "active"
                        /\ tasks' = [tasks EXCEPT ![i].state = "done"]
    BY <1>4
  <2> DEFINE r == [tasks[i] EXCEPT !.state = "done"]
  <2>2. r \in Task
    BY <1>1, TaskRecords
  <2>3. tasks' = [tasks EXCEPT ![i] = r] /\ job.state # "none"
    BY <1>1, <2>1
  <2> HIDE DEF r
  <2> QED
    BY <1>1, <2>2, <2>3
<1>5. CASE tasks' = [i \in Id |-> IF tasks[i].state = "active"
                                    THEN [tasks[i] EXCEPT !.state = "done"] ELSE tasks[i]]
  BY <1>1, <1>5, TaskRecords
<1>6. CASE \E S \in SUBSET Id : tasks' = [i \in Id |-> IF i \in S THEN NoTask ELSE tasks[i]]
  BY <1>1, <1>6, TaskRecords
<1>7. CASE tasks' = tasks
  BY <1>1, <1>7
<1> QED
  BY <1>2, <1>3, <1>4, <1>5, <1>6, <1>7 DEF TasksMade

\* The steps by what they leave alone.
OnJob(c) ==
  \/ AddJob(c) \/ Recreate(c) \/ AddScratch(c) \/ AwaitScratch(c) \/ List(c) \/ ListMerge(c)
  \/ Submit(c) \/ PatchJob(c) \/ EndJob(c) \/ TerminateTasks(c) \/ DeleteTasks(c)
  \/ TasksOfNoJob(c)
Looking(c) ==
  AwaitEnd(c) \/ CheckMigration(c) \/ AwaitDisabled(c) \/ Start(c) \/ Interrupt(c)
OnBoth(c) == EndSchedule(c) \/ Disable(c) \/ UpdatePool(c) \/ Enable(c)

Counted == faults' = faults \/ faults' = faults + 1

LEMMA OnJobFrame ==
  ASSUME NEW c \in Client, OnJob(c) PROVE UNCHANGED <<cfg, sched, map, jm, harmed>>
BY DEF OnJob, AddJob, Recreate, AddScratch, AwaitScratch, List, ListMerge, Submit, PatchJob,
   EndJob, TerminateTasks, DeleteTasks, TasksOfNoJob, Quiet

LEMMA OnJobCounts == ASSUME NEW c \in Client, OnJob(c) PROVE Counted
<1>1. ASSUME AddJob(c) \/ Recreate(c) \/ AddScratch(c) \/ AwaitScratch(c) PROVE Counted
  BY <1>1 DEF AddJob, Recreate, AddScratch, AwaitScratch, Fails, Counted
<1>2. ASSUME List(c) \/ ListMerge(c) \/ Submit(c) PROVE Counted
  BY <1>2 DEF List, ListMerge, Submit, Counted
<1>3. ASSUME PatchJob(c) \/ EndJob(c) \/ TerminateTasks(c) \/ DeleteTasks(c) \/ TasksOfNoJob(c)
      PROVE  Counted
  BY <1>3 DEF PatchJob, EndJob, TerminateTasks, DeleteTasks, TasksOfNoJob, Fails, Counted
<1> QED
  BY <1>1, <1>2, <1>3 DEF OnJob

LEMMA LookingFrame ==
  ASSUME NEW c \in Client, Looking(c)
  PROVE  UNCHANGED <<cfg, sched, job, tasks, map, jm, harmed>> /\ Counted
BY DEF Looking, AwaitEnd, CheckMigration, AwaitDisabled, Start, Interrupt, Fails, batch, Counted

LEMMA OnBothFrame ==
  ASSUME NEW c \in Client, OnBoth(c)
  PROVE  UNCHANGED <<cfg, tasks, map, jm, harmed>> /\ Counted
BY DEF OnBoth, EndSchedule, Disable, UpdatePool, Enable, Fails, Counted

LEMMA UploadFrame ==
  ASSUME NEW c \in Client, UploadMap(c)
  PROVE  /\ UNCHANGED <<cfg, sched, job, tasks, jm, harmed>> /\ Counted
         /\ map' = TRUE \/ map' = map
BY DEF UploadMap, Fails, Counted, batch

LEMMA AddScheduleFrame ==
  ASSUME NEW c \in Client, AddSchedule(c)
  PROVE  /\ UNCHANGED <<cfg, job, tasks, jm>> /\ Counted
         /\ map' = FALSE \/ map' = map
BY DEF AddSchedule, Fails, Counted

LEMMA BatchFrame ==
  ASSUME Batch
  PROVE  /\ UNCHANGED <<cfg, sched, map, cmd>> /\ Counted
         /\ harmed' = harmed \/ harmed' = TRUE
         /\ jm' = jm \/ jm' \in {"none", "submit", "monitor", "over"}
BY DEF Batch, JmSubmit, JmMonitor, JmRestart, TaskEnds, JobCompletes, JobTransition,
   RunSchedule, batch, Counted

LEMMA Steps ==
  ASSUME Next
  PROVE  \/ Batch
         \/ \E c \in Client :
              OnJob(c) \/ Looking(c) \/ OnBoth(c) \/ UploadMap(c) \/ AddSchedule(c)
BY DEF Next, Command, Batch, OnJob, Looking, OnBoth

LEMMA DataNext == ASSUME Data, CmdInv, Next PROVE Data'
<1>1. JobMade /\ TasksMade
  BY JobNext, TasksNext
<1>2. job' \in BatchJob
  <2>1. [state |-> "active", auto |-> cfg.auto, pool |-> sched.pool] \in BatchJob
    BY DEF Data, Config, Schedule, BatchJob, JobStates
  <2>2. job \in BatchJob
    BY DEF Data
  <2>3. /\ \A s \in JobStates : [job EXCEPT !.state = s] \in BatchJob
        /\ [job EXCEPT !.auto = TRUE] \in BatchJob /\ [job EXCEPT !.pool = "new"] \in BatchJob
    BY <2>2, JobRecords
  <2> QED
    BY <1>1, <2>1, <2>2, <2>3, JobValues, Zenon DEF JobMade
<1>3. \A i \in Id : tasks'[i].state # "none" => job'.state # "none"
  <2>1. CASE job' = NoJob /\ tasks' = [i \in Id |-> NoTask]
    BY <2>1, TaskRecords
  <2>2. CASE ~(job' = NoJob /\ tasks' = [i \in Id |-> NoTask])
    <3>1. job \in BatchJob
      BY DEF Data
    <3>2. job.state # "none" => job'.state # "none"
      <4>1. \A s \in JobStates \ {"none"} : [job EXCEPT !.state = s].state # "none"
        BY <3>1, JobRecords
      <4>2. /\ [job EXCEPT !.auto = TRUE].state = job.state
            /\ [job EXCEPT !.pool = "new"].state = job.state
            /\ NewJob.state # "none"
            /\ [state |-> "active", auto |-> cfg.auto, pool |-> sched.pool].state # "none"
        BY <3>1, JobRecords, JobValues
      <4> QED
        BY <1>1, <2>2, <4>1, <4>2, Zenon DEF JobMade
    <3> QED
      BY <1>1, <3>2, TasksTyped
  <2> QED
    BY <2>1, <2>2
<1>4. UNCHANGED cfg
  BY Steps, OnJobFrame, LookingFrame, OnBothFrame, UploadFrame, AddScheduleFrame, BatchFrame
<1>5. sched' \in Schedule
  <2>1. \/ sched' = sched
        \/ \E s \in {"active", "none", "completed", "disabled"} :
             sched' = [sched EXCEPT !.state = s]
        \/ sched' = [sched EXCEPT !.pool = "new"]
        \/ sched' = [state |-> "active", pool |-> "old"]
    <3>1. ASSUME NEW c \in Client, OnBoth(c) \/ AddSchedule(c)
          PROVE  \/ sched' = sched
                 \/ sched' = [sched EXCEPT !.state = "none"]
                 \/ sched' = [sched EXCEPT !.state = "completed"]
                 \/ sched' = [sched EXCEPT !.state = "active"]
                 \/ sched' = [sched EXCEPT !.state = "disabled"]
                 \/ sched' = [sched EXCEPT !.pool = "new"]
                 \/ sched' = [state |-> "active", pool |-> "old"]
      BY <3>1 DEF OnBoth, EndSchedule, Enable, Disable, UpdatePool, AddSchedule
    <3> QED
      BY <3>1, Steps, OnJobFrame, LookingFrame, UploadFrame, BatchFrame
  <2>2. sched \in Schedule /\ "new" \in Pool /\ "old" \in Pool
    BY DEF Data, Pool
  <2>3. /\ \A s \in {"active", "none", "completed", "disabled"} :
             [sched EXCEPT !.state = s] \in Schedule
        /\ [sched EXCEPT !.pool = "new"] \in Schedule
        /\ [state |-> "active", pool |-> "old"] \in Schedule
    BY <2>2 DEF Schedule
  <2> QED
    BY <2>1, <2>2, <2>3, Zenon
<1>6. jm' \in {"none", "submit", "monitor", "over"}
  BY Steps, OnJobFrame, LookingFrame, OnBothFrame, UploadFrame, AddScheduleFrame, BatchFrame
     DEF Data
<1>7. map' \in BOOLEAN
  <2>1. map' = map \/ map' = TRUE \/ map' = FALSE
    BY Steps, OnJobFrame, LookingFrame, OnBothFrame, UploadFrame, AddScheduleFrame, BatchFrame
  <2> QED
    BY <2>1 DEF Data
<1>8. harmed' \in BOOLEAN
  <2>1. harmed' = harmed \/ harmed' = TRUE \/ \E c \in Client : AddSchedule(c)
    BY Steps, OnJobFrame, LookingFrame, OnBothFrame, UploadFrame, BatchFrame
  <2>2. ASSUME NEW c \in Client, AddSchedule(c) PROVE harmed' \in BOOLEAN
    BY <2>2 DEF AddSchedule, Data
  <2> QED
    BY <2>1, <2>2 DEF Data
<1>9. faults' \in Nat
  <2>1. Counted
    BY Steps, OnJobCounts, LookingFrame, OnBothFrame, UploadFrame, AddScheduleFrame, BatchFrame
  <2> QED
    BY <2>1 DEF Data, Counted
<1>10. tasks' \in [Id -> Task]
  BY <1>1, TasksTyped
<1>11. cfg \in Config /\ (cfg.recur => cfg.scratch = "none")
  BY DEF Data
<1> QED
  BY <1>2, <1>3, <1>4, <1>5, <1>6, <1>7, <1>8, <1>9, <1>10, <1>11, Zenon DEF Data

LEMMA OnJobKind == ASSUME CmdInv, NEW c \in Client, OnJob(c) PROVE ~cfg.recur
<1>1. cmd[c].at \in OfJobs => ~cfg.recur
  BY DEF CmdInv, Modes
<1>2. cmd[c].at \in OfJobs \/ EndJob(c)
  BY DEF OnJob, AddJob, Recreate, AddScratch, AwaitScratch, List, ListMerge, Submit, PatchJob,
     TerminateTasks, DeleteTasks, TasksOfNoJob, At, OfJobs
<1> QED
  BY <1>1, <1>2 DEF EndJob

LEMMA KindsNext == ASSUME Data, CmdInv, Kinds, Next PROVE Kinds'
<1>1. job \in BatchJob /\ sched \in Schedule /\ tasks \in [Id -> Task]
  BY DEF Data
<1>2. ASSUME NEW c \in Client, OnJob(c) PROVE Kinds'
  BY <1>2, OnJobKind, OnJobFrame DEF Kinds
<1>3. ASSUME NEW c \in Client, Looking(c) PROVE Kinds'
  BY <1>3, LookingFrame DEF Kinds, MapIds
<1>4. ASSUME NEW c \in Client, OnBoth(c) PROVE Kinds'
  <2>1. UNCHANGED <<cfg, tasks, jm>>
    BY <1>4, OnBothFrame
  <2>2. MapIds' = MapIds
    BY <2>1 DEF MapIds
  <2>3. CASE ~cfg.recur
    <3>1. sched' = sched
      BY <1>4, <2>3 DEF OnBoth, EndSchedule, Disable, UpdatePool, Enable
    <3> QED
      BY <2>1, <2>3, <3>1 DEF Kinds
  <2>4. CASE cfg.recur
    <3>1. CASE EndSchedule(c)
      <4>1. \/ job' = job /\ sched' = sched
            \/ /\ sched.state # "none"
               /\ \/ job.state # "none" /\ job' = [job EXCEPT !.state = "deleting"]
                  \/ job' = [job EXCEPT !.state = IF Live THEN "terminating" ELSE @]
        BY <3>1 DEF EndSchedule
      <4>2. \/ job' = job /\ sched' = sched
            \/ /\ job'.state \notin {"active", "disabling", "disabled"}
               /\ job'.state = "none" <=> job.state = "none"
        BY <1>1, <4>1 DEF BatchJob, Live
      <4>3. CASE job' = job /\ sched' = sched
        BY <2>1, <2>2, <4>3 DEF Kinds
      <4>4. CASE /\ job'.state \notin {"active", "disabling", "disabled"}
                 /\ job'.state = "none" <=> job.state = "none"
        <5>1. cfg.recur /\ job'.state \notin {"active", "disabling", "disabled"}
          BY <2>4, <4>4
        <5>2. job'.state # "none" => jm' # "none"
          BY <2>1, <2>4, <4>1, <4>2 DEF Kinds
        <5>3. \A i \in Id \ MapIds : tasks[i].state = "none"
          BY <2>4 DEF Kinds
        <5> QED
          BY <2>1, <2>2, <5>1, <5>2, <5>3 DEF Kinds
      <4> QED
        BY <4>2, <4>3, <4>4
    <3>2. CASE Disable(c) \/ UpdatePool(c) \/ Enable(c)
      <4>1. job' = job
        BY <2>4, <3>2 DEF Disable, UpdatePool, Enable
      <4>2. sched.state \in {"active", "disabled"} => sched'.state \in {"active", "disabled"}
        BY <1>1, <3>2 DEF Disable, UpdatePool, Enable, Schedule
      <4> QED
        BY <2>1, <2>2, <2>4, <4>1, <4>2 DEF Kinds
    <3> QED
      BY <1>4, <3>1, <3>2 DEF OnBoth
  <2> QED
    BY <2>3, <2>4
<1>5. ASSUME NEW c \in Client, UploadMap(c) PROVE Kinds'
  BY <1>5, UploadFrame DEF Kinds, MapIds
<1>6. ASSUME NEW c \in Client, AddSchedule(c) PROVE Kinds'
  <2>1. cfg.recur
    BY <1>6 DEF AddSchedule, At, CmdInv, Modes, OfSchedules
  <2>2. UNCHANGED <<cfg, job, tasks, jm>>
    BY <1>6, AddScheduleFrame
  <2>3. sched' = sched \/ sched.state = "none"
    BY <1>6 DEF AddSchedule
  <2> QED
    BY <2>1, <2>2, <2>3 DEF Kinds, MapIds
<1>7. ASSUME JmSubmit \/ JmRestart PROVE Kinds'
  <2>1. /\ UNCHANGED <<cfg, sched, job>> /\ jm # "none" /\ jm' # "none"
        /\ UNCHANGED tasks \/ \E S \in SUBSET MapIds : tasks' = Added(S, MapIds, Manager)
    BY <1>7 DEF JmSubmit, JmRestart
  <2>2. cfg.recur
    BY <2>1 DEF Kinds
  <2>3. \A i \in Id \ MapIds : tasks'[i] = tasks[i]
    <3>1. CASE UNCHANGED tasks
      BY <3>1
    <3>2. CASE \E S \in SUBSET MapIds : tasks' = Added(S, MapIds, Manager)
      <4>1. PICK S \in SUBSET MapIds : tasks' = Added(S, MapIds, Manager)
        BY <3>2
      <4>2. S \in SUBSET Id /\ MapIds \in SUBSET Id
        BY MapIdsTyped
      <4>3. Manager \in Client \cup {Manager}
        OBVIOUS
      <4>4. \A i \in Id : i \notin S => Added(S, MapIds, Manager)[i] = tasks[i]
        BY <1>1, <4>2, <4>3, AddedFacts, SMTT(20)
      <4> QED
        BY <4>1, <4>4
    <3> QED
      BY <2>1, <3>1, <3>2
  <2> QED
    BY <2>1, <2>2, <2>3 DEF Kinds, MapIds
<1>8. ASSUME JmMonitor PROVE Kinds'
  BY <1>8 DEF JmMonitor, batch, Kinds, MapIds
<1>9. ASSUME NEW i \in Id, TaskEnds(i) PROVE Kinds'
  <2>1. /\ UNCHANGED <<cfg, sched, job, jm>> /\ tasks[i].state = "active"
        /\ tasks' = [tasks EXCEPT ![i].state = "done"]
    BY <1>9 DEF TaskEnds
  <2>2. \A j \in Id \ {i} : tasks'[j] = tasks[j]
    BY <1>1, <2>1
  <2>3. cfg.recur => i \in MapIds
    BY <2>1 DEF Kinds
  <2> QED
    BY <2>1, <2>2, <2>3 DEF Kinds, MapIds
<1>10. ASSUME JobCompletes PROVE Kinds'
  <2>1. /\ UNCHANGED <<cfg, sched, jm, tasks>> /\ job.state = "active"
        /\ job' = [job EXCEPT !.state = "terminating"]
    BY <1>10 DEF JobCompletes
  <2>2. job'.state = "terminating"
    BY <1>1, <2>1 DEF BatchJob
  <2> QED
    BY <2>1, <2>2 DEF Kinds, MapIds
<1>11. ASSUME JobTransition PROVE Kinds'
  <2>1. CASE job.state = "disabling" /\ job' = [job EXCEPT !.state = "disabled"]
             /\ UNCHANGED <<tasks, jm>>
    BY <1>11, <2>1 DEF JobTransition, Kinds
  <2>2. CASE job.state = "terminating" /\ job' = [job EXCEPT !.state = "completed"]
             /\ UNCHANGED <<tasks, jm>>
    <3>1. job'.state = "completed"
      BY <1>1, <2>2 DEF BatchJob
    <3> QED
      BY <1>11, <2>2, <3>1 DEF JobTransition, Kinds, MapIds
  <2>3. CASE job' = NoJob /\ tasks' = [i \in Id |-> NoTask] /\ jm' = "none"
    BY <1>11, <2>3, JobValues, TaskRecords DEF JobTransition, Kinds
  <2> QED
    BY <1>11, <2>1, <2>2, <2>3 DEF JobTransition
<1>12. ASSUME RunSchedule PROVE Kinds'
  <2>1. /\ UNCHANGED <<cfg, sched>> /\ sched.state = "active" /\ jm' = "submit"
        /\ job'.state = "active" /\ tasks' = [i \in Id |-> NoTask]
    BY <1>12 DEF RunSchedule
  <2> QED
    BY <2>1, TaskRecords DEF Kinds
<1> QED
  BY <1>2, <1>3, <1>4, <1>5, <1>6, <1>7, <1>8, <1>9, <1>10, <1>11, <1>12, Steps DEF Batch

LEMMA MapThereNext == ASSUME Data, CmdInv, MapThere, Next, CmdInv' PROVE MapThere'
<1>1. sched \in Schedule /\ cmd \in [Client -> Cmd] /\ map \in BOOLEAN /\ harmed \in BOOLEAN
  BY DEF Data, CmdInv
<1> DEFINE Runs(s) == s.state \in {"active", "disabled"}
           Uploaded == \E c \in Client : At(c, "schedule")
<1>2. ASSUME UNCHANGED map, harmed => harmed', Runs(sched') => Runs(sched), Uploaded' => Uploaded
      PROVE  MapThere'
  BY <1>1, <1>2 DEF MapThere
<1>3. ASSUME NEW c \in Client, NEW at \in Labels \ {"schedule"}, Goto(c, at)
      PROVE  \A d \in Client : At(d, "schedule")' => At(d, "schedule") /\ d # c
  BY <1>1, <1>3 DEF Goto, At, Cmd
<1>4. ASSUME NEW c \in Client, OnJob(c) PROVE MapThere'
  <2>1. ~cfg.recur /\ UNCHANGED <<cfg, sched, map, harmed>>
    BY <1>4, OnJobKind, OnJobFrame
  <2>2. \A d \in Client : ~At(d, "schedule")'
    BY <2>1 DEF At, CmdInv, Modes, OfSchedules
  <2> QED
    BY <1>2, <2>1, <2>2
<1>5. ASSUME NEW c \in Client, Start(c) PROVE MapThere'
  <2>1. PICK r \in IF cfg.recur THEN ScheduleOrders ELSE JobOrders : Begin(c, r)
    BY <1>5 DEF Start
  <2>2. r.at # "schedule" /\ r \in Cmd
    BY OrdersGiven, FormsTyped DEF Given
  <2>3. \A d \in Client : At(d, "schedule")' => At(d, "schedule")
    BY <1>1, <2>1, <2>2 DEF Begin, At, Cmd
  <2>4. UNCHANGED <<map, sched, harmed>>
    BY <1>5, LookingFrame DEF Looking
  <2> QED
    BY <1>2, <2>3, <2>4
<1>6. ASSUME NEW c \in Client,
             AwaitEnd(c) \/ CheckMigration(c) \/ AwaitDisabled(c) \/ Interrupt(c)
      PROVE  MapThere'
  <2>1. \E at \in {"done", "raised", "disable", "update"} : Goto(c, at)
    BY <1>6 DEF AwaitEnd, CheckMigration, AwaitDisabled, Interrupt, Fails, Raises, Goto
  <2>2. UNCHANGED <<map, sched, harmed>>
    BY <1>6, LookingFrame DEF Looking
  <2> QED
    BY <1>2, <1>3, <2>1, <2>2 DEF Labels
<1>7. ASSUME NEW c \in Client, OnBoth(c) PROVE MapThere'
  <2>1. UNCHANGED <<map, harmed>>
    BY <1>7, OnBothFrame
  <2>2. Runs(sched') => Runs(sched)
    BY <1>1, <1>7 DEF OnBoth, EndSchedule, Disable, UpdatePool, Enable, Schedule
  <2>3. ASSUME NEW d \in Client, At(d, "schedule")' PROVE At(d, "schedule")
    <3>1. CASE \E at \in {"done", "raised", "await", "disabling", "update", "enable"} : Goto(c, at)
      BY <1>3, <2>3, <3>1 DEF Labels
    <3>2. CASE cmd' = [cmd EXCEPT ![c].at = "done", ![c].calm = FALSE]
      BY <1>1, <2>3, <3>2 DEF At, Cmd
    <3> QED
      BY <1>7, <3>1, <3>2 DEF OnBoth, EndSchedule, Disable, UpdatePool, Enable, Fails, Raises,
         Goto
  <2> QED
    BY <1>2, <2>1, <2>2, <2>3
<1>8. ASSUME NEW c \in Client, UploadMap(c) PROVE MapThere'
  <2>1. CASE map' = TRUE
    BY <2>1 DEF MapThere
  <2>2. CASE Raises(c) /\ UNCHANGED map
    <3>1. Goto(c, "raised")
      BY <2>2 DEF Raises, Goto
    <3> QED
      BY <1>2, <1>3, <1>8, <2>2, <3>1, UploadFrame DEF Labels
  <2> QED
    BY <1>8, <2>1, <2>2 DEF UploadMap, Fails
<1>9. ASSUME NEW c \in Client, AddSchedule(c) PROVE MapThere'
  <2>1. CASE Goto(c, "done") /\ UNCHANGED <<map, harmed>>
    BY <1>1, <1>3, <1>9, <2>1 DEF AddSchedule, MapThere, Labels
  <2>2. CASE /\ Raises(c) /\ UNCHANGED sched
             /\ harmed' = (harmed \/ sched.state # "none"
                             \/ \E d \in Client \ {c} : At(d, "schedule"))
    <3>1. Goto(c, "raised")
      BY <2>2 DEF Raises, Goto
    <3> QED
      BY <1>3, <2>2, <3>1 DEF MapThere, Labels
  <2> QED
    BY <1>9, <2>1, <2>2 DEF AddSchedule, Fails
<1>10. ASSUME Batch PROVE MapThere'
  BY <1>2, <1>10, BatchFrame DEF At
<1> QED
  BY <1>4, <1>5, <1>6, <1>7, <1>8, <1>9, <1>10, Steps DEF Looking

LEMMA RunGoesNext ==
  ASSUME Data, CmdInv, Kinds, MapThere, RunGoes, Next PROVE RunGoes'
<1>1. /\ job \in BatchJob /\ sched \in Schedule /\ tasks \in [Id -> Task]
      /\ MapIds \in SUBSET Id /\ IsFiniteSet(MapIds)
  BY MapIdsTyped DEF Data
<1>2. ASSUME UNCHANGED cfg PROVE MapIds' = MapIds /\ KillOnCompletion' = KillOnCompletion
  BY <1>2 DEF MapIds, KillOnCompletion
<1>3. ASSUME UNCHANGED <<cfg, tasks, jm>>, ~harmed' => ~harmed,
             cfg.recur /\ job'.state = "active" => job.state = "active"
      PROVE  RunGoes'
  BY <1>2, <1>3 DEF RunGoes
<1>4. ASSUME NEW c \in Client, OnJob(c) PROVE RunGoes'
  BY <1>4, OnJobKind, OnJobFrame DEF RunGoes
<1>5. ASSUME NEW c \in Client, Looking(c) PROVE RunGoes'
  BY <1>3, <1>5, LookingFrame
<1>6. ASSUME NEW c \in Client, OnBoth(c) PROVE RunGoes'
  <2>1. UNCHANGED <<cfg, tasks, jm, harmed>>
    BY <1>6, OnBothFrame
  <2>2. cfg.recur /\ job'.state = "active" => job.state = "active"
    BY <1>1, <1>6 DEF OnBoth, EndSchedule, Disable, UpdatePool, Enable, BatchJob, Live
  <2> QED
    BY <1>3, <2>1, <2>2
<1>7. ASSUME NEW c \in Client, UploadMap(c) PROVE RunGoes'
  BY <1>3, <1>7, UploadFrame
<1>8. ASSUME NEW c \in Client, AddSchedule(c) PROVE RunGoes'
  <2>1. ~harmed' => ~harmed
    BY <1>8 DEF AddSchedule
  <2> QED
    BY <1>3, <1>8, <2>1, AddScheduleFrame
<1>9. ASSUME JmSubmit PROVE RunGoes'
  <2>1. UNCHANGED <<cfg, sched, job, map>> /\ jm # "none" /\ job.state = "active"
    BY <1>9 DEF JmSubmit
  <2>2. cfg.recur
    BY <2>1 DEF Kinds
  <2>3. CASE harmed \/ harmed'
    BY <1>9, <2>3 DEF JmSubmit, RunGoes
  <2>4. CASE ~harmed /\ ~harmed'
    <3>1. map
      BY <2>1, <2>2, <2>4 DEF Kinds, MapThere
    <3>2. /\ tasks' = Added(MapIds, MapIds, Manager)
          /\ jm' = IF KillOnCompletion THEN "monitor" ELSE "over"
      BY <1>9, <2>4, <3>1 DEF JmSubmit
    <3>3. Manager \in Client \cup {Manager}
      OBVIOUS
    <3>4. \A i \in MapIds : tasks'[i].state # "none"
      BY <1>1, <3>2, <3>3, AddedFacts
    <3> QED
      BY <1>2, <2>1, <3>2, <3>4 DEF RunGoes
  <2> QED
    BY <2>3, <2>4
<1>10. ASSUME JmMonitor PROVE RunGoes'
  <2>1. /\ UNCHANGED <<cfg, job, tasks, harmed>> /\ jm = "monitor"
        /\ Cardinality(Completed) = Cardinality(MapIds)
    BY <1>10 DEF JmMonitor, batch
  <2>2. cfg.recur
    BY <2>1 DEF Kinds
  <2>3. Completed \subseteq MapIds
    BY <2>2 DEF Kinds, Completed
  <2>4. Completed = MapIds
    BY <1>1, <2>1, <2>3, FS_Subset
  <2>5. \A i \in MapIds : tasks[i].state = "done"
    BY <2>4 DEF Completed
  <2> QED
    BY <1>2, <2>1, <2>5 DEF RunGoes
<1>11. ASSUME JmRestart PROVE RunGoes'
  BY <1>11 DEF JmRestart, RunGoes
<1>12. ASSUME NEW i \in Id, TaskEnds(i) PROVE RunGoes'
  <2>1. /\ UNCHANGED <<cfg, job, jm, harmed>> /\ tasks' = [tasks EXCEPT ![i].state = "done"]
    BY <1>12 DEF TaskEnds
  <2>2. \A j \in Id : tasks'[j] = tasks[j] \/ tasks'[j].state = "done"
    BY <1>1, <2>1 DEF Task
  <2> QED
    BY <1>1, <1>2, <2>1, <2>2 DEF RunGoes
<1>13. ASSUME JobCompletes \/ JobTransition \/ RunSchedule PROVE RunGoes'
  <2>1. CASE RunSchedule
    BY <2>1 DEF RunSchedule, RunGoes
  <2>2. CASE JobCompletes \/ JobTransition
    <3>1. job'.state # "active"
      BY <1>1, <2>2, JobValues DEF JobCompletes, JobTransition, BatchJob
    <3> QED
      BY <3>1 DEF RunGoes
  <2> QED
    BY <1>13, <2>1, <2>2
<1> QED
  BY <1>4, <1>5, <1>6, <1>7, <1>8, <1>9, <1>10, <1>11, <1>12, <1>13, Steps DEF Batch

\* What RunsWhole says of a step.
LEMMA RunIsWhole ==
  ASSUME Data, CmdInv, Kinds, RunGoes, Next, cfg.recur, job.state = "active",
         job'.state = "terminating", sched' = sched, ~harmed
  PROVE  \A i \in MapIds : tasks[i].state = "done"
<1>1. job \in BatchJob /\ tasks \in [Id -> Task] /\ MapIds \in SUBSET Id
  BY MapIdsTyped DEF Data
<1>2. ASSUME NEW c \in Client, OnJob(c) \/ Looking(c) \/ UploadMap(c) \/ AddSchedule(c) PROVE FALSE
  BY <1>2, OnJobKind, LookingFrame, UploadFrame, AddScheduleFrame
<1>3. ASSUME NEW c \in Client, OnBoth(c) PROVE FALSE
  <2>1. sched \in Schedule /\ sched.state \in {"active", "disabled"}
    BY DEF Data, Kinds
  <2>2. CASE EndSchedule(c)
    <3>1. \/ job' = job
          \/ sched' = [sched EXCEPT !.state = IF cmd[c].op = "del" THEN "none" ELSE "completed"]
      BY <2>2 DEF EndSchedule
    <3> QED
      BY <2>1, <3>1 DEF Schedule
  <2>3. CASE Disable(c) \/ UpdatePool(c) \/ Enable(c)
    BY <2>3 DEF Disable, UpdatePool, Enable
  <2> QED
    BY <1>3, <2>2, <2>3 DEF OnBoth
<1>4. JobCompletes
  <2>1. Batch
    BY <1>2, <1>3, Steps
  <2>2. CASE JmSubmit \/ JmMonitor \/ JmRestart \/ \E i \in Id : TaskEnds(i)
    BY <2>2 DEF JmSubmit, JmMonitor, JmRestart, TaskEnds, batch
  <2>3. CASE JobTransition \/ RunSchedule
    BY <2>3 DEF JobTransition, RunSchedule
  <2> QED
    BY <2>1, <2>2, <2>3 DEF Batch
<1>5. jm = "over"
  BY <1>4 DEF JobCompletes, Kinds
<1>6. CASE KillOnCompletion
  BY <1>5, <1>6 DEF RunGoes
<1>7. CASE ~KillOnCompletion
  <2>1. AllDone
    BY <1>4, <1>7 DEF JobCompletes
  <2>2. \A i \in MapIds : tasks[i].state # "none"
    BY <1>5 DEF RunGoes
  <2> QED
    BY <1>1, <2>1, <2>2 DEF AllDone, Task
<1> QED
  BY <1>6, <1>7

----------------------------------------------------------------------------
(* A command that is alone *)

\* The parts of a command that its steps leave alone, but for the creation of the job,
\* the choice of ids and what is submitted.
Same(c) == /\ cmd'[c].op = cmd[c].op /\ cmd'[c].alone = cmd[c].alone
           /\ cmd'[c].fresh = cmd[c].fresh /\ cmd'[c].ids = cmd[c].ids
           /\ cmd'[c].todo = cmd[c].todo /\ cmd'[c].blind = cmd[c].blind

LEMMA GotoFacts ==
  ASSUME CmdInv, NEW c \in Client, NEW at \in Labels, Goto(c, at)
  PROVE  /\ Same(c) /\ cmd'[c].at = at /\ cmd'[c].calm = cmd[c].calm
         /\ \A d \in Client \ {c} : cmd'[d] = cmd[d]
BY DEF CmdInv, Cmd, Goto, Same

\* The steps that do no more to the command than to move it on.
Moves(c) ==
  \/ AddScratch(c) \/ AwaitScratch(c) \/ PatchJob(c) \/ EndJob(c) \/ TerminateTasks(c)
  \/ DeleteTasks(c) \/ TasksOfNoJob(c) \/ UploadMap(c) \/ AddSchedule(c) \/ EndSchedule(c)
  \/ AwaitEnd(c) \/ CheckMigration(c) \/ Disable(c) \/ AwaitDisabled(c) \/ UpdatePool(c)
  \/ Interrupt(c)

LEMMA Moving ==
  ASSUME CmdInv, NEW c \in Client, Moves(c)
  PROVE  /\ ~AtRest(c) /\ Same(c) /\ cmd'[c].calm = cmd[c].calm
         /\ \A d \in Client \ {c} : cmd'[d] = cmd[d]
         /\ \E at \in Labels : Goto(c, at)
<1>1. ~AtRest(c)
  BY DEF Moves, AddScratch, AwaitScratch, PatchJob, EndJob, TerminateTasks, DeleteTasks,
     TasksOfNoJob, UploadMap, AddSchedule, EndSchedule, AwaitEnd, CheckMigration, Disable,
     AwaitDisabled, UpdatePool, Interrupt, At, AtRest
<1>2. /\ \A at \in {"raised", "done", "setup", "list", "await", "delete", "end", "schedule",
                    "disable", "disabling", "update", "enable"} : at \in Labels
      /\ Raises(c) => Goto(c, "raised")
      /\ Fails(c) => Goto(c, "raised")
  BY DEF Labels, Raises, Goto, Fails
<1>3. ASSUME AddScratch(c) \/ AwaitScratch(c) \/ PatchJob(c)
      PROVE  \E at \in Labels : Goto(c, at)
  BY <1>2, <1>3 DEF AddScratch, AwaitScratch, PatchJob
<1>4. ASSUME EndJob(c) \/ EndSchedule(c) \/ AwaitEnd(c) \/ Interrupt(c)
      PROVE  \E at \in Labels : Goto(c, at)
  BY <1>2, <1>4 DEF EndJob, EndSchedule, AwaitEnd, Interrupt
<1>5. ASSUME TerminateTasks(c) \/ DeleteTasks(c) \/ TasksOfNoJob(c)
      PROVE  \E at \in Labels : Goto(c, at)
  BY <1>2, <1>5 DEF TerminateTasks, DeleteTasks, TasksOfNoJob
<1>6. ASSUME UploadMap(c) \/ AddSchedule(c) \/ CheckMigration(c) \/ Disable(c)
             \/ AwaitDisabled(c) \/ UpdatePool(c)
      PROVE  \E at \in Labels : Goto(c, at)
  BY <1>2, <1>6 DEF UploadMap, AddSchedule, CheckMigration, Disable, AwaitDisabled, UpdatePool
<1>7. \E at \in Labels : Goto(c, at)
  BY <1>3, <1>4, <1>5, <1>6 DEF Moves
<1> QED
  BY <1>1, <1>7, GotoFacts

LEMMA Reaching ==
  ASSUME CmdInv, NEW c \in Client, AddJob(c) \/ Recreate(c)
  PROVE  /\ ~AtRest(c) /\ ~cfg.recur /\ cmd'[c].op = cmd[c].op /\ cmd'[c].alone = cmd[c].alone
         /\ cmd'[c].calm = cmd[c].calm
         /\ \A d \in Client \ {c} : cmd'[d] = cmd[d]
         /\ \/ cmd'[c].at \in {"list", "scratch"} /\ job' = NewJob
            \/ cmd'[c].at = "list" /\ cmd'[c].fresh = cmd[c].fresh /\ job' = job /\ Live
            \/ cmd'[c].at \in {"raised", "recreate"} /\ cmd'[c].fresh = cmd[c].fresh
<1>1. ~AtRest(c)
  BY DEF AddJob, Recreate, At, AtRest
<1>2. ~cfg.recur
  BY OnJobKind DEF OnJob
<1>3. CASE cmd' = [cmd EXCEPT ![c] = Created(@)] /\ job' = NewJob
  BY <1>1, <1>2, <1>3 DEF CmdInv, Cmd, Created, AfterJob
<1>4. CASE Goto(c, "list") /\ job' = job /\ Live
  BY <1>1, <1>2, <1>4 DEF CmdInv, Cmd, Goto
<1>5. CASE Goto(c, "raised") \/ Goto(c, "recreate")
  BY <1>1, <1>2, <1>5 DEF CmdInv, Cmd, Goto
<1>6. (Raises(c) => Goto(c, "raised")) /\ (Fails(c) => Goto(c, "raised"))
  BY DEF Raises, Goto, Fails
<1> QED
  BY <1>3, <1>4, <1>5, <1>6 DEF AddJob, Recreate, Reuse

\* What a listing of the ids makes of the command.
Listed(c, used) ==
  LET n == Next0(used)
      ids == {<<"task", k>> : k \in n..(n + NewTasks - 1)} IN
  /\ cmd'[c].ids = ids /\ cmd'[c].todo = ids
  /\ used = Numbers("task") \/ faults' = faults + 1
  /\ cmd'[c].calm => cmd[c].calm /\ faults' = faults

LEMMA Listing ==
  ASSUME CmdInv, NEW c \in Client, List(c)
  PROVE  /\ cmd'[c].op = cmd[c].op /\ cmd'[c].alone = cmd[c].alone
         /\ cmd'[c].fresh = cmd[c].fresh /\ cmd'[c].at \in {"merge", "submit"}
         /\ \A d \in Client \ {c} : cmd'[d] = cmd[d]
         /\ \E used \in {Numbers("task"), {}} : Listed(c, used)
<1>1. PICK used \in {Numbers("task"), {}} :
        LET n == Next0(used)
            ids == {<<"task", k>> : k \in n..(n + NewTasks - 1)} IN
        /\ used = Numbers("task") \/ faults' = faults + 1
        /\ cmd' = [cmd EXCEPT ![c].ids = ids, ![c].todo = ids, ![c].blind = (used = {}),
                             ![c].calm = (@ /\ faults' = faults),
                             ![c].at = IF cfg.merge THEN "merge" ELSE "submit"]
  BY DEF List
<1> DEFINE n == Next0(used)
           ids == {<<"task", k>> : k \in n..(n + NewTasks - 1)}
           blind == (used = {})
           calm == (cmd[c].calm /\ faults' = faults)
           at == IF cfg.merge THEN "merge" ELSE "submit"
           j == [cmd[c] EXCEPT !.ids = ids, !.todo = ids, !.blind = blind, !.calm = calm,
                               !.at = at]
<1>2. cmd' = [cmd EXCEPT ![c] = j]
  BY <1>1
<1>3. at \in {"merge", "submit"}
  OBVIOUS
<1>4. calm => cmd[c].calm /\ faults' = faults
  OBVIOUS
<1>5. cmd[c] \in Cmd
  BY DEF CmdInv
<1>6. used = Numbers("task") \/ faults' = faults + 1
  BY <1>1
<1>7. /\ j.op = cmd[c].op /\ j.alone = cmd[c].alone /\ j.fresh = cmd[c].fresh /\ j.at = at
      /\ j.ids = ids /\ j.todo = ids /\ j.calm = calm
  <2> HIDE DEF ids, calm, at, blind
  <2> QED
    BY <1>5 DEF Cmd
<1> HIDE DEF j
<1>8. cmd'[c] = j /\ \A d \in Client \ {c} : cmd'[d] = cmd[d]
  BY <1>2 DEF CmdInv
<1>9. Listed(c, used)
  BY <1>4, <1>6, <1>7, <1>8 DEF Listed
<1> HIDE DEF at
<1> QED
  BY <1>3, <1>7, <1>8, <1>9

LEMMA Choosing ==
  ASSUME CmdInv, NEW c \in Client, List(c) \/ ListMerge(c) \/ Submit(c)
  PROVE  /\ ~AtRest(c) /\ ~cfg.recur /\ cmd'[c].op = cmd[c].op /\ cmd'[c].alone = cmd[c].alone
         /\ cmd'[c].fresh = cmd[c].fresh /\ cmd'[c].at \in {"merge", "submit"}
         /\ \A d \in Client \ {c} : cmd'[d] = cmd[d]
         /\ UNCHANGED job
<1>1. ~AtRest(c) /\ UNCHANGED job
  BY DEF List, ListMerge, Submit, At, AtRest
<1>2. ~cfg.recur
  BY OnJobKind DEF OnJob
<1>3. CASE List(c)
  BY <1>1, <1>2, <1>3, Listing
<1>4. CASE ListMerge(c)
  BY <1>1, <1>2, <1>4 DEF ListMerge, CmdInv, Cmd
<1>5. CASE Submit(c)
  <2>1. \E D \in SUBSET cmd[c].todo :
          \/ cmd' = [cmd EXCEPT ![c].todo = @ \ D]
          \/ cmd' = [cmd EXCEPT ![c].todo = @ \ D, ![c].calm = FALSE]
    <3>1. PICK S \in SUBSET cmd[c].todo :
            \/ \E R \in SUBSET S : cmd' = [cmd EXCEPT ![c].todo = @ \ (S \ R)]
            \/ cmd' = [cmd EXCEPT ![c].todo = @ \ S, ![c].calm = FALSE]
      BY <1>5 DEF Submit
    <3> QED
      BY <3>1
  <2>2. cmd[c].at = "submit"
    BY <1>5 DEF Submit, At
  <2> QED
    BY <1>1, <1>2, <2>1, <2>2 DEF CmdInv, Cmd
<1> QED
  BY <1>3, <1>4, <1>5

LEMMA Enabling ==
  ASSUME CmdInv, NEW c \in Client, Enable(c)
  PROVE  /\ ~AtRest(c) /\ Same(c) /\ cmd'[c].at = "done"
         /\ \A d \in Client \ {c} : cmd'[d] = cmd[d]
         /\ Goto(c, "done") \/ ~cmd'[c].calm
<1>1. ~AtRest(c)
  BY DEF Enable, At, AtRest
<1>2. CASE Goto(c, "done")
  BY <1>1, <1>2, GotoFacts DEF Labels
<1>3. CASE cmd' = [cmd EXCEPT ![c].at = "done", ![c].calm = FALSE]
  BY <1>1, <1>3 DEF CmdInv, Cmd, Same
<1> QED
  BY <1>2, <1>3 DEF Enable

LEMMA Starting ==
  ASSUME CmdInv, NEW c \in Client, Start(c)
  PROVE  /\ \A d \in Client \ {c} : ~cmd'[d].alone
         /\ ~cmd'[c].fresh
         /\ cmd'[c].at \in {"disable", "enable", "check", "tasks", "delete", "add", "upload",
                            "end"}
         /\ cmd'[c].op = "migrate" => cmd'[c].at = "check"
<1>1. PICK r \in IF cfg.recur THEN ScheduleOrders ELSE JobOrders : Begin(c, r)
  BY DEF Start
<1>2. PICK p \in Given : r \in Forms(p[1], p[2])
  BY <1>1, OrdersGiven
<1>3. r \in Cmd /\ r.op = p[1] /\ r.at = p[2] /\ ~r.fresh
  BY <1>2, FormsTyped
<1>4. \A d \in Client \ {c} : ~cmd'[d].alone
  BY <1>1 DEF Begin, CmdInv, Cmd
<1>5. /\ cmd'[c].op = r.op /\ cmd'[c].at = r.at /\ cmd'[c].fresh = r.fresh
  BY <1>1, <1>3 DEF Begin, Cmd
<1>6. /\ p[2] \in {"disable", "enable", "check", "tasks", "delete", "add", "upload", "end"}
      /\ p[1] = "migrate" => p[2] = "check"
  BY DEF Given
<1> QED
  BY <1>3, <1>4, <1>5, <1>6

\* Who is alone takes the step itself, if it is not Batch that does.
LEMMA OwnSteps ==
  ASSUME CmdInv, Lonely, NEW c \in Client, Next, cmd'[c].alone
  PROVE  \/ Batch \/ Start(c)
         \/ Moves(c) \/ AddJob(c) \/ Recreate(c) \/ List(c) \/ ListMerge(c) \/ Submit(c)
         \/ Enable(c)
<1>1. ASSUME NEW d \in Client, d # c,
             \/ Moves(d) \/ AddJob(d) \/ Recreate(d) \/ List(d) \/ ListMerge(d) \/ Submit(d)
             \/ Enable(d)
      PROVE  FALSE
  <2>1. ~AtRest(d) /\ cmd'[c] = cmd[c]
    BY <1>1, Moving, Reaching, Choosing, Enabling
  <2> QED
    BY <1>1, <2>1 DEF Lonely
<1>2. ASSUME NEW d \in Client, d # c, Start(d) PROVE FALSE
  BY <1>2, Starting
<1> QED
  BY <1>1, <1>2 DEF Next, Command, Moves, Batch

LEMMA CfgNext == ASSUME Next PROVE UNCHANGED cfg
BY Steps, OnJobFrame, LookingFrame, OnBothFrame, UploadFrame, AddScheduleFrame, BatchFrame

\* What Batch does to the job of a configuration without schedule.
LEMMA BatchAndJob ==
  ASSUME Data, Kinds, Batch, ~cfg.recur, job.state \notin {"none", "deleting"}
  PROVE  /\ job'.pool = job.pool /\ job'.auto = job.auto
         /\ \/ job'.state = job.state
            \/ job.state = "active" /\ job.auto /\ job'.state = "terminating"
            \/ job.state = "disabling" /\ job'.state = "disabled"
            \/ job.state = "terminating" /\ job'.state = "completed"
         /\ \A i \in Id : /\ tasks'[i].by = tasks[i].by
                          /\ tasks[i].state = "none" => tasks'[i].state = "none"
<1>1. /\ job \in BatchJob /\ tasks \in [Id -> Task] /\ jm = "none" /\ sched.state = "none"
      /\ ~KillOnCompletion
  BY DEF Data, Kinds, KillOnCompletion
<1>2. CASE JmSubmit \/ JmMonitor \/ JmRestart \/ RunSchedule
  BY <1>1, <1>2 DEF JmSubmit, JmMonitor, JmRestart, RunSchedule
<1>3. CASE \E i \in Id : TaskEnds(i)
  <2>1. PICK i \in Id : TaskEnds(i)
    BY <1>3
  <2>2. UNCHANGED job /\ tasks[i].state = "active" /\ tasks' = [tasks EXCEPT ![i].state = "done"]
    BY <2>1 DEF TaskEnds
  <2>3. \A j \in Id : /\ tasks'[j].by = tasks[j].by
                      /\ tasks[j].state = "none" => tasks'[j].state = "none"
    BY <1>1, <2>2 DEF Task
  <2> QED
    BY <2>2, <2>3
<1>4. CASE JobCompletes
  BY <1>1, <1>4 DEF JobCompletes, BatchJob
<1>5. CASE JobTransition
  BY <1>1, <1>5 DEF JobTransition, BatchJob
<1> QED
  BY <1>2, <1>3, <1>4, <1>5 DEF Batch

LEMMA Where ==
  ASSUME CmdInv, NEW c \in Client
  PROVE  /\ cmd[c].op = "migrate" => cmd[c].at \in {"check", "disable", "disabling", "update",
                                                    "enable", "idle", "done", "raised"}
         /\ cmd[c].op = "add" /\ ~cfg.recur =>
              cmd[c].at \in {"add", "recreate", "scratch", "setup", "list", "merge", "submit",
                             "idle", "done", "raised"}
<1>1. /\ cmd[c].at \in Way(cmd[c].op) \cup {"idle", "done", "raised"}
      /\ cmd[c].at \in OfSchedules => cfg.recur
  BY DEF CmdInv, Modes
<1>2. /\ Way("migrate") = {"check", "disable", "disabling", "update", "enable"}
      /\ Way("add") = {"add", "recreate", "scratch", "setup", "list", "merge", "submit",
                       "upload", "schedule"}
  BY DEF Way
<1> QED
  BY <1>1, <1>2 DEF OfSchedules

LEMMA FreshNext ==
  ASSUME Data, CmdInv, Lonely, Kinds, NEW c \in Client, Fresh(c), Next PROVE Fresh(c)'
<1> SUFFICES ASSUME cmd'[c].fresh, cmd'[c].alone, cmd'[c].at \notin {"idle", "done", "raised"}
             PROVE  /\ ~cfg.recur /\ job'.state = "active" /\ ~job'.auto
                    /\ cmd'[c].at \in {"scratch", "setup", "list", "merge", "submit"}
  BY CfgNext DEF Fresh, AtRest
<1>1. CASE Batch
  <2>1. cmd' = cmd
    BY <1>1, BatchFrame
  <2>2. /\ ~cfg.recur /\ job.state = "active" /\ ~job.auto
        /\ cmd[c].at \in {"scratch", "setup", "list", "merge", "submit"}
    BY <2>1 DEF Fresh, AtRest
  <2> QED
    BY <1>1, <2>1, <2>2, BatchAndJob
<1>2. CASE Start(c)
  BY <1>2, Starting
<1>3. CASE Moves(c)
  <2>1. ~AtRest(c) /\ cmd[c].fresh /\ cmd[c].alone
    BY <1>3, Moving DEF Same
  <2>2. /\ ~cfg.recur /\ job.state = "active" /\ ~job.auto
        /\ cmd[c].at \in {"scratch", "setup", "list", "merge", "submit"}
    BY <2>1 DEF Fresh
  <2>3. AddScratch(c) \/ AwaitScratch(c) \/ PatchJob(c) \/ Interrupt(c)
    BY <1>3, <2>2 DEF Moves, EndJob, TerminateTasks, DeleteTasks, TasksOfNoJob, UploadMap,
       AddSchedule, EndSchedule, AwaitEnd, CheckMigration, Disable, AwaitDisabled, UpdatePool, At
  <2>4. \/ Goto(c, "raised") \/ Goto(c, "done")
        \/ UNCHANGED job /\ (Goto(c, "setup") \/ Goto(c, "list"))
    BY <2>3 DEF AddScratch, AwaitScratch, PatchJob, Interrupt, Fails, Raises, Goto
  <2> QED
    BY <2>2, <2>4, GotoFacts DEF Labels
<1>4. CASE AddJob(c) \/ Recreate(c)
  <2>1. ~cmd[c].fresh \/ ~cmd[c].alone
    BY <1>4 DEF AddJob, Recreate, At, Fresh, AtRest
  <2> QED
    BY <1>4, <2>1, Reaching, JobValues
<1>5. CASE List(c) \/ ListMerge(c) \/ Submit(c)
  BY <1>5, Choosing DEF Fresh
<1>6. CASE Enable(c)
  BY <1>6, Enabling
<1> QED
  BY <1>1, <1>2, <1>3, <1>4, <1>5, <1>6, OwnSteps

LEMMA MigratingNext ==
  ASSUME Data, CmdInv, Lonely, Kinds, NEW c \in Client, Migrating(c), Next
  PROVE  Migrating(c)'
<1> SUFFICES ASSUME cmd'[c].op = "migrate", cmd'[c].alone, cmd'[c].calm
             PROVE  /\ cmd'[c].at = "enable" =>
                         IF cfg.recur THEN sched'.pool = "new" /\ sched'.state \in {"active", "disabled"}
                         ELSE job'.pool = "new" /\ job'.state = "disabled"
                    /\ cmd'[c].at = "done" =>
                         IF cfg.recur THEN sched'.pool = "new" /\ sched'.state = "active"
                         ELSE job'.pool = "new" /\ job'.state \in {"active", "terminating", "completed"}
  BY CfgNext DEF Migrating, At
<1>1. job \in BatchJob /\ sched \in Schedule
  BY DEF Data
<1>2. CASE Batch
  <2>1. cmd' = cmd /\ sched' = sched
    BY <1>2, BatchFrame
  <2>2. CASE cfg.recur
    BY <2>1, <2>2 DEF Migrating, At
  <2>3. CASE ~cfg.recur /\ cmd[c].at = "enable"
    <3>1. job.pool = "new" /\ job.state = "disabled"
      BY <2>1, <2>3 DEF Migrating, At
    <3> QED
      BY <1>2, <2>1, <2>3, <3>1, BatchAndJob
  <2>4. CASE ~cfg.recur /\ cmd[c].at = "done"
    <3>1. job.pool = "new" /\ job.state \in {"active", "terminating", "completed"}
      BY <2>1, <2>4 DEF Migrating, At
    <3> QED
      BY <1>2, <2>1, <2>4, <3>1, BatchAndJob
  <2> QED
    BY <2>1, <2>2, <2>3, <2>4
<1>3. CASE Start(c)
  BY <1>3, Starting
<1>4. CASE Moves(c)
  <2>1. cmd[c].op = "migrate" /\ cmd[c].at \in {"check", "disable", "disabling", "update", "enable"}
    BY <1>4, Moving, Where DEF Same, AtRest
  <2>2. CheckMigration(c) \/ Disable(c) \/ AwaitDisabled(c) \/ UpdatePool(c) \/ Interrupt(c)
    BY <1>4, <2>1 DEF Moves, AddScratch, AwaitScratch, PatchJob, EndJob, TerminateTasks,
       DeleteTasks, TasksOfNoJob, UploadMap, AddSchedule, EndSchedule, AwaitEnd, At
  <2>3. CASE CheckMigration(c) \/ Disable(c) \/ AwaitDisabled(c) \/ Interrupt(c)
    <3>1. Goto(c, "raised") \/ Goto(c, "disable") \/ Goto(c, "disabling") \/ Goto(c, "update")
      BY <2>1, <2>3 DEF CheckMigration, Disable, AwaitDisabled, Interrupt, Fails, Raises, Goto
    <3> QED
      BY <3>1, GotoFacts DEF Labels
  <2>4. CASE UpdatePool(c)
    <3>1. CASE Goto(c, "raised")
      BY <3>1, GotoFacts DEF Labels
    <3>2. CASE /\ ~cfg.recur /\ job.state = "disabled" /\ job' = [job EXCEPT !.pool = "new"]
               /\ Goto(c, "enable")
      <4>1. job'.pool = "new" /\ job'.state = "disabled"
        BY <1>1, <3>2 DEF BatchJob
      <4> QED
        BY <3>2, <4>1, GotoFacts DEF Labels
    <3>3. CASE /\ cfg.recur /\ sched.state \in {"active", "disabled"}
               /\ sched' = [sched EXCEPT !.pool = "new"] /\ Goto(c, "enable")
      <4>1. sched'.pool = "new" /\ sched'.state = sched.state
        BY <1>1, <3>3 DEF Schedule
      <4> QED
        BY <3>3, <4>1, GotoFacts DEF Labels
    <3> QED
      BY <2>4, <3>1, <3>2, <3>3 DEF UpdatePool, Fails, Raises, Goto
  <2> QED
    BY <2>2, <2>3, <2>4
<1>5. CASE AddJob(c) \/ Recreate(c) \/ List(c) \/ ListMerge(c) \/ Submit(c)
  <2>1. cmd[c].op = "migrate"
    BY <1>5, Reaching, Choosing
  <2> QED
    BY <1>5, <2>1, Where DEF AddJob, Recreate, List, ListMerge, Submit, At
<1>6. CASE Enable(c)
  <2>1. /\ Goto(c, "done") /\ cmd[c].op = "migrate" /\ cmd[c].alone /\ cmd[c].at = "enable"
        /\ cmd'[c].at = "done"
    BY <1>6, Enabling DEF Same, Enable, At
  <2>2. cmd[c].calm
    BY <2>1, GotoFacts DEF Labels
  <2>3. cmd' # [cmd EXCEPT ![c].at = "done", ![c].calm = FALSE]
    BY DEF CmdInv, Cmd
  <2>4. /\ job' = IF ~cfg.recur /\ job.state \in {"disabling", "disabled"}
                    THEN [job EXCEPT !.state = "active"] ELSE job
        /\ sched' = IF cfg.recur /\ sched.state = "disabled"
                      THEN [sched EXCEPT !.state = "active"] ELSE sched
    BY <1>6, <2>3 DEF Enable
  <2>5. IF cfg.recur THEN sched.pool = "new" /\ sched.state \in {"active", "disabled"}
        ELSE job.pool = "new" /\ job.state = "disabled"
    BY <2>1, <2>2 DEF Migrating, At
  <2>6. CASE cfg.recur
    BY <1>1, <2>1, <2>4, <2>5, <2>6 DEF Schedule
  <2>7. CASE ~cfg.recur
    BY <1>1, <2>1, <2>4, <2>5, <2>7 DEF BatchJob
  <2> QED
    BY <2>6, <2>7
<1> QED
  BY <1>2, <1>3, <1>4, <1>5, <1>6, OwnSteps

\* The ids of an add stay its own or free over steps that keep the tasks in use as they
\* are and take no free one.
Chosen(c) == /\ \A i \in cmd[c].todo : tasks[i].state = "none" \/ Mine(c, i)
             /\ \A i \in cmd[c].ids \ cmd[c].todo : Mine(c, i)

LEMMA ChosenAgain ==
  ASSUME Data, NEW c \in Client, Chosen(c), cmd[c].ids \subseteq Id, cmd[c].todo \subseteq Id,
         cmd'[c].ids = cmd[c].ids, cmd'[c].todo = cmd[c].todo, cmd'[c].blind = cmd[c].blind,
         \A i \in Id : /\ tasks'[i].by = tasks[i].by
                       /\ tasks[i].state = "none" => tasks'[i].state = "none"
  PROVE  Chosen(c)'
BY DEF Chosen, Mine

\* The ids after the last one in use are free.
LEMMA ListedFree ==
  ASSUME Data, CmdInv, CmdInv', NEW c \in Client, cmd'[c].calm, UNCHANGED tasks,
         NEW used \in {Numbers("task"), {}}, Listed(c, used)
  PROVE  Chosen(c)'
<1>1. used = Numbers("task")
  BY DEF Listed, Data
<1>2. Numbers("task") \in SUBSET Num
  BY DEF Numbers
<1>3. \A k \in used : k < Next0(used)
  BY <1>1, <1>2, FreeNumbers
<1>4. Next0(used) \in 0..MaxTask
  BY <1>1, <1>2, FreeNumbers
<1>5. ASSUME NEW i \in cmd'[c].todo PROVE tasks[i].state = "none"
  <2>1. i \in Id
    BY DEF CmdInv, Cmd
  <2>2. PICK k \in Next0(used)..(Next0(used) + NewTasks - 1) : i = <<"task", k>>
    BY DEF Listed
  <2>3. k \in Num
    BY <2>1, <2>2 DEF Id, Scratch
  <2>4. ~(k < Next0(used))
    <3>1. k \in Int /\ Next0(used) \in Int /\ k >= Next0(used)
      BY <1>4, <2>2
    <3> QED
      BY ONLY <3>1
  <2>5. k \notin Numbers("task")
    BY <1>1, <1>3, <2>4
  <2> QED
    BY <2>2, <2>3, <2>5 DEF Numbers
<1>6. cmd'[c].ids \ cmd'[c].todo = {}
  BY DEF Listed
<1> QED
  BY <1>5, <1>6 DEF Chosen

LEMMA ListMergeChooses ==
  ASSUME Data, CmdInv, CmdInv', NEW c \in Client, Chosen(c), ListMerge(c)
  PROVE  Chosen(c)'
<1> DEFINE n == IF cmd[c].blind THEN 0 ELSE Next0(Numbers("merge"))
           new == {<<"merge", n>>}
<1>1. UNCHANGED tasks
  BY DEF ListMerge
<1>2. /\ cmd'[c].ids = cmd[c].ids \cup new /\ cmd'[c].todo = cmd[c].todo \cup new
      /\ cmd'[c].blind = cmd[c].blind
  <2>1. cmd' = [cmd EXCEPT ![c].ids = @ \cup new, ![c].todo = @ \cup new, ![c].at = "submit"]
    BY DEF ListMerge
  <2> HIDE DEF new
  <2> QED
    BY <2>1 DEF CmdInv, Cmd
<1>3. <<"merge", n>> \in Id
  BY <1>2 DEF CmdInv, Cmd
<1>4. n \in Num
  BY <1>3 DEF Id, Scratch
<1>5. ASSUME ~cmd[c].blind PROVE tasks[<<"merge", n>>].state = "none"
  <2>1. Numbers("merge") \in SUBSET Num
    BY DEF Numbers
  <2>2. \A k \in Numbers("merge") : k < Next0(Numbers("merge"))
    BY <2>1, FreeNumbers
  <2>3. n = Next0(Numbers("merge"))
    BY <1>5
  <2>4. n \notin Numbers("merge")
    <3>1. n \in Int
      BY <1>4 DEF Num
    <3>2. ~(n < n)
      BY ONLY <3>1
    <3> HIDE DEF n
    <3> QED
      BY <2>2, <2>3, <3>2
  <2> HIDE DEF n
  <2> QED
    BY <1>4, <2>4 DEF Numbers
<1>6. ASSUME NEW i \in cmd'[c].todo PROVE tasks[i].state = "none" \/ Mine(c, i)'
  <2>1. CASE i \in cmd[c].todo
    BY <1>1, <1>2, <2>1 DEF Chosen, Mine
  <2>2. CASE i = <<"merge", n>>
    <3>1. i[1] = "merge"
      BY <2>2
    <3> QED
      BY <1>2, <1>5, <2>2, <3>1 DEF Mine
  <2> QED
    BY <1>2, <2>1, <2>2
<1>7. ASSUME NEW i \in cmd'[c].ids \ cmd'[c].todo PROVE Mine(c, i)'
  <2>1. i \in cmd[c].ids \ cmd[c].todo
    BY <1>2
  <2> QED
    BY <1>1, <1>2, <2>1 DEF Chosen, Mine
<1> QED
  BY <1>1, <1>6, <1>7 DEF Chosen

LEMMA SubmitChooses ==
  ASSUME Data, CmdInv, NEW c \in Client, Chosen(c), Submit(c), cmd'[c].calm
  PROVE  Chosen(c)'
<1>1. /\ cmd[c] \in Cmd /\ tasks \in [Id -> Task] /\ cmd[c].todo \in SUBSET Id
      /\ cmd[c].ids \in SUBSET Id /\ cmd[c].todo \subseteq cmd[c].ids
  BY DEF CmdInv, Modes, Cmd, Data
<1>2. PICK S \in SUBSET cmd[c].todo :
        \/ \E T \in SUBSET S, R \in SUBSET S :
             /\ S \ R \subseteq T
             /\ tasks' = Added(T, cmd[c].ids, c)
             /\ cmd' = [cmd EXCEPT ![c].todo = @ \ (S \ R)]
        \/ cmd' = [cmd EXCEPT ![c].todo = @ \ S, ![c].calm = FALSE]
  BY DEF Submit
<1>3. cmd' # [cmd EXCEPT ![c].todo = @ \ S, ![c].calm = FALSE]
  BY DEF CmdInv, Cmd
<1>4. PICK T \in SUBSET S, R \in SUBSET S :
        /\ S \ R \subseteq T
        /\ tasks' = Added(T, cmd[c].ids, c)
        /\ cmd' = [cmd EXCEPT ![c].todo = @ \ (S \ R)]
  BY <1>2, <1>3
<1>5. /\ cmd'[c].todo = cmd[c].todo \ (S \ R) /\ cmd'[c].ids = cmd[c].ids
      /\ cmd'[c].blind = cmd[c].blind
  BY <1>4 DEF CmdInv, Cmd
<1>6. T \in SUBSET Id /\ c \in Client \cup {Manager}
  BY <1>1
<1>7. \A i \in Id :
        /\ tasks[i].state # "none" \/ i \notin T => tasks'[i] = tasks[i]
        /\ tasks[i].state = "none" /\ i \in T => tasks'[i].by = c
  <2>1. cmd[c].ids \in SUBSET Id /\ tasks \in [Id -> Task]
    BY <1>1
  <2>2. \A i \in Id :
          /\ tasks[i].state # "none" \/ i \notin T => Added(T, cmd[c].ids, c)[i] = tasks[i]
          /\ tasks[i].state = "none" /\ i \in T => Added(T, cmd[c].ids, c)[i].by = c
    BY <1>6, <2>1, AddedFacts, SMTT(30)
  <2> QED
    BY <1>4, <2>2
<1>8. ASSUME NEW i \in Id, Mine(c, i) PROVE Mine(c, i)'
  BY <1>5, <1>7, <1>8 DEF Mine
<1>9. ASSUME NEW i \in cmd'[c].todo PROVE tasks'[i].state = "none" \/ Mine(c, i)'
  BY <1>1, <1>5, <1>7, <1>8 DEF Chosen, Mine
<1>10. ASSUME NEW i \in cmd'[c].ids \ cmd'[c].todo PROVE Mine(c, i)'
  <2>1. i \in Id
    BY <1>1, <1>5
  <2>2. CASE i \in cmd[c].ids \ cmd[c].todo
    BY <1>8, <2>1, <2>2 DEF Chosen
  <2>3. CASE i \in cmd[c].todo
    <3>1. i \in T /\ (tasks[i].state = "none" \/ Mine(c, i))
      BY <1>4, <1>5, <2>3 DEF Chosen
    <3> QED
      BY <1>7, <1>8, <2>1, <3>1 DEF Mine
  <2> QED
    BY <1>5, <2>2, <2>3
<1> QED
  BY <1>9, <1>10 DEF Chosen

LEMMA AddingNext ==
  ASSUME Data, CmdInv, Lonely, Kinds, NEW c \in Client, Adding(c), Next, CmdInv'
  PROVE  Adding(c)'
<1> DEFINE Later == {"scratch", "setup", "list", "merge", "submit", "done"}
<1>1. UNCHANGED cfg
  BY CfgNext
<1> SUFFICES ASSUME cmd'[c].op = "add", cmd'[c].alone, ~cfg.recur
             PROVE  /\ cmd'[c].at \in Later => job'.state \notin {"none", "deleting"}
                    /\ cmd'[c].calm /\ cmd'[c].at \in {"merge", "submit", "done"} => Chosen(c)'
                    /\ cmd'[c].at = "done" => cmd'[c].todo = {}
  BY <1>1 DEF Adding, Chosen, Mine
<1>2. ASSUME cmd[c].op = "add", cmd[c].alone
      PROVE  /\ cmd[c].at \in Later => job.state \notin {"none", "deleting"}
             /\ cmd[c].calm /\ cmd[c].at \in {"merge", "submit", "done"} => Chosen(c)
             /\ cmd[c].at = "done" => cmd[c].todo = {}
  BY <1>2 DEF Adding, Chosen
<1>3. job \in BatchJob /\ cmd[c].ids \subseteq Id /\ cmd[c].todo \subseteq Id
  BY DEF Data, CmdInv, Cmd
<1>4. CASE Batch
  <2>1. cmd' = cmd
    BY <1>4, BatchFrame
  <2>2. CASE cmd[c].at \in Later
    <3>1. job.state \notin {"none", "deleting"}
      BY <1>2, <2>1, <2>2
    <3>2. /\ job'.state \notin {"none", "deleting"}
          /\ \A i \in Id : /\ tasks'[i].by = tasks[i].by
                           /\ tasks[i].state = "none" => tasks'[i].state = "none"
      BY <1>4, <3>1, BatchAndJob
    <3>3. Chosen(c) => Chosen(c)'
      BY <1>3, <2>1, <3>2, ChosenAgain
    <3> QED
      BY <1>2, <2>1, <3>2, <3>3
  <2> QED
    BY <2>1, <2>2
<1>5. CASE Start(c)
  BY <1>5, Starting
<1>6. CASE Moves(c)
  <2>1. /\ cmd[c].op = "add" /\ cmd[c].alone /\ ~AtRest(c) /\ Same(c)
        /\ cmd'[c].calm = cmd[c].calm
    BY <1>6, Moving DEF Same
  <2>2. cmd[c].at \in {"add", "recreate", "scratch", "setup", "list", "merge", "submit"}
    BY <2>1, Where DEF AtRest
  <2>3. AddScratch(c) \/ AwaitScratch(c) \/ PatchJob(c) \/ Interrupt(c)
    BY <1>6, <2>2 DEF Moves, EndJob, TerminateTasks, DeleteTasks, TasksOfNoJob, UploadMap,
       AddSchedule, EndSchedule, AwaitEnd, CheckMigration, Disable, AwaitDisabled, UpdatePool, At
  <2>4. CASE Goto(c, "raised")
    BY <2>4, GotoFacts DEF Labels
  <2>5. CASE /\ cmd[c].at \in {"scratch", "setup"} /\ UNCHANGED job
             /\ Goto(c, "setup") \/ Goto(c, "list")
    BY <1>2, <2>1, <2>5, GotoFacts DEF Labels
  <2>6. CASE /\ cmd[c].at = "submit" /\ cmd[c].todo = {} /\ Goto(c, "done") /\ UNCHANGED tasks
             /\ job' = job \/ job' = [job EXCEPT !.auto = TRUE]
    <3>1. job'.state = job.state
      BY <1>3, <2>6 DEF BatchJob
    <3>2. Chosen(c) => Chosen(c)'
      BY <2>1, <2>6 DEF Chosen, Mine, Same
    <3> QED
      BY <1>2, <2>1, <2>6, <3>1, <3>2 DEF Same
  <2> QED
    BY <2>3, <2>4, <2>5, <2>6 DEF AddScratch, AwaitScratch, PatchJob, Interrupt, Fails, Raises,
       Goto, At
<1>7. CASE AddJob(c) \/ Recreate(c)
  BY <1>7, Reaching, JobValues DEF Live
<1>8. CASE List(c)
  <2>1. /\ cmd[c].at = "list" /\ UNCHANGED <<job, tasks>> /\ cmd[c].op = "add" /\ cmd[c].alone
        /\ cmd'[c].at \in {"merge", "submit"}
    BY <1>8, Listing DEF List, At
  <2>2. cmd'[c].calm => Chosen(c)'
    BY <1>8, <2>1, Listing, ListedFree
  <2> QED
    BY <1>2, <2>1, <2>2
<1>9. CASE ListMerge(c) \/ Submit(c)
  <2>1. /\ cmd[c].at \in {"merge", "submit"} /\ UNCHANGED job /\ cmd[c].op = "add"
        /\ cmd[c].alone /\ cmd'[c].at \in {"merge", "submit"}
    BY <1>9, Choosing DEF ListMerge, Submit, At
  <2>2. cmd'[c].calm => cmd[c].calm
    <3>1. CASE ListMerge(c)
      <4> DEFINE new == {<<"merge", IF cmd[c].blind THEN 0 ELSE Next0(Numbers("merge"))>>}
      <4>1. cmd' = [cmd EXCEPT ![c].ids = @ \cup new, ![c].todo = @ \cup new,
                               ![c].at = "submit"]
        BY <3>1 DEF ListMerge
      <4> HIDE DEF new
      <4> QED
        BY <4>1 DEF CmdInv, Cmd
    <3>2. CASE Submit(c)
      <4>1. PICK S \in SUBSET cmd[c].todo :
              \/ \E R \in SUBSET S : cmd' = [cmd EXCEPT ![c].todo = @ \ (S \ R)]
              \/ cmd' = [cmd EXCEPT ![c].todo = @ \ S, ![c].calm = FALSE]
        BY <3>2 DEF Submit
      <4> QED
        BY <4>1 DEF CmdInv, Cmd
    <3> QED
      BY <1>9, <3>1, <3>2
  <2>3. cmd'[c].calm => Chosen(c)'
    BY <1>2, <1>9, <2>1, <2>2, ListMergeChooses, SubmitChooses
  <2> QED
    BY <1>2, <2>1, <2>3
<1>10. CASE Enable(c)
  <2>1. cmd[c].op = "add"
    BY <1>10, Enabling DEF Same
  <2> QED
    BY <1>10, <2>1, Where DEF Enable, At
<1> QED
  BY <1>4, <1>5, <1>6, <1>7, <1>8, <1>9, <1>10, OwnSteps

----------------------------------------------------------------------------
(* Theorems *)

LEMMA InvInit == ASSUME Init PROVE Inv
<1>1. /\ {} \in SUBSET Id /\ TRUE \in BOOLEAN /\ FALSE \in BOOLEAN
      /\ "none" \in Ops /\ "idle" \in Labels
  BY DEF Ops, Labels
<1>2. NoCommand \in Cmd
  BY <1>1, Zenon DEF NoCommand, Cmd
<1>3. \A c \in Client : cmd[c] = NoCommand
  BY DEF Init
<1>4. cmd \in [Client -> Cmd]
  BY <1>2 DEF Init
<1>5. CmdInv
  BY <1>3, <1>4 DEF CmdInv, Modes, NoCommand, OfJobs, OfSchedules
<1>6. Lonely
  BY <1>3 DEF Lonely, NoCommand
<1>7. Alone
  BY <1>3 DEF Alone, Fresh, Adding, Migrating, NoCommand
<1>8. tasks \in [Id -> Task] /\ \A i \in Id : tasks[i].state = "none"
  BY TaskRecords DEF Init
<1>9. sched \in Schedule /\ sched.state = "none" /\ job \in BatchJob /\ job.state = "none"
  BY JobValues DEF Init, Schedule, Pool
<1>10. Data
  <2>1. cfg \in Config /\ (cfg.recur => cfg.scratch = "none")
    BY DEF Init, Config
  <2>2. jm = "none" /\ map \in BOOLEAN /\ harmed \in BOOLEAN /\ faults \in Nat
    BY DEF Init
  <2> QED
    BY <1>8, <1>9, <2>1, <2>2 DEF Data
<1>11. Kinds
  BY <1>8, <1>9 DEF Kinds, Init
<1>12. MapThere /\ RunGoes
  BY <1>3, <1>9 DEF MapThere, RunGoes, At, NoCommand
<1> QED
  BY <1>5, <1>6, <1>7, <1>10, <1>11, <1>12 DEF Inv

LEMMA InvNext == ASSUME Inv, Next PROVE Inv'
<1>1. CmdInv' /\ Lonely'
  BY CmdNext DEF Inv
<1>2. Data'
  BY DataNext DEF Inv
<1>3. Kinds'
  BY KindsNext DEF Inv
<1>4. MapThere'
  BY <1>1, MapThereNext DEF Inv
<1>5. RunGoes'
  BY RunGoesNext DEF Inv
<1>6. ASSUME NEW c \in Client PROVE Fresh(c)' /\ Adding(c)' /\ Migrating(c)'
  BY <1>1, FreshNext, AddingNext, MigratingNext DEF Inv, Alone
<1>7. Alone'
  BY <1>6 DEF Alone
<1> QED
  BY <1>1, <1>2, <1>3, <1>4, <1>5, <1>7 DEF Inv

LEMMA InvStutters == ASSUME Inv, UNCHANGED vars PROVE Inv'
<1>1. UNCHANGED <<cfg, sched, job, tasks, map, jm, cmd, faults, harmed>>
  BY DEF vars, batch
<1>2. (CmdInv /\ Lonely)'
  BY <1>1 DEF Inv, CmdInv, Modes, Lonely, AtRest
<1>3. Data'
  BY <1>1 DEF Inv, Data
<1>4. (Kinds /\ MapThere)'
  BY <1>1 DEF Inv, Kinds, MapIds, MapThere, At
<1>5. RunGoes'
  BY <1>1 DEF Inv, RunGoes, MapIds, KillOnCompletion
<1>6. Alone'
  BY <1>1 DEF Inv, Alone, Fresh, Adding, Migrating, Mine, AtRest, At
<1> QED
  BY <1>2, <1>3, <1>4, <1>5, <1>6 DEF Inv

LEMMA Invariance == Spec => []Inv
<1>1. Inv /\ [Next]_vars => Inv'
  BY InvNext, InvStutters
<1> QED
  BY <1>1, InvInit, PTL DEF Spec

\* The data of jobs, schedules, tasks and commands are of their types, and tasks belong to
\* a job that exists.
THEOREM TypeCorrect == Spec => []TypeOK
<1>1. Inv => TypeOK
  <2> SUFFICES ASSUME Inv PROVE TypeOK
    OBVIOUS
  <2>1. \A i \in Id : tasks[i] \in Task /\ (tasks[i].state # "none" => job.state # "none")
    BY DEF Inv, Data
  <2>2. \A c \in Client : cmd[c].todo \subseteq cmd[c].ids /\ cmd[c].ids \subseteq Id
    BY DEF Inv, CmdInv, Modes, Cmd
  <2>3. map \in BOOLEAN /\ harmed \in BOOLEAN
    BY DEF Inv, Data
  <2> QED
    BY <2>1, <2>2, <2>3 DEF Inv, Data, TypeOK, Schedule, BatchJob, JobStates, Task
<1> QED
  BY <1>1, Invariance, PTL

\* A jobs add without errors that no other command overlaps adds all of its tasks itself:
\* none of the ids it chose was taken, after any history of the job.
THEOREM TasksAreAdded == Spec => []AddsAll
<1>1. Inv => AddsAll
  <2> SUFFICES ASSUME Inv, NEW c \in Client, cmd[c].op = "add", cmd[c].at = "done",
                      cmd[c].alone, cmd[c].calm, NEW i \in cmd[c].ids
               PROVE  Mine(c, i)
    BY DEF AddsAll, Mine, At
  <2>1. ~cfg.recur
    BY DEF Inv, CmdInv, Modes
  <2> QED
    BY <2>1 DEF Inv, Alone, Adding
<1> QED
  BY <1>1, Invariance, PTL

\* The job that a command created is active as long as the command is at work on it alone:
\* it cannot complete with the tasks added so far.
THEOREM JobsAwaitTheirTasks == Spec => []NoEarlyEnd
<1>1. Inv => NoEarlyEnd
  BY DEF Inv, Alone, Fresh, NoEarlyEnd
<1> QED
  BY <1>1, Invariance, PTL

\* A schedule that runs has its task map in the storage account, unless an add of the
\* schedule that failed deleted it.
THEOREM MapsAreKept == Spec => []MapKept
<1>1. Inv => MapKept
  BY DEF Inv, MapThere, MapKept
<1> QED
  BY <1>1, Invariance, PTL

\* A migration without overlap that reports no error leaves the job, or the schedule, on
\* the new pool and not disabled.
THEOREM MigrationsResume == Spec => []MigrationResumes
<1>1. Inv => MigrationResumes
  <2> SUFFICES ASSUME Inv PROVE MigrationResumes
    OBVIOUS
  <2>1. \A c \in Client : Migrating(c)
    BY DEF Inv, Alone
  <2> QED
    BY <2>1 DEF Migrating, MigrationResumes
<1> QED
  BY <1>1, Invariance, PTL

\* A run of a schedule does not end while a task of its map has not completed, unless tasks
\* or the map were lost.
THEOREM RunsAreWhole == Spec => RunsWhole
<1>1. Inv /\ [Next]_vars =>
        [(cfg.recur /\ job.state = "active" /\ job'.state = "terminating" /\ sched' = sched
          /\ ~harmed) => \A i \in MapIds : tasks[i].state = "done"]_vars
  BY RunIsWhole DEF Inv
<1> QED
  BY <1>1, Invariance, PTL DEF Spec, RunsWhole

=============================================================================
