----------------------------- MODULE FedJobsProofs -----------------------------
(***************************************************************************)
(* Proofs about the actions of one job (FedJobs) and the tasks of an add   *)
(* (FedTasks, from the middle of the module): no job with tasks escapes    *)
(* the location table, and a delete leaves no job with tasks, for all      *)
(* pools, accounts, sequences of actions and numbers of interruptions and  *)
(* Batch errors.                                                           *)
(*                                                                         *)
(* The argument: tasks only get into a job while an action is between      *)
(* track_job and its end, with a location entity of the pool the job is    *)
(* on (Tracking); an entity is only removed after the job of its account   *)
(* was deleted (Deleting); and a delete goes through all entities there    *)
(* are (Covering).                                                         *)
(***************************************************************************)
EXTENDS FedJobs, FedTasks, FiniteSetTheorems, WellFoundedInduction, TLAPS

\* A Batch job is assigned to a pool of its account.
Assigned == \A a \in Account : pool[a] # NoPool => AccountOf[pool[a]] = a

\* The job an add action works on is on its target pool, if it is there still.
OnTarget ==
  pc \in {"track", "schedule", "retrack"} =>
    /\ target \in Pool
    /\ state[Here] \in {"active", "completed"} => pool[Here] = target

Tracking == pc \in {"schedule", "retrack"} => target \in located

Deleting ==
  pc = "entities" /\ plan[turn] = "delete" =>
    \A p \in called : \/ state[AccountOf[p]] \in {"none", "deleting"}
                      \/ AccountOf[p] \in orphaned

Covering ==
  /\ pc # "idle" => turn \in Turn
  /\ pc # "entities" => called = {}
  /\ pc = "entities" => todo \subseteq located
  /\ pc = "entities" /\ plan[turn] = "delete" => located \subseteq todo \cup raised
  /\ pc = "done" /\ plan[turn] = "delete" => located \subseteq raised

Searching == pc \in {"create", "cleanup", "wait"} => target \in Pool

\* An add action is inside add_job_v1, a terminate or delete goes through the
\* entities.
Adding ==
  /\ pc = "entities" => plan[turn] # "add"
  /\ pc \in {"find", "create", "cleanup", "wait", "track", "schedule",
             "retrack"} => plan[turn] = "add"

Empty == \A a \in Account : state[a] = "none" => tasks[a] = {}

Inv ==
  /\ JobsTypeOK /\ Empty /\ Assigned /\ OnTarget /\ Tracking /\ Deleting /\ Covering
  /\ Searching /\ Adding /\ TasksTracked

USE JobsAssumption

LEMMA InvInit == JobsInit => Inv
<1> SUFFICES ASSUME JobsInit PROVE Inv
  OBVIOUS
<1>1. JobsTypeOK
  BY DEF JobsInit, JobsTypeOK, Turn, Method
<1> QED
  BY <1>1 DEF JobsInit, Inv, Assigned, OnTarget, Tracking, Deleting, Covering,
         Searching, Adding, TasksTracked, Turn, Empty

LEMMA InvNext == Inv /\ [JobsNext]_jobsVars => Inv'
<1> SUFFICES ASSUME Inv, [JobsNext]_jobsVars
             PROVE  Inv'
  OBVIOUS
<1> USE DEF Inv, JobsTypeOK, Assigned, OnTarget, Tracking, Deleting, Covering, Searching,
            Adding, TasksTracked, Empty, Goto, Here, Refuse, Accept, BatchFault
<1>1. CASE Start
  <2>1. JobsTypeOK'
    BY <1>1 DEF Start, batchVars, tableVars, errorVars
  <2>2. Adding' /\ Covering' /\ Tracking' /\ OnTarget' /\ Searching'
    BY <1>1 DEF Start, batchVars, tableVars, errorVars
  <2> QED
    BY <1>1, <2>1, <2>2 DEF Start, batchVars, tableVars, errorVars
<1>2. CASE NoTarget
  BY <1>2 DEF NoTarget, batchVars, tableVars, procVars, errorVars
<1>3. CASE Create
  BY <1>3 DEF Create, batchVars, tableVars, procVars, errorVars
<1>4. CASE CleanUp
  BY <1>4 DEF CleanUp, batchVars, tableVars, procVars, errorVars
<1>5. CASE WaitDeleted
  BY <1>5 DEF WaitDeleted, batchVars, tableVars, procVars, errorVars
<1>6. CASE Track
  BY <1>6 DEF Track, batchVars, tableVars, procVars, errorVars
<1>7. CASE Schedule
  BY <1>7 DEF Schedule, batchVars, tableVars, procVars, errorVars
<1>8. CASE Retrack
  BY <1>8 DEF Retrack, batchVars, tableVars, procVars, errorVars
<1>9. CASE AllHandled
  BY <1>9 DEF AllHandled, batchVars, tableVars, procVars, errorVars
<1>10. CASE Finish
  <2>1. JobsTypeOK'
    <3>1. turn \in 1..MaxActions /\ turn' = turn + 1
      BY <1>10 DEF Finish, Turn
    <3>2. turn' \in 1..(MaxActions + 1)
      BY <3>1
    <3> QED
      BY <1>10, <3>2 DEF Finish, batchVars, tableVars, errorVars
  <2> QED
    BY <1>10, <2>1 DEF Finish, batchVars, tableVars, errorVars
<1>11. ASSUME NEW p \in Pool, FindTarget(p)
      PROVE  Inv'
  BY <1>11 DEF FindTarget, batchVars, tableVars, procVars, errorVars
<1>12. ASSUME NEW p \in Pool, BatchCall(p)
      PROVE  Inv'
  <2>1. /\ pc = "entities" /\ pc' = pc /\ turn' = turn /\ plan' = plan
        /\ called' = {p} /\ todo' = todo /\ p \in todo /\ target' = target
        /\ pool' = pool /\ tasks' = tasks /\ located' = located
    BY <1>12 DEF BatchCall, tableVars
  <2>2. JobsTypeOK'
    BY <1>12 DEF BatchCall, tableVars
  <2>3. \A a \in Account :
          /\ state'[a] = "none" => state[a] = "none"
          /\ state'[a] \in {"active", "completed"} =>
               state[a] \in {"active", "completed"}
    BY <1>12 DEF BatchCall
  <2>4. orphaned \subseteq orphaned' /\ raised' = raised
    BY <1>12 DEF BatchCall
  <2>5. Deleting'
    BY <1>12 DEF BatchCall
  <2>6. TasksTracked'
    BY <2>1, <2>3, <2>4
  <2>7. Empty' /\ Assigned' /\ Covering' /\ OnTarget' /\ Tracking'
    BY <2>1, <2>3, <2>4
  <2>8. Searching' /\ Adding'
    BY <2>1
  <2> QED
    BY <2>2, <2>5, <2>6, <2>7, <2>8
<1>13. ASSUME NEW p \in Pool, WriteEntity(p)
      PROVE  Inv'
  <2>1. /\ pc = "entities" /\ pc' = pc /\ turn' = turn /\ plan' = plan
        /\ called = {p} /\ called' = {} /\ todo' = todo \ {p}
        /\ state' = state /\ pool' = pool /\ tasks' = tasks
        /\ orphaned' = orphaned /\ raised' = raised /\ target' = target
    BY <1>13 DEF WriteEntity, batchVars, errorVars
  <2>2. JobsTypeOK'
    BY <1>13 DEF WriteEntity, batchVars, errorVars
  <2>3. /\ plan[turn] = "delete" => located' = located \ {p}
        /\ plan[turn] = "terminate" => located' = located
        /\ plan[turn] # "terminate" => located' = located \ {p}
    BY <1>13 DEF WriteEntity
  <2>4. TasksTracked'
    <3>1. CASE plan[turn] = "delete"
      <4> SUFFICES ASSUME NEW a \in Account, tasks[a] # {}, a \notin orphaned,
                          state[a] \in {"active", "completed"}
                   PROVE  pool[a] \in located'
        BY <2>1
      <4>1. pool[a] \in located /\ pool[a] # NoPool /\ AccountOf[pool[a]] = a
        OBVIOUS
      <4>2. pool[a] # p
        BY <2>1, <3>1, <4>1
      <4> QED
        BY <2>3, <3>1, <4>1, <4>2
    <3>2. CASE plan[turn] = "terminate"
      BY <2>1, <2>3, <3>2
    <3>3. plan[turn] \in {"terminate", "delete"}
      BY <2>1 DEF Method
    <3> QED
      BY <3>1, <3>2, <3>3
  <2>5. Covering'
    BY <2>1, <2>3
  <2>6. Empty' /\ Assigned' /\ OnTarget' /\ Tracking' /\ Deleting'
    BY <2>1
  <2>7. Searching' /\ Adding'
    BY <2>1
  <2> QED
    BY <2>2, <2>4, <2>5, <2>6, <2>7
<1>14. CASE Interrupt
  BY <1>14 DEF Interrupt, batchVars, tableVars, procVars, errorVars
<1>15. ASSUME NEW a \in Account, JobCompletes(a)
      PROVE  Inv'
  BY <1>15 DEF JobCompletes, procVars, tableVars, errorVars
<1>16. ASSUME NEW a \in Account, DeletionEnds(a)
      PROVE  Inv'
  BY <1>16 DEF DeletionEnds, procVars, tableVars, errorVars
<1>17. ASSUME NEW p \in Pool, CoroutineRaises(p)
      PROVE  Inv'
  BY <1>17 DEF CoroutineRaises, batchVars, tableVars
<1>18. CASE UNCHANGED jobsVars
  BY <1>18 DEF jobsVars, batchVars, tableVars, procVars, errorVars
<1> QED
  BY <1>1, <1>2, <1>3, <1>4, <1>5, <1>6, <1>7, <1>8, <1>9, <1>10, <1>11, <1>12,
     <1>13, <1>14, <1>15, <1>16, <1>17, <1>18 DEF JobsNext, JobsAct

\* No job with tasks is missing in the location table (track_job before
\* schedule_tasks, _delete_job after the Batch call), but those whose delete call
\* failed without notice.
THEOREM JobsAreTracked == JobsSpec => []TasksTracked
<1>1. Inv => TasksTracked
  BY DEF Inv
<1> QED
  BY InvInit, InvNext, <1>1, PTL DEF JobsSpec

\* A delete action leaves no job with tasks (delete_or_terminate_job_v1), but those
\* whose coroutine raised, with their location entities, and those whose delete call
\* failed without notice.
THEOREM DeletesAreComplete == JobsSpec => []DeleteComplete
<1>1. Inv => DeleteComplete
  BY DEF Inv, JobsTypeOK, Covering, TasksTracked, DeleteComplete
<1> QED
  BY InvInit, InvNext, <1>1, PTL DEF JobsSpec

\* Every reachable state is well typed.
THEOREM JobsTypeCorrect == JobsSpec => []JobsTypeOK
<1>1. Inv => JobsTypeOK
  BY DEF Inv
<1> QED
  BY InvInit, InvNext, <1>1, PTL DEF JobsSpec

(***************************************************************************)
(* Job schedules.  An add looks for a pool only while the schedule has no  *)
(* location entity, so there is at most one entity (AloneInTable).  What   *)
(* is active without one, other than what an add is about to track, was    *)
(* left by an add that was interrupted before track_job (FewStrays).       *)
(***************************************************************************)
Active == {a \in Account : state[a] = "active"}
Known == Active \ orphaned
Untracked == {a \in Active \ orphaned : pool[a] \notin located}
Stray == IF pc = "track" THEN Untracked \ {Here} ELSE Untracked

Looking == {"find", "create", "cleanup", "wait", "track"}

AloneInTable ==
  kind = "job_schedule" =>
    /\ \A p, q \in located : p = q
    /\ pc \in Looking => located = {}
    /\ pc \notin {"schedule", "retrack"}

FewStrays ==
  kind = "job_schedule" => Cardinality(Stray) <= interrupts

SchedInv == Inv /\ AloneInTable /\ FewStrays

LEMMA StraysFinite == IsFiniteSet(Stray) /\ Cardinality(Stray) \in Nat
<1>1. Stray \subseteq Account
  BY DEF Stray, Untracked, Active
<1> QED
  BY <1>1, FS_Subset, FS_CardinalityType

\* A step that leaves no schedule behind keeps the bound.
LEMMA NoMoreStrays ==
  ASSUME FewStrays, Stray' \subseteq Stray,
         kind' = kind, interrupts' = interrupts,
         interrupts \in Nat
  PROVE  FewStrays'
<1>1. Cardinality(Stray') <= Cardinality(Stray) /\ Cardinality(Stray') \in Nat
  BY StraysFinite, FS_Subset, FS_CardinalityType
<1>2. Cardinality(Stray) \in Nat
  BY StraysFinite
<1> QED
  BY <1>1, <1>2 DEF FewStrays

\* One job more is at most one stray more.
LEMMA OneMore ==
  ASSUME NEW S, NEW x, IsFiniteSet(S)
  PROVE  /\ IsFiniteSet(S \cup {x})
         /\ Cardinality(S \cup {x}) \in Nat
         /\ Cardinality(S \cup {x}) <= Cardinality(S) + 1
<1>1. /\ IsFiniteSet(S \cup {x})
      /\ Cardinality(S \cup {x}) = IF x \in S THEN Cardinality(S) ELSE Cardinality(S) + 1
  BY FS_AddElement
<1>2. Cardinality(S) \in Nat
  BY FS_CardinalityType
<1> QED
  BY ONLY <1>1, <1>2

LEMMA AloneNext == Inv /\ AloneInTable /\ [JobsNext]_jobsVars => AloneInTable'
<1> SUFFICES ASSUME Inv, AloneInTable, [JobsNext]_jobsVars
             PROVE  AloneInTable'
  OBVIOUS
<1> USE DEF AloneInTable, Looking, Goto, Refuse, Accept, batchVars, tableVars, procVars,
            errorVars
<1>1. CASE \/ Start \/ NoTarget \/ Create \/ CleanUp \/ WaitDeleted \/ Schedule \/ Retrack
           \/ AllHandled \/ Finish \/ Interrupt
  BY <1>1 DEF Start, NoTarget, Create, CleanUp, WaitDeleted, Schedule, Retrack,
     AllHandled, Finish, Interrupt
<1>2. CASE Track
  BY <1>2 DEF Track
<1>3. ASSUME NEW p \in Pool, \/ FindTarget(p) \/ BatchCall(p)
                                 \/ WriteEntity(p) \/ CoroutineRaises(p)
      PROVE  AloneInTable'
  BY <1>3 DEF FindTarget, BatchCall, WriteEntity, CoroutineRaises
<1>4. ASSUME NEW a \in Account, JobCompletes(a) \/ DeletionEnds(a)
      PROVE  AloneInTable'
  BY <1>4 DEF JobCompletes, DeletionEnds
<1>5. CASE UNCHANGED jobsVars
  BY <1>5 DEF jobsVars
<1> QED
  BY <1>1, <1>2, <1>3, <1>4, <1>5 DEF JobsNext, JobsAct

LEMMA StraysNext == SchedInv /\ [JobsNext]_jobsVars => FewStrays'
<1> SUFFICES ASSUME SchedInv, [JobsNext]_jobsVars
             PROVE  FewStrays'
  OBVIOUS
<1> USE DEF SchedInv, Inv, Goto, Refuse, Accept, batchVars, tableVars, procVars,
            errorVars
<1>1. interrupts \in Nat
  BY DEF JobsTypeOK
<1>2. CASE /\ UNCHANGED <<state, pool, located, kind, orphaned, interrupts>>
           /\ pc # "track" /\ pc' # "track"
  <2>1. Stray' = Stray
    BY <1>2 DEF Stray, Untracked, Active
  <2> QED
    BY <1>1, <1>2, <2>1, NoMoreStrays
<1>3. CASE \/ Start \/ NoTarget \/ WaitDeleted \/ Schedule \/ AllHandled \/ Finish
  <2>1. /\ UNCHANGED <<state, pool, located, kind, orphaned, interrupts>>
        /\ pc # "track" /\ pc' # "track"
    BY <1>3 DEF Start, NoTarget, WaitDeleted, Schedule, AllHandled, Finish
  <2> QED
    BY <1>2, <2>1
<1>4. ASSUME NEW p \in Pool, FindTarget(p)
      PROVE  FewStrays'
  BY <1>2, <1>4 DEF FindTarget
<1>5. CASE Create
  <2>1. UNCHANGED <<kind, target, located, orphaned, interrupts>> /\ pc = "create"
    BY <1>5 DEF Create
  <2>2. CASE UNCHANGED <<state, pool>> /\ pc' # "track"
    BY <1>2, <2>1, <2>2
  <2>3. CASE UNCHANGED <<state, pool>> /\ pc' = "track"
    <3>1. Stray' \subseteq Stray
      BY <2>1, <2>3 DEF Stray, Untracked, Active
    <3> QED
      BY <1>1, <2>1, <3>1, NoMoreStrays
  <2>4. CASE /\ state' = [state EXCEPT ![Here] = "active"]
             /\ pool' = [pool EXCEPT ![Here] = target] /\ pc' = "track"
    <3>1. \A a \in Account \ {Here} : state'[a] = state[a] /\ pool'[a] = pool[a]
      BY <2>4 DEF JobsTypeOK
    <3>2. Stray' \subseteq Stray
      BY <2>1, <2>4, <3>1 DEF Stray, Untracked, Active, Here
    <3> QED
      BY <1>1, <2>1, <3>2, NoMoreStrays
  <2> QED
    BY <1>5, <2>2, <2>3, <2>4 DEF Create
<1>6. ASSUME UNCHANGED <<pool, located, kind, interrupts, target, pc>>,
             orphaned \subseteq orphaned',
             \A a \in Account : state'[a] = "active" => state[a] = "active"
      PROVE  FewStrays'
  <2>1. Stray' \subseteq Stray
    BY <1>6 DEF Stray, Untracked, Active, Here
  <2> QED
    BY <1>1, <1>6, <2>1, NoMoreStrays
<1>7. CASE CleanUp
  <2>1. /\ UNCHANGED <<pool, located, kind, orphaned, interrupts>>
        /\ pc # "track" /\ pc' # "track"
        /\ \A a \in Account : state'[a] = "active" => state[a] = "active"
    BY <1>7 DEF CleanUp, JobsTypeOK
  <2>2. Stray' \subseteq Stray
    BY <2>1 DEF Stray, Untracked, Active
  <2> QED
    BY <1>1, <2>1, <2>2, NoMoreStrays
<1>8. CASE Track
  <2>1. /\ pc = "track" /\ pc' # "track" /\ located' = located \cup {target}
        /\ UNCHANGED <<state, pool, kind, orphaned, interrupts>>
    BY <1>8 DEF Track
  <2>2. state[Here] = "active" => pool[Here] = target
    BY <2>1 DEF OnTarget
  <2>3. Stray' \subseteq Stray
    BY <2>1, <2>2 DEF Stray, Untracked, Active
  <2> QED
    BY <1>1, <2>1, <2>3, NoMoreStrays
<1>9. CASE Retrack
  BY <1>9 DEF Retrack, FewStrays, AloneInTable
<1>10. ASSUME NEW p \in Pool, BatchCall(p)
       PROVE  FewStrays'
  <2>1. UNCHANGED <<pool, located, kind, interrupts, target, pc>>
    BY <1>10 DEF BatchCall
  <2>2. orphaned \subseteq orphaned'
    BY <1>10 DEF BatchCall
  <2>3. \A a \in Account : state'[a] = "active" => state[a] = "active"
    BY <1>10 DEF BatchCall, JobsTypeOK
  <2> QED
    BY <1>6, <2>1, <2>2, <2>3
<1>11. ASSUME NEW p \in Pool, WriteEntity(p)
       PROVE  FewStrays'
  <2>1. /\ pc = "entities" /\ pc' = pc /\ called = {p} /\ located \ {p} \subseteq located'
        /\ UNCHANGED <<state, pool, kind, orphaned, interrupts>>
        /\ plan[turn] = "terminate" => located' = located
        /\ turn \in Turn
    BY <1>11 DEF WriteEntity, Covering
  <2>2. plan[turn] \in {"terminate", "delete"}
    BY <2>1 DEF Adding, JobsTypeOK, Method
  <2>3. ASSUME NEW a \in Untracked'
        PROVE  a \in Untracked
    <3>1. /\ a \in Account /\ state[a] = "active" /\ a \notin orphaned
          /\ pool[a] \notin located'
      BY <2>1 DEF Untracked, Active
    <3>2. CASE pool[a] = p /\ plan[turn] = "delete"
      <4>1. AccountOf[p] = a
        BY <3>1, <3>2 DEF Assigned, JobsTypeOK, JobsAssumption
      <4> QED
        BY <2>1, <2>3, <3>1, <3>2, <4>1 DEF Deleting
    <3>3. CASE pool[a] # p \/ plan[turn] = "terminate"
      BY <2>1, <3>1, <3>3 DEF Untracked, Active
    <3> QED
      BY <2>2, <3>2, <3>3
  <2>4. Stray' \subseteq Stray
    BY <2>1, <2>3 DEF Stray
  <2> QED
    BY <1>1, <2>1, <2>4, NoMoreStrays
<1>12. CASE Interrupt
  <2>1. /\ interrupts' = interrupts + 1 /\ pc' # "track"
        /\ UNCHANGED <<state, pool, located, kind, orphaned>>
    BY <1>12 DEF Interrupt
  <2>2. Stray' \subseteq Stray \cup {Here}
    BY <2>1 DEF Stray, Untracked, Active
  <2>3. /\ IsFiniteSet(Stray \cup {Here})
        /\ Cardinality(Stray \cup {Here}) <= Cardinality(Stray) + 1
    BY StraysFinite, OneMore
  <2>4. Cardinality(Stray') \in Nat /\ Cardinality(Stray') <= Cardinality(Stray \cup {Here})
    BY <2>2, <2>3, FS_Subset, FS_CardinalityType
  <2>5. Cardinality(Stray) \in Nat /\ Cardinality(Stray \cup {Here}) \in Nat
    BY <2>3, StraysFinite, FS_CardinalityType
  <2> QED
    BY <1>1, <2>1, <2>3, <2>4, <2>5 DEF FewStrays
<1>13. ASSUME NEW a \in Account, JobCompletes(a)
       PROVE  FewStrays'
  BY <1>6, <1>13 DEF JobCompletes, JobsTypeOK
<1>14. ASSUME NEW a \in Account, DeletionEnds(a)
       PROVE  FewStrays'
  <2>1. /\ UNCHANGED <<located, kind, interrupts, target, pc>>
        /\ orphaned' = orphaned \ {a} /\ state'[a] = "none"
        /\ \A b \in Account : state'[b] = "active" => state[b] = "active" /\ pool'[b] = pool[b]
    BY <1>14 DEF DeletionEnds, JobsTypeOK
  <2>2. Stray' \subseteq Stray
    BY <2>1 DEF Stray, Untracked, Active, Here
  <2> QED
    BY <1>1, <2>1, <2>2, NoMoreStrays
<1>15. ASSUME NEW p \in Pool, CoroutineRaises(p)
       PROVE  FewStrays'
  BY <1>6, <1>15 DEF CoroutineRaises
<1>16. CASE UNCHANGED jobsVars
  BY <1>6, <1>16 DEF jobsVars
<1> QED
  BY <1>3, <1>4, <1>5, <1>7, <1>8, <1>9, <1>10, <1>11, <1>12, <1>13, <1>14, <1>15, <1>16
     DEF JobsNext, JobsAct

\* Two job schedules of one id are only active after an interruption, at most one
\* more for every interruption, those aside whose delete call failed without notice
\* (add_job_schedule_v1), for all pools and accounts.
THEOREM SchedulesAreAlone == JobsSpec => []OneSchedule
<1>1. JobsInit => SchedInv
  <2> SUFFICES ASSUME JobsInit PROVE SchedInv
    OBVIOUS
  <2>1. Stray = {}
    BY DEF JobsInit, Stray, Untracked, Active
  <2> QED
    BY <2>1, InvInit, FS_EmptySet DEF JobsInit, SchedInv, AloneInTable, FewStrays, Looking
<1>2. SchedInv /\ [JobsNext]_jobsVars => SchedInv'
  BY InvNext, AloneNext, StraysNext DEF SchedInv
<1>3. SchedInv => OneSchedule
  <2> SUFFICES ASSUME SchedInv, kind = "job_schedule"
               PROVE  Cardinality(Known) <= 1 + interrupts
    BY DEF OneSchedule, Active, Known
  <2>1. Cardinality(Stray) <= interrupts /\ interrupts \in Nat
    BY DEF SchedInv, FewStrays, Inv, JobsTypeOK
  <2>2. \E x : Known \subseteq Stray \cup {x}
    <3>1. CASE pc = "track"
      BY <3>1 DEF SchedInv, AloneInTable, Looking, Stray, Untracked, Known
    <3>2. CASE pc # "track" /\ located = {}
      BY <3>2 DEF Stray, Untracked, Known
    <3>3. CASE pc # "track" /\ located # {}
      <4>1. PICK q \in located : located = {q}
        BY <3>3 DEF SchedInv, AloneInTable
      <4>2. ASSUME NEW a \in Known, a \notin Stray
            PROVE  a = AccountOf[q]
        <5>1. pool[a] = q /\ a \in Account /\ q \in Pool
          BY <3>3, <4>1, <4>2 DEF Stray, Untracked, Known, Active, SchedInv, Inv, JobsTypeOK
        <5> QED
          BY <5>1, JobsAssumption DEF SchedInv, Inv, Assigned
      <4> QED
        BY <4>2
    <3> QED
      BY <3>1, <3>2, <3>3
  <2>3. PICK x : Known \subseteq Stray \cup {x}
    BY <2>2
  <2>4. /\ IsFiniteSet(Stray \cup {x})
        /\ Cardinality(Stray \cup {x}) <= Cardinality(Stray) + 1
    BY StraysFinite, OneMore
  <2>5. Cardinality(Known) <= Cardinality(Stray \cup {x})
    BY <2>3, <2>4, FS_Subset
  <2>6. Cardinality(Known) \in Nat /\ Cardinality(Stray \cup {x}) \in Nat
    BY <2>3, <2>4, FS_Subset, FS_CardinalityType
  <2> QED
    BY <2>1, <2>4, <2>5, <2>6, StraysFinite
<1> QED
  BY <1>1, <1>2, <1>3, PTL DEF JobsSpec


HIDE JobsAssumption

(***************************************************************************)
(* The tasks of an add action (FedTasks), for groups and jobs of every     *)
(* size.  While ids are renumbered in sorted order, the numbers given out  *)
(* are above all used ones, and what is left is exactly the generated ids  *)
(* that were not visited (NumbersOK); so each task of the group is at a    *)
(* known place of task_map (Placed), unless the numbers start within those *)
(* of the group.  Everything a thread has passed is in the job, or it has  *)
(* an error or a retry pending (ReportOK).                                 *)
(***************************************************************************)

Bounded(S) == \E b \in Nat : \A k \in S \cap Nat : k <= b

\* The generated ids of a group are numbered from 0, and no set of ids grows
\* without bound; threads exist only while they submit.
KeysOK ==
  /\ \E n \in Nat : Generated = 0..(n - 1)
  /\ Bounded(others) /\ Bounded(DOMAIN job) /\ Bounded(DOMAIN map)
  /\ phase \in {"submit", "done"} => left = {}
  /\ phase \in {"idle", "renumber"} => all = << >> /\ DOMAIN subs = {}

\* With dependencies every task keeps its id.
KeptIds ==
  deps => /\ left = {}
          /\ \A k \in DOMAIN job : job[k] = k
          /\ phase # "idle" => DOMAIN map = group /\ \A k \in group : map[k] = k

\* The numbers given out so far are first..(next - 1), all of them above the
\* numbers in use when the list of tasks was read.
NumbersOK ==
  phase # "idle" /\ ~deps =>
    /\ first <= next
    /\ left \subseteq DOMAIN map
    /\ \A k \in DOMAIN map \cap Nat : k \in left \/ first <= k
    /\ \A k \in Generated : k \in left <=> next - first <= k
    /\ phase # "done" => \A k \in others : k < first
    /\ phase = "renumber" => \A k \in DOMAIN job \cap Nat : k < first
    /\ phase = "submit" =>
         \A k \in DOMAIN job \cap DOMAIN map \cap Nat : job[k] = map[k]

\* Where task_map has the task t, given that no number given out is an id of the
\* group that was not visited.
Position(t) == IF t \in Nat \ left THEN first + t ELSE t

Placed ==
  /\ phase # "idle" /\ ~deps
  /\ first = 0 \/ \A k \in Generated : k < first
  => \A t \in group : Position(t) \in DOMAIN map /\ map[Position(t)] = t

IInv == TypeOK /\ KeysOK /\ KeptIds /\ NumbersOK /\ Placed

(***************************************************************************)
(* Finite sets of ids, their greatest number and their order.              *)
(***************************************************************************)

LEMMA BoundedUnion ==
  ASSUME NEW S, NEW T, NEW U, Bounded(S), Bounded(T), U \subseteq S \cup T
  PROVE  Bounded(U)
<1>1. PICK b \in Nat : \A k \in S \cap Nat : k <= b
  BY DEF Bounded
<1>2. PICK c \in Nat : \A k \in T \cap Nat : k <= c
  BY DEF Bounded
<1>3. b + c \in Nat /\ \A k \in U \cap Nat : k <= b + c
  BY <1>1, <1>2
<1> QED
  BY <1>3 DEF Bounded

LEMMA FiniteKeys ==
  ASSUME NEW S, S \subseteq Key, Bounded(S)
  PROVE  IsFiniteSet(S)
<1>1. PICK b \in Nat : \A k \in S \cap Nat : k <= b
  BY DEF Bounded
<1>2. IsFiniteSet(S \cap Nat)
  BY <1>1, FS_BoundedSetOfNaturals
<1>3. IsFiniteSet(S \cap Custom)
  BY FS_Intersection, TasksAssumption
<1>4. S = (S \cap Nat) \cup (S \cap Custom)
  BY DEF Key
<1> QED
  BY <1>2, <1>3, <1>4, FS_Union

LEMMA MaxOfBounded ==
  ASSUME NEW S, S \subseteq Nat, S # {}, Bounded(S)
  PROVE  Max(S) \in S /\ \A k \in S : k <= Max(S)
<1>1. PICK b \in Nat : \A k \in S : k <= b
  BY DEF Bounded
<1> DEFINE T == {b - k : k \in S}
<1>2. T \subseteq Nat /\ T # {}
  <2>1. \A k \in S : k \in Nat /\ k <= b
    BY <1>1
  <2>2. \A k \in S : b - k \in Nat
    BY <2>1
  <2> QED
    BY <2>2, Zenon
<1>3. PICK d \in T : \A e \in T : ~(<<e, d>> \in OpToRel(<, Nat))
  BY <1>2, NatLessThanWellFounded, WFMin
<1>4. \A e \in T : d <= e
  <2> SUFFICES ASSUME NEW e \in T PROVE d <= e
    OBVIOUS
  <2>1. d \in Nat /\ e \in Nat
    BY <1>2
  <2>2. ~(e < d)
    BY <2>1, <1>3 DEF OpToRel
  <2> HIDE DEF T
  <2> QED
    BY <2>1, <2>2
<1>5. PICK m \in S : d = b - m
  BY <1>3
<1>6. \A k \in S : m >= k
  <2> SUFFICES ASSUME NEW k \in S PROVE m >= k
    OBVIOUS
  <2>1. d <= b - k
    BY <1>4
  <2> QED
    BY <2>1, <1>1, <1>5
<1>7. \E x \in S : \A y \in S : x >= y
  BY <1>6
<1>8. Max(S) \in S /\ \A y \in S : Max(S) >= y
  BY <1>7 DEF Max
<1> QED
  BY <1>8

LEMMA SeqOfSet ==
  ASSUME NEW S, IsFiniteSet(S)
  PROVE  /\ Cardinality(S) \in Nat
         /\ SetToSeq(S) \in [1..Cardinality(S) -> S]
<1>1. /\ Cardinality(S) \in Nat
      /\ ExistsBijection(1..Cardinality(S), S)
  BY FS_CardinalityType
<1>2. \E f \in [1..Cardinality(S) -> S] : IsInjective(f)
  BY <1>1 DEF ExistsBijection, Bijection, Injection
<1> QED
  BY <1>1, <1>2 DEF SetToSeq

(***************************************************************************)
(* The initial states, and the number a group starts from.                 *)
(***************************************************************************)

LEMMA InitInvariant == Init => IInv
<1> SUFFICES ASSUME Init PROVE IInv
  OBVIOUS
<1>1. PICK n \in 0..MaxGroup, c \in SUBSET Custom :
        group = {k \in 0..MaxGroup : k < n} \cup c
  BY DEF Init
<1>2. Generated = 0..(n - 1)
  BY <1>1, TasksAssumption DEF Generated
<1>3. DOMAIN map = {} /\ DOMAIN job = {} /\ DOMAIN subs = {} /\ all = << >>
  BY DEF Init
<1>4. TypeOK
  <2>1. group \subseteq Key /\ others \subseteq Nat /\ fits \in Nat
    BY <1>1, TasksAssumption DEF Init, Key
  <2>2. {deps, remapped, suffixed} \subseteq BOOLEAN /\ dropped \in BOOLEAN
    BY DEF Init
  <2>3. faults \in 0..MaxFaults /\ crashes \in 0..MaxCrashes
    BY TasksAssumption DEF Init
  <2>4. all \in Seq(DOMAIN map)
    BY <1>3
  <2> QED
    BY <1>3, <2>1, <2>2, <2>3, <2>4 DEF Init, TypeOK
<1>5. KeysOK
  <2>1. Bounded(others)
    <3>1. MaxOther \in Nat
      BY TasksAssumption
    <3>2. others \subseteq 0..MaxOther
      BY DEF Init
    <3>3. \A k \in others \cap Nat : k =< MaxOther
      BY <3>1, <3>2
    <3> QED
      BY <3>1, <3>3 DEF Bounded
  <2>2. Bounded(DOMAIN job) /\ Bounded(DOMAIN map)
    BY <1>3 DEF Bounded
  <2> QED
    BY <1>1, <1>2, <2>1, <2>2, TasksAssumption DEF Init, KeysOK
<1>6. KeptIds
  BY <1>3 DEF Init, KeptIds
<1>7. NumbersOK /\ Placed
  BY DEF Init, NumbersOK, Placed
<1> QED
  BY <1>4, <1>5, <1>6, <1>7 DEF IInv

LEMMA FreeIsFree ==
  ASSUME IInv
  PROVE  /\ Free \in Nat
         /\ \A k \in others \cup (DOMAIN job \cap Nat) : k < Free
<1> DEFINE used == others \cup (DOMAIN job \cap Nat)
<1>1. used \subseteq Nat
  BY DEF IInv, TypeOK
<1>2. CASE used = {}
  BY <1>2 DEF Free
<1>3. CASE used # {}
  <2>1. Bounded(used)
    BY BoundedUnion DEF IInv, KeysOK
  <2>2. Max(used) \in used /\ \A k \in used : k <= Max(used)
    BY <1>1, <1>3, <2>1, MaxOfBounded
  <2>3. Free = 1 + Max(used)
    BY <1>3 DEF Free
  <2> HIDE DEF used
  <2>4. Free \in Nat /\ \A k \in used : k < Free
    <3> DEFINE m == Max(used)
    <3>1. m \in Nat /\ \A k \in used : k \in Nat /\ k <= m
      BY <1>1, <2>2
    <3> HIDE DEF m
    <3>2. 1 + m \in Nat /\ \A k \in used : k < 1 + m
      BY <3>1
    <3> QED
      BY <2>3, <3>2 DEF m
  <2> QED
    BY <2>4 DEF used
<1> QED
  BY <1>2, <1>3

(***************************************************************************)
(* One thread.                                                             *)
(***************************************************************************)

SubOK(i, s) ==
  /\ s \in SubType
  /\ i <= s.start /\ s.start < s.end
  /\ s.end <= Len(all)
  /\ s.initial = s.end - i
  /\ s.slice \in 1..s.initial
  /\ s.retry \subseteq DOMAIN all

LEMMA ThreadStep ==
  ASSUME TypeOK, NEW i \in Nat, NEW s, SubOK(i, s)
  PROVE  /\ Chunk(s) \subseteq DOMAIN all
         /\ SubOK(i, Advance(s))
         /\ SubOK(i, Halve(s))
         /\ SubOK(i, [s EXCEPT !.pc = "raised"])
         /\ \A I, B \in SUBSET DOMAIN all : SubOK(i, Results(s, I, B))
<1>1. all \in Seq(DOMAIN map) /\ Len(all) \in Nat /\ DOMAIN all = 1..Len(all)
  BY DEF TypeOK
<1>2. /\ s.start \in Nat /\ s.end \in Nat /\ s.slice \in Nat /\ s.initial \in Nat
      /\ i <= s.start /\ s.start < s.end /\ s.end <= Len(all)
      /\ s.initial = s.end - i /\ s.slice >= 1 /\ s.slice <= s.initial
  BY DEF SubOK, SubType
<1>3. ChunkEnd(s) \in Nat /\ s.start < ChunkEnd(s) /\ ChunkEnd(s) <= s.end
  BY <1>2 DEF ChunkEnd
<1>4. Chunk(s) \subseteq DOMAIN all
  BY <1>1, <1>2, <1>3 DEF Chunk
<1>5. ASSUME NEW t, SubOK(i, t), t.start = s.start, t.end = s.end,
             t.slice = s.slice, t.initial = s.initial
      PROVE  SubOK(i, Advance(t))
  <2>1. ChunkEnd(t) = ChunkEnd(s)
    BY <1>5 DEF ChunkEnd
  <2>2. CASE ChunkEnd(t) = t.end
    BY <1>5, <2>2 DEF Advance, SubOK, SubType
  <2>3. CASE ChunkEnd(t) # t.end
    <3>1. Advance(t) = [t EXCEPT !.pc = "call", !.retry = {},
                                 !.start = ChunkEnd(t), !.slice = t.initial]
      BY <2>3 DEF Advance
    <3>2. ChunkEnd(t) < t.end /\ i <= ChunkEnd(t) /\ ChunkEnd(t) \in Nat
      BY <1>2, <1>3, <1>5, <2>1, <2>3
    <3>3. t.initial \in 1..t.initial
      BY <1>2, <1>5
    <3> QED
      BY <1>5, <3>1, <3>2, <3>3 DEF SubOK, SubType
  <2> QED
    BY <2>2, <2>3
<1>6. SubOK(i, Advance(s))
  BY <1>5
<1>7. SubOK(i, Halve(s))
  <2>1. CASE s.slice = 1
    BY <2>1 DEF Halve, SubOK, SubType
  <2>2. CASE s.slice # 1
    <3>1. s.slice \div 2 \in 1..s.initial
      BY <1>2, <2>2
    <3>2. Halve(s) = [s EXCEPT !.slice = s.slice \div 2]
      BY <2>2 DEF Halve
    <3> QED
      BY <1>2, <3>1, <3>2 DEF SubOK, SubType
  <2> QED
    BY <2>1, <2>2
<1>8. SubOK(i, [s EXCEPT !.pc = "raised"])
  BY DEF SubOK, SubType
<1>9. ASSUME NEW I \in SUBSET DOMAIN all, NEW B \in SUBSET DOMAIN all
      PROVE  SubOK(i, Results(s, I, B))
  <2> DEFINE good == s.ret /\ \A j \in I \ B : ~Taken(all[j])
             t == [s EXCEPT !.ret = good]
  <2>1. SubOK(i, t)
    BY DEF SubOK, SubType
  <2>2. /\ t.start = s.start /\ t.end = s.end
        /\ t.slice = s.slice /\ t.initial = s.initial
    BY DEF SubOK, SubType
  <2>3. Results(s, I, B) =
          IF B = {} THEN Advance(t)
          ELSE [t EXCEPT !.pc = IF remapped THEN "raised" ELSE "retry", !.retry = B]
    BY DEF Results
  <2> HIDE DEF t
  <2>4. SubOK(i, Advance(t))
    BY <1>5, <2>1, <2>2
  <2>5. SubOK(i, [t EXCEPT !.pc = IF remapped THEN "raised" ELSE "retry",
                           !.retry = B])
    <3> DEFINE at == IF remapped THEN "raised" ELSE "retry"
    <3>1. at \in {"call", "retry", "ended", "raised"}
      OBVIOUS
    <3>2. B \in SUBSET Nat
      BY <1>1
    <3> HIDE DEF at
    <3>3. SubOK(i, [t EXCEPT !.pc = at, !.retry = B])
      BY <2>1, <3>1, <3>2 DEF SubOK, SubType
    <3> QED
      BY <3>3 DEF at
  <2> QED
    BY <2>3, <2>4, <2>5
<1> QED
  BY <1>4, <1>6, <1>7, <1>8, <1>9

\* Batch adds only tasks of the group, with the ids they have in task_map.
LEMMA AddedTasks ==
  ASSUME TypeOK, NEW I \in SUBSET DOMAIN all, NEW B \in SUBSET I,
         NEW D \in SUBSET B, Added(I, B, D)
  PROVE  /\ DOMAIN job' \subseteq DOMAIN job \cup DOMAIN map
         /\ \A k \in DOMAIN job' :
              job'[k] = IF k \in DOMAIN job THEN job[k] ELSE map[k]
<1> DEFINE new == {all[i] : i \in {i \in (I \ B) \cup D : ~Taken(all[i])}}
<1>1. \A i \in DOMAIN all : all[i] \in DOMAIN map
  BY DEF TypeOK
<1>2. new \subseteq DOMAIN map
  BY <1>1
<1>3. job' = [k \in DOMAIN job \cup new |->
                IF k \in DOMAIN job THEN job[k] ELSE map[k]]
  BY DEF Added
<1> HIDE DEF new
<1> QED
  BY <1>2, <1>3

\* A thread changes nothing but its sub-collection and the job.
LEMMA ThreadInvariance ==
  ASSUME IInv, phase = "submit",
         UNCHANGED <<inputs, phase, mapVars, all, crashes>>,
         DOMAIN subs' = DOMAIN subs,
         \A i \in DOMAIN subs : SubOK(i, subs'[i]),
         DOMAIN job' \subseteq DOMAIN job \cup DOMAIN map,
         \A k \in DOMAIN job' :
           job'[k] = IF k \in DOMAIN job THEN job[k] ELSE map[k],
         faults' \in 0..MaxFaults, dropped' \in BOOLEAN
  PROVE  IInv'
<1> USE DEF inputs, mapVars
<1>1. TypeOK'
  <2>1. DOMAIN job' \subseteq Key /\ \A k \in DOMAIN job' : job'[k] \in group
    BY DEF IInv, TypeOK
  <2>2. \A i \in DOMAIN subs' :
          /\ subs'[i] \in SubType
          /\ i <= subs'[i].start /\ subs'[i].start < subs'[i].end
          /\ subs'[i].end <= Len(all')
          /\ subs'[i].initial = subs'[i].end - i
          /\ subs'[i].slice \in 1..subs'[i].initial
          /\ subs'[i].retry \subseteq DOMAIN all'
    BY DEF SubOK
  <2> QED
    BY <2>1, <2>2 DEF IInv, TypeOK, Generated
<1>2. KeysOK'
  <2>1. Bounded(DOMAIN job')
    BY BoundedUnion DEF IInv, KeysOK
  <2> QED
    BY <2>1 DEF IInv, KeysOK, Bounded, Generated
<1>3. KeptIds'
  BY DEF IInv, KeptIds
<1>4. NumbersOK'
  BY DEF IInv, NumbersOK, Generated
<1>5. Placed'
  BY DEF IInv, Placed, Position, Generated
<1> QED
  BY <1>1, <1>2, <1>3, <1>4, <1>5 DEF IInv

LEMMA RequestInvariance ==
  ASSUME IInv, phase = "submit", NEW i \in DOMAIN subs,
         NEW I \in SUBSET DOMAIN all,
         UNCHANGED <<inputs, phase, mapVars, all, crashes>>,
         Request(i, I) \/ RequestRaises(i, I)
  PROVE  IInv'
<1>1. i \in Nat /\ SubOK(i, subs[i]) /\ TypeOK
  BY DEF IInv, TypeOK, SubOK
<1>2. \A j \in DOMAIN subs : SubOK(j, subs[j])
  BY DEF IInv, TypeOK, SubOK
<1>3. ASSUME NEW s, SubOK(i, s), subs' = [subs EXCEPT ![i] = s]
      PROVE  DOMAIN subs' = DOMAIN subs /\ \A j \in DOMAIN subs : SubOK(j, subs'[j])
  BY <1>2, <1>3
<1>4. faults \in 0..MaxFaults /\ MaxFaults \in Nat
  BY <1>1, TasksAssumption DEF TypeOK
<1>5. CASE Request(i, I)
  <2>0. PICK B \in SUBSET I : \E D \in SUBSET B :
          /\ B # {} => faults < MaxFaults
          /\ faults' = IF B = {} THEN faults ELSE faults + 1
          /\ Added(I, B, D)
          /\ subs' = [subs EXCEPT ![i] = Results(@, I, B)]
          /\ UNCHANGED dropped
    BY <1>5 DEF Request
  <2>1. PICK D \in SUBSET B :
          /\ B # {} => faults < MaxFaults
          /\ faults' = IF B = {} THEN faults ELSE faults + 1
          /\ Added(I, B, D)
          /\ subs' = [subs EXCEPT ![i] = Results(@, I, B)]
          /\ UNCHANGED dropped
    BY <2>0
  <2>2. SubOK(i, Results(subs[i], I, B))
    BY <1>1, ThreadStep
  <2>3. faults' \in 0..MaxFaults /\ dropped' \in BOOLEAN
    BY <1>1, <1>4, <2>1 DEF TypeOK
  <2>4. DOMAIN subs' = DOMAIN subs /\ \A j \in DOMAIN subs : SubOK(j, subs'[j])
    BY <1>3, <2>1, <2>2
  <2> QED
    BY <1>1, <2>1, <2>3, <2>4, AddedTasks, ThreadInvariance
<1>6. CASE RequestRaises(i, I)
  <2>1. SubOK(i, [subs[i] EXCEPT !.pc = "raised"])
    BY <1>1, ThreadStep
  <2>2. faults' \in 0..MaxFaults /\ dropped' \in BOOLEAN
    BY <1>1, <1>4, <1>6 DEF RequestRaises, TypeOK
  <2>3. DOMAIN subs' = DOMAIN subs /\ \A j \in DOMAIN subs : SubOK(j, subs'[j])
    BY <1>3, <1>6, <2>1 DEF RequestRaises
  <2>4. /\ DOMAIN job' \subseteq DOMAIN job \cup DOMAIN map
        /\ \A k \in DOMAIN job' :
             job'[k] = IF k \in DOMAIN job THEN job[k] ELSE map[k]
    <3>1. CASE UNCHANGED job
      BY <3>1
    <3>2. CASE Added(I, {}, {})
      BY <1>1, <3>2, AddedTasks
    <3> QED
      BY <1>6, <3>1, <3>2 DEF RequestRaises
  <2> QED
    BY <2>2, <2>3, <2>4, ThreadInvariance
<1> QED
  BY <1>5, <1>6

(***************************************************************************)
(* The other steps.                                                        *)
(***************************************************************************)

LEMMA BeginInvariance == IInv /\ Begin => IInv'
<1> SUFFICES ASSUME IInv, Begin PROVE IInv'
  OBVIOUS
<1> USE DEF inputs
<1>1. Free \in Nat /\ \A k \in others \cup (DOMAIN job \cap Nat) : k < Free
  BY FreeIsFree
<1>2. DOMAIN map' = group /\ \A k \in group : map'[k] = k
  BY DEF Begin
<1>3. PICK n \in Nat : Generated = 0..(n - 1)
  BY DEF IInv, KeysOK
<1>4. TypeOK'
  <2>1. all' \in Seq(DOMAIN map')
    BY DEF IInv, KeysOK, Begin
  <2> QED
    BY <1>1, <1>2, <2>1 DEF IInv, TypeOK, KeysOK, Begin
<1>5. KeysOK'
  <2>1. Bounded(group)
    BY <1>3 DEF Bounded, Generated
  <2> QED
    BY <1>2, <1>3, <2>1 DEF IInv, KeysOK, Begin, Generated, Bounded
<1>6. KeptIds'
  BY <1>2 DEF IInv, KeptIds, Begin
<1>7. NumbersOK'
  BY <1>1, <1>2, <1>3 DEF Begin, NumbersOK, Generated
<1>8. Placed'
  BY <1>2 DEF Begin, Placed, Position, Generated
<1> QED
  BY <1>4, <1>5, <1>6, <1>7, <1>8 DEF IInv

LEMMA RenumberInvariance ==
  ASSUME IInv, NEW k \in group, Renumber(k)
  PROVE  IInv'
<1> USE DEF inputs
<1>1. /\ k \in left /\ k \in Nat /\ k \in Generated
      /\ \A j \in left \cap Nat : k <= j
      /\ phase = "renumber" /\ phase' = "renumber"
      /\ first \in Nat /\ next \in Nat
      /\ left \subseteq group /\ group \subseteq Key
  BY DEF Renumber, Visited, IInv, TypeOK, Generated
<1>2. ~deps /\ ~deps'
  BY <1>1 DEF IInv, KeptIds, Renumber
<1>3. PICK n \in Nat : Generated = 0..(n - 1)
  BY DEF IInv, KeysOK
<1>4. first <= next /\ \A j \in Generated : j \in left <=> next - first <= j
  BY <1>1, <1>2 DEF IInv, NumbersOK
<1>5. k = next - first /\ next = first + k
  <2>1. next - first <= k
    BY <1>1, <1>4
  <2>2. next - first \in Generated
    BY <1>1, <1>3, <1>4, <2>1
  <2>3. next - first \in left \cap Nat
    BY <1>1, <1>4, <2>2
  <2> QED
    BY <1>1, <2>1, <2>3
<1>6. /\ DOMAIN map' = (DOMAIN map \ {k}) \cup {next}
      /\ map'[next] = map[k]
      /\ \A j \in DOMAIN map \ {k} : j # next => map'[j] = map[j]
      /\ left' = left \ {k} /\ next' = next + 1 /\ first' = first
      /\ UNCHANGED <<inputs, all, subs, job, faults, crashes, dropped>>
  BY <1>1 DEF Renumber
<1>7. k \in DOMAIN map /\ map[k] \in group
  BY <1>1, <1>2 DEF IInv, NumbersOK, TypeOK
<1>8. TypeOK'
  <2>1. DOMAIN map' \subseteq Key
    BY <1>1, <1>6 DEF IInv, TypeOK, Key
  <2>2. \A j \in DOMAIN map' : map'[j] \in group'
    BY <1>6, <1>7 DEF IInv, TypeOK
  <2>3. all' = << >> /\ DOMAIN subs' = {} /\ all' \in Seq(DOMAIN map')
    BY <1>1, <1>6 DEF IInv, KeysOK
  <2>4. left' \subseteq group' /\ first' \in Nat /\ next' \in Nat
    <3>1. group' = group /\ left \subseteq group /\ first \in Nat /\ next \in Nat
      BY <1>1, <1>6
    <3> QED
      BY <3>1, <1>6
  <2>5. /\ group' \subseteq Key /\ {deps', remapped', suffixed'} \subseteq BOOLEAN
        /\ others' \subseteq Nat /\ fits' \in Nat
        /\ faults' \in 0..MaxFaults /\ crashes' \in 0..MaxCrashes
        /\ dropped' \in BOOLEAN
    BY <1>6 DEF IInv, TypeOK
  <2>6. DOMAIN job' \subseteq Key /\ \A j \in DOMAIN job' : job'[j] \in group'
    BY <1>6 DEF IInv, TypeOK
  <2> QED
    BY <1>1, <2>1, <2>2, <2>3, <2>4, <2>5, <2>6 DEF TypeOK
<1>9. KeysOK'
  <2>1. Bounded({next})
    BY <1>1 DEF Bounded
  <2>2. Bounded(DOMAIN map')
    BY <1>6, <2>1, BoundedUnion DEF IInv, KeysOK
  <2> QED
    BY <1>1, <1>6, <2>2 DEF IInv, KeysOK, Generated, Bounded
<1>10. KeptIds'
  BY <1>2 DEF KeptIds
<1>11. NumbersOK'
  <2>1. \A j \in DOMAIN map' \cap Nat : j \in left' \/ first' <= j
    BY <1>1, <1>2, <1>4, <1>6 DEF IInv, NumbersOK
  <2>2. \A j \in Generated : j \in left' <=> next' - first' <= j
    <3> SUFFICES ASSUME NEW j \in Generated
                 PROVE  j \in left' <=> next' - first' <= j
      OBVIOUS
    <3>1. j \in Nat /\ (j \in left <=> next - first <= j)
      BY <1>3, <1>4
    <3>2. j \in left' <=> j \in left /\ j # k
      BY <1>6
    <3>3. k \in Nat /\ k = next - first /\ next' - first' = k + 1
      BY <1>1, <1>5, <1>6
    <3> QED
      BY <3>1, <3>2, <3>3
  <2>3. first' <= next' /\ left' \subseteq DOMAIN map'
    <3>1. first <= next + 1
      BY <1>1, <1>4
    <3>2. left \subseteq DOMAIN map
      BY <1>1, <1>2 DEF IInv, NumbersOK
    <3> QED
      BY <1>6, <3>1, <3>2
  <2>4. /\ \A j \in others' : j < first'
        /\ \A j \in DOMAIN job' \cap Nat : j < first'
    BY <1>1, <1>2, <1>6 DEF IInv, NumbersOK
  <2> QED
    BY <1>1, <1>6, <2>1, <2>2, <2>3, <2>4 DEF NumbersOK, Generated
<1>12. Placed'
  <2> SUFFICES ASSUME first = 0 \/ \A j \in Generated : j < first,
                      NEW t \in group
               PROVE  LET q == IF t \in Nat \ left' THEN first + t ELSE t
                      IN  q \in DOMAIN map' /\ map'[q] = t
    BY <1>1, <1>2, <1>6, Zenon DEF Placed, Position, Generated
  <2>1. \A j \in group : Position(j) \in DOMAIN map /\ map[Position(j)] = j
    BY <1>1, <1>2 DEF IInv, Placed
  <2>2. map[k] = k
    BY <1>1, <2>1 DEF Position
  <2>3. CASE t = k
    <3>1. t \in Nat \ left' /\ first + t = next
      BY <1>1, <1>5, <1>6, <2>3
    <3> QED
      BY <1>6, <2>2, <2>3, <3>1
  <2>4. CASE t \in left \ {k}
    <3>1. t \in left' /\ t \in DOMAIN map /\ map[t] = t
      BY <1>6, <2>1, <2>4 DEF Position
    <3>2. t # next
      BY <1>1, <1>4, <1>5, <2>4 DEF Generated
    <3> QED
      BY <1>6, <2>4, <3>1, <3>2
  <2>5. CASE t \in Nat \ left
    <3>1. first + t \in DOMAIN map /\ map[first + t] = t
      BY <2>1, <2>5 DEF Position
    <3>2. t < next - first
      BY <1>1, <1>4, <2>5 DEF Generated
    <3>3. first + t # next /\ first + t # k
      BY <1>1, <1>5, <2>5, <3>2
    <3> QED
      BY <1>6, <2>5, <3>1, <3>3
  <2>6. CASE t \notin Nat /\ t \notin left
    <3>1. t \in DOMAIN map /\ map[t] = t
      BY <2>1, <2>6 DEF Position
    <3>2. t # k /\ t # next
      BY <1>1, <2>6
    <3> QED
      BY <1>6, <2>6, <3>1, <3>2
  <2> QED
    BY <2>3, <2>4, <2>5, <2>6
<1> QED
  BY <1>8, <1>9, <1>10, <1>11, <1>12 DEF IInv

LEMMA KeepCustomInvariance ==
  ASSUME IInv, NEW k \in group, KeepCustom(k)
  PROVE  IInv'
<1> USE DEF inputs
<1>1. /\ k \in left /\ k \in Custom /\ k \notin Nat
      /\ phase = "renumber" /\ ~deps
      /\ left' = left \ {k}
      /\ UNCHANGED <<inputs, phase, first, next, map, all, subs, job, faults,
                     crashes, dropped>>
  BY TasksAssumption DEF KeepCustom, Visited, IInv, KeptIds
<1>2. TypeOK'
  BY <1>1 DEF IInv, TypeOK
<1>3. KeysOK'
  BY <1>1 DEF IInv, KeysOK, Generated, Bounded
<1>4. KeptIds'
  BY <1>1 DEF KeptIds
<1>5. NumbersOK'
  BY <1>1 DEF IInv, NumbersOK, Generated
<1>6. Placed'
  BY <1>1 DEF IInv, Placed, Position, Generated
<1> QED
  BY <1>2, <1>3, <1>4, <1>5, <1>6 DEF IInv

LEMMA RaiseInvariance == IInv /\ Raise => IInv'
<1> SUFFICES ASSUME IInv, Raise PROVE IInv'
  OBVIOUS
<1> USE DEF inputs, mapVars
<1>1. /\ phase = "renumber" /\ phase' = "idle"
      /\ UNCHANGED <<inputs, mapVars, all, subs, job, crashes, dropped>>
      /\ faults' = faults \/ (faults < MaxFaults /\ faults' = faults + 1)
  BY DEF Raise
<1>2. faults' \in 0..MaxFaults
  BY <1>1, TasksAssumption DEF IInv, TypeOK
<1>3. TypeOK'
  BY <1>1, <1>2 DEF IInv, TypeOK
<1>4. KeysOK'
  BY <1>1 DEF IInv, KeysOK, Generated, Bounded
<1>5. KeptIds'
  BY <1>1 DEF IInv, KeptIds
<1>6. NumbersOK' /\ Placed'
  BY <1>1 DEF NumbersOK, Placed
<1> QED
  BY <1>3, <1>4, <1>5, <1>6 DEF IInv

LEMMA StartThreadsInvariance == IInv /\ StartThreads => IInv'
<1> SUFFICES ASSUME IInv, StartThreads PROVE IInv'
  OBVIOUS
<1> USE DEF inputs, mapVars
<1> DEFINE n == Cardinality(DOMAIN map)
<1>1. /\ phase = "renumber" /\ left = {} /\ phase' = "submit"
      /\ all' = SetToSeq(DOMAIN map)
      /\ subs' = SubCollections(n)
      /\ UNCHANGED <<inputs, mapVars, job, faults, crashes, dropped>>
  BY DEF StartThreads
<1>2. n \in Nat /\ all' \in [1..n -> DOMAIN map]
  BY <1>1, FiniteKeys, SeqOfSet DEF IInv, TypeOK, KeysOK
<1>3. all' \in Seq(DOMAIN map') /\ Len(all') = n /\ DOMAIN all' = 1..n
  BY <1>1, <1>2
<1>4. DOMAIN subs' \subseteq Nat
  BY <1>1, <1>2 DEF SubCollections
<1>5. ASSUME NEW b \in DOMAIN subs'
      PROVE  /\ subs'[b] \in SubType
             /\ b <= subs'[b].start /\ subs'[b].start < subs'[b].end
             /\ subs'[b].end <= Len(all')
             /\ subs'[b].initial = subs'[b].end - b
             /\ subs'[b].slice \in 1..subs'[b].initial
             /\ subs'[b].retry \subseteq DOMAIN all'
  <2> HIDE DEF n
  <2>1. b \in 0..(n - 1)
    BY <1>1 DEF SubCollections
  <2> DEFINE e == IF b + Width > n THEN n ELSE b + Width
  <2>2. subs'[b] = Sub(b, e)
    BY <1>1 DEF SubCollections
  <2>3. e \in Nat /\ b < e /\ e <= n /\ b \in Nat
    BY <1>2, <2>1, TasksAssumption
  <2> HIDE DEF e
  <2>4. e - b \in Nat /\ e - b >= 1
    BY <2>3
  <2> QED
    BY <1>3, <2>2, <2>3, <2>4 DEF Sub, SubType
<1>6. TypeOK'
  BY <1>1, <1>3, <1>4, <1>5 DEF IInv, TypeOK
<1>7. KeysOK'
  BY <1>1 DEF IInv, KeysOK, Generated, Bounded
<1>8. KeptIds'
  BY <1>1 DEF IInv, KeptIds
<1>9. NumbersOK'
  <2>1. ASSUME ~deps, NEW k \in DOMAIN job \cap DOMAIN map \cap Nat
        PROVE  FALSE
    <3>1. k < first /\ first <= k
      BY <1>1, <2>1 DEF IInv, NumbersOK
    <3>2. k \in Nat /\ first \in Nat
      BY DEF IInv, TypeOK
    <3> QED
      BY <3>1, <3>2
  <2> QED
    BY <1>1, <2>1 DEF IInv, NumbersOK, Generated
<1>10. Placed'
  BY <1>1 DEF IInv, Placed, Position, Generated
<1> QED
  BY <1>6, <1>7, <1>8, <1>9, <1>10 DEF IInv

LEMMA AddChunkInvariance ==
  ASSUME IInv, NEW i \in DOMAIN subs, AddChunk(i)
  PROVE  IInv'
<1> DEFINE s == subs[i]
           I == Chunk(s)
<1>1. i \in Nat /\ SubOK(i, s) /\ TypeOK
  BY DEF IInv, TypeOK, SubOK
<1>2. /\ I \in SUBSET DOMAIN all
      /\ SubOK(i, Advance(s)) /\ SubOK(i, Halve(s))
  BY <1>1, ThreadStep
<1>3. phase = "submit" /\ UNCHANGED <<inputs, phase, mapVars, all, crashes>>
  BY DEF AddChunk
<1>4. ASSUME NEW t, SubOK(i, t), subs' = [subs EXCEPT ![i] = t], UNCHANGED job,
             faults' \in 0..MaxFaults, dropped' \in BOOLEAN
      PROVE  IInv'
  <2>1. DOMAIN subs' = DOMAIN subs /\ \A j \in DOMAIN subs : SubOK(j, subs'[j])
    BY <1>4 DEF IInv, TypeOK, SubOK
  <2> QED
    BY <1>3, <1>4, <2>1, ThreadInvariance
<1>5. CASE /\ subs' = [subs EXCEPT ![i] = Halve(@)]
           /\ UNCHANGED <<job, faults, dropped>>
  <2>1. faults' \in 0..MaxFaults /\ dropped' \in BOOLEAN
    BY <1>1, <1>5 DEF TypeOK
  <2> QED
    BY <1>2, <1>4, <1>5, <2>1
<1>6. CASE Request(i, I) \/ RequestRaises(i, I)
  BY <1>2, <1>3, <1>6, RequestInvariance
<1>7. CASE /\ faults < MaxFaults /\ faults' = faults + 1
           /\ subs' = [subs EXCEPT ![i] = Advance(@)]
           /\ dropped' = TRUE
           /\ UNCHANGED job
  <2>1. faults' \in 0..MaxFaults /\ dropped' \in BOOLEAN
    BY <1>1, <1>7, TasksAssumption DEF TypeOK
  <2> QED
    BY <1>2, <1>4, <1>7, <2>1
<1> QED
  BY <1>5, <1>6, <1>7 DEF AddChunk

LEMMA RetryFailedInvariance ==
  ASSUME IInv, NEW i \in DOMAIN subs, RetryFailed(i)
  PROVE  IInv'
<1>1. subs[i].retry \in SUBSET DOMAIN all
  BY DEF IInv, TypeOK
<1>2. phase = "submit" /\ UNCHANGED <<inputs, phase, mapVars, all, crashes>>
  BY DEF RetryFailed
<1> QED
  BY <1>1, <1>2, RequestInvariance DEF RetryFailed

LEMMA EndSubmissionInvariance == IInv /\ EndSubmission => IInv'
<1> SUFFICES ASSUME IInv, EndSubmission PROVE IInv'
  OBVIOUS
<1> USE DEF inputs, mapVars
<1>1. /\ phase = "submit" /\ phase' = "done"
      /\ UNCHANGED <<inputs, mapVars, all, subs, job, faults, crashes, dropped>>
  BY DEF EndSubmission
<1>2. TypeOK'
  BY <1>1 DEF IInv, TypeOK
<1>3. KeysOK'
  BY <1>1 DEF IInv, KeysOK, Generated, Bounded
<1>4. KeptIds'
  BY <1>1 DEF IInv, KeptIds
<1>5. NumbersOK'
  BY <1>1 DEF IInv, NumbersOK, Generated
<1>6. Placed'
  BY <1>1 DEF IInv, Placed, Position, Generated
<1> QED
  BY <1>2, <1>3, <1>4, <1>5, <1>6 DEF IInv

LEMMA CrashInvariance == IInv /\ Crash => IInv'
<1> SUFFICES ASSUME IInv, Crash PROVE IInv'
  OBVIOUS
<1> USE DEF inputs
<1>1. /\ phase' = "idle" /\ left' = {} /\ first' = 0 /\ next' = 0
      /\ DOMAIN map' = {} /\ all' = << >> /\ DOMAIN subs' = {}
      /\ UNCHANGED <<inputs, job, faults, dropped>>
  BY DEF Crash
<1>2. crashes' \in 0..MaxCrashes
  BY TasksAssumption DEF Crash, IInv, TypeOK
<1>3. TypeOK'
  BY <1>1, <1>2 DEF IInv, TypeOK
<1>4. KeysOK'
  BY <1>1 DEF IInv, KeysOK, Generated, Bounded
<1>5. KeptIds'
  BY <1>1 DEF IInv, KeptIds
<1>6. NumbersOK' /\ Placed'
  BY <1>1 DEF NumbersOK, Placed
<1> QED
  BY <1>3, <1>4, <1>5, <1>6 DEF IInv

LEMMA StutterInvariance == IInv /\ UNCHANGED vars => IInv'
<1> SUFFICES ASSUME IInv, UNCHANGED vars PROVE IInv'
  OBVIOUS
<1> USE DEF vars, inputs, mapVars
<1>1. TypeOK'
  BY DEF IInv, TypeOK
<1>2. KeysOK'
  BY DEF IInv, KeysOK, Generated, Bounded
<1>3. KeptIds' /\ NumbersOK'
  BY DEF IInv, KeptIds, NumbersOK, Generated
<1>4. Placed'
  BY DEF IInv, Placed, Position, Generated
<1> QED
  BY <1>1, <1>2, <1>3, <1>4 DEF IInv

LEMMA Invariance == Spec => []IInv
<1>1. Init => IInv
  BY InitInvariant
<1>2. IInv /\ [Next]_vars => IInv'
  <2> SUFFICES ASSUME IInv, [Next]_vars PROVE IInv'
    OBVIOUS
  <2>1. CASE Begin
    BY <2>1, BeginInvariance
  <2>2. CASE StartThreads
    BY <2>2, StartThreadsInvariance
  <2>3. CASE EndSubmission
    BY <2>3, EndSubmissionInvariance
  <2>4. CASE Raise
    BY <2>4, RaiseInvariance
  <2>5. CASE \E k \in group : Renumber(k) \/ KeepCustom(k)
    BY <2>5, RenumberInvariance, KeepCustomInvariance
  <2>6. CASE \E i \in DOMAIN subs : AddChunk(i) \/ RetryFailed(i)
    BY <2>6, AddChunkInvariance, RetryFailedInvariance
  <2>7. CASE Crash
    BY <2>7, CrashInvariance
  <2>8. CASE UNCHANGED vars
    BY <2>8, StutterInvariance
  <2> QED
    BY <2>1, <2>2, <2>3, <2>4, <2>5, <2>6, <2>7, <2>8 DEF Next, Act
<1> QED
  BY <1>1, <1>2, PTL DEF Spec

\* Every reachable state is well typed: no thread leaves its part of the list of
\* tasks, however often a slice is halved.
THEOREM TasksTypeCorrect == Spec => []TypeOK
<1>1. IInv => TypeOK
  BY DEF IInv
<1> QED
  BY <1>1, Invariance, PTL

\* The numbers that regenerate_next_generic_task_id gives out are not in use,
\* whatever tasks the job has and however often the action is executed again.
THEOREM NumbersAreFree == Spec => []NoCollision
<1>1. IInv => NoCollision
  <2> SUFFICES ASSUME IInv, phase = "submit", NEW k \in DOMAIN map \cap Nat
               PROVE  /\ deps \/ k \notin others
                      /\ k \in DOMAIN job => job[k] = map[k]
    BY DEF NoCollision
  <2>1. CASE deps
    BY <2>1 DEF IInv, KeptIds
  <2>2. CASE ~deps
    <3>1. left = {} /\ first \in Nat /\ others \subseteq Nat
      BY DEF IInv, KeysOK, TypeOK
    <3>2. first <= k /\ \A j \in others : j < first
      BY <2>2, <3>1 DEF IInv, NumbersOK
    <3>3. k \notin others
      BY <3>1, <3>2
    <3> QED
      BY <2>2, <3>3 DEF IInv, NumbersOK
  <2> QED
    BY <2>1, <2>2
<1> QED
  BY <1>1, Invariance, PTL

\* schedule_tasks loses no task of a group that is renumbered to numbers above its
\* own, or not at all.
THEOREM RenumberingKeepsTasks == Spec => []NothingLost
<1>1. IInv => NothingLost
  <2> SUFFICES ASSUME IInv, phase # "idle",
                      \/ deps
                      \/ first = 0
                      \/ \A k \in Generated : k < first,
                      NEW t \in group
               PROVE  \E k \in DOMAIN map : map[k] = t
    BY DEF NothingLost
  <2>1. CASE deps
    BY <2>1 DEF IInv, KeptIds
  <2>2. CASE ~deps
    <3>1. Position(t) \in DOMAIN map /\ map[Position(t)] = t
      BY <2>2 DEF IInv, Placed
    <3> QED
      BY <3>1
  <2> QED
    BY <2>1, <2>2
<1> QED
  BY <1>1, Invariance, PTL

(***************************************************************************)
(* What is reported as submitted.                                          *)
(***************************************************************************)

InJob(k) == k \in DOMAIN job /\ job[k] = map[k]

\* The tasks that a thread with no error so far has behind it.
Submitted(b, s) ==
  {i \in Nat : \/ s.pc = "call" /\ b < i /\ i <= s.start
               \/ s.pc = "retry" /\ b < i /\ i <= ChunkEnd(s) /\ i \notin s.retry
               \/ s.pc = "ended" /\ b < i /\ i <= s.end}

ThreadHonest(b, s) ==
  s.ret /\ ~dropped => \A i \in Submitted(b, s) : InJob(all[i])

\* The threads share out all tasks, and none is over-optimistic.
ReportOK ==
  /\ phase \in {"submit", "done"} =>
       /\ \A k \in DOMAIN map : \E i \in DOMAIN all : all[i] = k
       /\ \A i \in DOMAIN all : \E b \in DOMAIN subs : b < i /\ i <= subs[b].end
  /\ phase = "done" => \A b \in DOMAIN subs : subs[b].pc \in {"ended", "raised"}
  /\ \A b \in DOMAIN subs : ThreadHonest(b, subs[b])

LEMMA Blocks ==
  ASSUME NEW a \in Nat
  PROVE  /\ a % Width \in 0..(Width - 1) /\ a % Width <= a
         /\ (a - (a % Width)) % Width = 0
<1>1. Width \in Nat /\ Width > 0
  BY TasksAssumption
<1>2. a % Width \in 0..(Width - 1)
  BY <1>1
<1> DEFINE q == a \div Width
<1>3. q \in Nat /\ a = Width * q + (a % Width)
  BY <1>1
<1>4. a - (a % Width) = Width * q
  BY <1>2, <1>3, <1>1
<1>5. (Width * q) % Width = 0
  BY <1>1, <1>3
<1> QED
  BY <1>1, <1>2, <1>3, <1>4, <1>5

LEMMA SeqOfSetIsOnto ==
  ASSUME NEW S, IsFiniteSet(S)
  PROVE  \A k \in S : \E i \in 1..Cardinality(S) : SetToSeq(S)[i] = k
<1> DEFINE n == Cardinality(S)
           f == SetToSeq(S)
<1>1. n \in Nat /\ ExistsBijection(1..n, S)
  BY FS_CardinalityType
<1>2. \E g \in [1..n -> S] : IsInjective(g)
  BY <1>1 DEF ExistsBijection, Bijection, Injection
<1>3. f \in [1..n -> S] /\ IsInjective(f)
  BY <1>2 DEF SetToSeq
<1>4. f \in Injection(1..n, S)
  BY <1>3 DEF Injection
<1>5. Cardinality(1..n) = n
  BY <1>1, FS_Interval
<1>6. f \in Surjection(1..n, S)
  BY <1>4, <1>5, FS_Injection
<1> QED
  BY <1>6 DEF Surjection

LEMMA StartThreadsShares == IInv /\ ReportOK /\ StartThreads => ReportOK'
<1> SUFFICES ASSUME IInv, ReportOK, StartThreads PROVE ReportOK'
  OBVIOUS
<1> USE DEF mapVars
<1> DEFINE n == Cardinality(DOMAIN map)
<1>1. /\ phase' = "submit" /\ all' = SetToSeq(DOMAIN map)
      /\ subs' = SubCollections(n) /\ map' = map
  BY DEF StartThreads
<1>2. IsFiniteSet(DOMAIN map)
  BY FiniteKeys DEF IInv, TypeOK, KeysOK
<1>3. n \in Nat /\ DOMAIN all' = 1..n
  BY <1>1, <1>2, SeqOfSet
<1>4. \A k \in DOMAIN map' : \E i \in DOMAIN all' : all'[i] = k
  BY <1>1, <1>2, <1>3, SeqOfSetIsOnto
<1> HIDE DEF n
<1>5. \A b \in DOMAIN subs' :
        /\ b \in 0..(n - 1) /\ b % Width = 0
        /\ subs'[b] = Sub(b, IF b + Width > n THEN n ELSE b + Width)
  BY <1>1 DEF SubCollections
<1>6. ASSUME NEW i \in DOMAIN all'
      PROVE  \E b \in DOMAIN subs' : b < i /\ i <= subs'[b].end
  <2> DEFINE r == (i - 1) % Width
             b == i - 1 - r
  <2>1. i \in Nat /\ i - 1 \in Nat /\ i <= n
    BY <1>3
  <2>2. r \in 0..(Width - 1) /\ r <= i - 1 /\ b % Width = 0
    BY <2>1, Blocks
  <2> HIDE DEF r
  <2>3. b \in 0..(n - 1) /\ b < i /\ i <= b + Width
    BY <2>1, <2>2, <1>3, TasksAssumption, SMTT(30)
  <2> HIDE DEF b
  <2>4. b \in DOMAIN subs'
    BY <1>1, <2>2, <2>3 DEF SubCollections
  <2>5. subs'[b].end = IF b + Width > n THEN n ELSE b + Width
    BY <1>5, <2>4 DEF Sub
  <2> QED
    BY <2>1, <2>3, <2>4, <2>5
<1>7. ASSUME NEW b \in DOMAIN subs'
      PROVE  Submitted(b, subs'[b]) = {}
  <2>1. subs'[b].pc = "call" /\ subs'[b].start = b /\ b \in Nat
    BY <1>3, <1>5 DEF Sub
  <2> QED
    BY <2>1 DEF Submitted
<1>8. \A b \in DOMAIN subs' : ThreadHonest(b, subs[b])'
  BY <1>7 DEF ThreadHonest
<1> QED
  BY <1>1, <1>4, <1>6, <1>8 DEF ReportOK

\* A thread that goes on honestly keeps the others honest.
LEMMA ThreadReport ==
  ASSUME IInv, ReportOK, phase = "submit", NEW i \in DOMAIN subs, NEW t,
         UNCHANGED <<phase, map, all>>,
         subs' = [subs EXCEPT ![i] = t], t.end = subs[i].end,
         \A k \in DOMAIN job : k \in DOMAIN job' /\ job'[k] = job[k],
         dropped' \/ ~dropped,
         t.ret /\ ~dropped' => \A j \in Submitted(i, t) : InJob(all[j])'
  PROVE  ReportOK'
<1>1. DOMAIN subs' = DOMAIN subs /\ \A b \in DOMAIN subs : subs'[b].end = subs[b].end
  OBVIOUS
<1>2. \A k : InJob(k) => InJob(k)'
  BY DEF InJob
<1>3. ASSUME NEW b \in DOMAIN subs'
      PROVE  ThreadHonest(b, subs[b])'
  <2>1. CASE b = i
    BY <2>1 DEF ThreadHonest
  <2>2. CASE b # i
    <3>1. subs'[b] = subs[b] /\ ThreadHonest(b, subs[b])
      BY <1>1, <2>2 DEF ReportOK
    <3>2. dropped => dropped'
      OBVIOUS
    <3> QED
      BY <1>2, <3>1, <3>2 DEF ThreadHonest
  <2> QED
    BY <2>1, <2>2
<1> QED
  BY <1>1, <1>3 DEF ReportOK

LEMMA RequestReport ==
  ASSUME IInv, ReportOK, phase = "submit", NEW i \in DOMAIN subs,
         subs[i].pc \in {"call", "retry"},
         NEW I \in SUBSET DOMAIN all,
         I = IF subs[i].pc = "call" THEN Chunk(subs[i]) ELSE subs[i].retry,
         UNCHANGED <<phase, map, all>>,
         Request(i, I) \/ RequestRaises(i, I)
  PROVE  ReportOK'
<1> DEFINE s == subs[i]
<1>1. i \in Nat /\ SubOK(i, s) /\ TypeOK
  BY DEF IInv, TypeOK, SubOK
<1>2. CASE Request(i, I)
  <2>1. PICK B \in SUBSET I : \E D \in SUBSET B :
          /\ Added(I, B, D)
          /\ subs' = [subs EXCEPT ![i] = Results(@, I, B)]
          /\ UNCHANGED dropped
    BY <1>2 DEF Request
  <2>2. PICK D \in SUBSET B : Added(I, B, D)
    BY <2>1
  <2> DEFINE t == Results(s, I, B)
             new == {all[j] : j \in {j \in (I \ B) \cup D : ~Taken(all[j])}}
  <2>3. subs' = [subs EXCEPT ![i] = t] /\ dropped' = dropped
    BY <2>1
  <2>4. job' = [k \in DOMAIN job \cup new |->
                  IF k \in DOMAIN job THEN job[k] ELSE map[k]]
    BY <2>2 DEF Added
  <2>5. \A k \in DOMAIN job : k \in DOMAIN job' /\ job'[k] = job[k]
    BY <2>4
  <2> DEFINE good == s.ret /\ \A j \in I \ B : ~Taken(all[j])
             u == [s EXCEPT !.ret = good]
  <2>6. t = IF B = {} THEN Advance(u)
            ELSE [u EXCEPT !.pc = IF remapped THEN "raised" ELSE "retry", !.retry = B]
    BY DEF Results
  <2>7. /\ u.ret = good /\ u.end = s.end /\ u.start = s.start /\ u.slice = s.slice
        /\ u.pc = s.pc
        /\ ChunkEnd(u) = ChunkEnd(s)
        /\ DOMAIN u = {"pc", "start", "end", "slice", "initial", "retry", "ret"}
    BY <1>1 DEF SubOK, SubType, ChunkEnd
  <2>8. t.end = s.end /\ t.ret = good
    BY <2>6, <2>7, ZenonT(40) DEF Advance
  <2>9. ASSUME good, ~dropped, NEW j \in Submitted(i, t)
        PROVE  InJob(all[j])'
    <3>1. j \in Nat /\ i < j /\ j <= ChunkEnd(s) /\ j \notin B
      <4> HIDE DEF u, good
      <4>1. CASE B = {} /\ ChunkEnd(s) = s.end
        <5>1. t.pc = "ended" /\ t.end = s.end
          BY <2>6, <2>7, <4>1 DEF Advance
        <5> QED
          BY <2>9, <4>1, <5>1 DEF Submitted
      <4>2. CASE B = {} /\ ChunkEnd(s) # s.end
        <5>1. t.pc = "call" /\ t.start = ChunkEnd(s)
          <6>1. t = Advance(u) /\ ChunkEnd(u) # u.end
            BY <2>6, <2>7, <4>2
          <6>2. t = [u EXCEPT !.pc = "call", !.retry = {}, !.start = ChunkEnd(u),
                              !.slice = u.initial]
            BY <6>1 DEF Advance
          <6> HIDE DEF t
          <6> QED
            BY <2>7, <6>2
        <5> QED
          BY <2>9, <4>2, <5>1 DEF Submitted
      <4>3. CASE B # {}
        <5>1. /\ t.pc \in {"raised", "retry"} /\ t.retry = B
              /\ t.end = s.end /\ t.start = s.start /\ t.slice = s.slice
          BY <2>6, <2>7, <4>3
        <5>2. ChunkEnd(t) = ChunkEnd(s)
          BY <5>1 DEF ChunkEnd
        <5> HIDE DEF t
        <5> QED
          BY <2>9, <5>1, <5>2 DEF Submitted
      <4> QED
        BY <4>1, <4>2, <4>3
    <3>2. CASE j \in I
      <4>1. ~Taken(all[j]) /\ all[j] \in new
        BY <2>9, <3>1, <3>2
      <4>2. all[j] \notin DOMAIN job
        BY <4>1 DEF Taken
      <4> HIDE DEF new
      <4> QED
        BY <2>4, <4>1, <4>2 DEF InJob
    <3>3. CASE j \notin I
      <4>1. j \in Submitted(i, s)
        BY <1>1, <3>1, <3>3 DEF Submitted, Chunk, SubOK, SubType
      <4>2. InJob(all[j])
        BY <2>9, <4>1 DEF ReportOK, ThreadHonest
      <4> QED
        BY <2>5, <4>2 DEF InJob
    <3> QED
      BY <3>2, <3>3
  <2> HIDE DEF t, good
  <2> QED
    BY <2>3, <2>5, <2>8, <2>9, ThreadReport
<1>3. CASE RequestRaises(i, I)
  <2> DEFINE t == [s EXCEPT !.pc = "raised"]
  <2>1. subs' = [subs EXCEPT ![i] = t] /\ dropped' = dropped
    BY <1>3 DEF RequestRaises
  <2>2. t.end = s.end /\ t.pc = "raised"
    BY <1>1 DEF SubOK, SubType
  <2>3. \A k \in DOMAIN job : k \in DOMAIN job' /\ job'[k] = job[k]
    BY <1>3 DEF RequestRaises, Added
  <2>4. Submitted(i, t) = {}
    BY <2>2 DEF Submitted
  <2> HIDE DEF t
  <2> QED
    BY <2>1, <2>2, <2>3, <2>4, ThreadReport
<1> QED
  BY <1>2, <1>3

LEMMA AddChunkReport ==
  ASSUME IInv, ReportOK, NEW i \in DOMAIN subs, AddChunk(i)
  PROVE  ReportOK'
<1> DEFINE s == subs[i]
<1>1. i \in Nat /\ SubOK(i, s) /\ TypeOK
  BY DEF IInv, TypeOK, SubOK
<1>2. /\ phase = "submit" /\ s.pc = "call"
      /\ UNCHANGED <<phase, map, all>>
  BY DEF AddChunk, mapVars
<1>3. CASE Request(i, Chunk(s)) \/ RequestRaises(i, Chunk(s))
  BY <1>1, <1>2, <1>3, ThreadStep, RequestReport
<1>4. CASE /\ subs' = [subs EXCEPT ![i] = Halve(@)]
           /\ UNCHANGED <<job, faults, dropped>>
  <2>1. Halve(s).end = s.end /\ Halve(s).ret = s.ret
    BY <1>1 DEF Halve, SubOK, SubType
  <2>2. Submitted(i, Halve(s)) \subseteq Submitted(i, s)
    BY <1>1, <1>2 DEF Submitted, Halve, SubOK, SubType
  <2>3. ThreadHonest(i, s)
    BY DEF ReportOK
  <2>4. Halve(s).ret /\ ~dropped' =>
          \A j \in Submitted(i, Halve(s)) : InJob(all[j])'
    BY <1>2, <1>4, <2>1, <2>2, <2>3 DEF ThreadHonest, InJob
  <2> QED
    BY <1>2, <1>4, <2>1, <2>4, ThreadReport
<1>5. CASE /\ subs' = [subs EXCEPT ![i] = Advance(@)]
           /\ dropped' = TRUE
           /\ UNCHANGED job
  <2>1. Advance(s).end = s.end
    BY <1>1 DEF Advance, SubOK, SubType
  <2> QED
    BY <1>2, <1>5, <2>1, ThreadReport
<1> QED
  BY <1>3, <1>4, <1>5 DEF AddChunk

LEMMA RetryFailedReport ==
  ASSUME IInv, ReportOK, NEW i \in DOMAIN subs, RetryFailed(i)
  PROVE  ReportOK'
<1>1. /\ phase = "submit" /\ subs[i].pc = "retry"
      /\ UNCHANGED <<phase, map, all>>
      /\ subs[i].retry \in SUBSET DOMAIN all
  BY DEF RetryFailed, mapVars, IInv, TypeOK
<1> QED
  BY <1>1, RequestReport DEF RetryFailed

LEMMA ReportInvariance == Spec => []ReportOK
<1>1. Init => ReportOK
  BY DEF Init, ReportOK
<1>2. IInv /\ ReportOK /\ [Next]_vars => ReportOK'
  <2> SUFFICES ASSUME IInv, ReportOK, [Next]_vars PROVE ReportOK'
    OBVIOUS
  <2>1. ASSUME DOMAIN subs' = {}, phase' \in {"idle", "renumber"}
        PROVE  ReportOK'
    BY <2>1 DEF ReportOK
  <2>2. phase \in {"idle", "renumber"} => DOMAIN subs = {}
    BY DEF IInv, KeysOK
  <2>3. CASE Begin
    BY <2>1, <2>2, <2>3 DEF Begin
  <2>4. CASE Raise
    BY <2>1, <2>2, <2>4 DEF Raise
  <2>5. CASE \E k \in group : Renumber(k) \/ KeepCustom(k)
    BY <2>1, <2>2, <2>5 DEF Renumber, KeepCustom
  <2>6. CASE Crash
    BY <2>1, <2>6 DEF Crash
  <2>7. CASE StartThreads
    BY <2>7, StartThreadsShares
  <2>8. CASE \E i \in DOMAIN subs : AddChunk(i) \/ RetryFailed(i)
    BY <2>8, AddChunkReport, RetryFailedReport
  <2>9. CASE EndSubmission
    <3>1. \A b \in DOMAIN subs : ThreadHonest(b, subs[b]) => ThreadHonest(b, subs[b])'
      BY <2>9 DEF EndSubmission, ThreadHonest, InJob, mapVars
    <3> QED
      BY <2>9, <3>1 DEF EndSubmission, ReportOK, mapVars
  <2>10. CASE UNCHANGED vars
    <3>1. \A b \in DOMAIN subs : ThreadHonest(b, subs[b]) => ThreadHonest(b, subs[b])'
      BY <2>10 DEF vars, ThreadHonest, InJob, mapVars
    <3> QED
      BY <2>10, <3>1 DEF vars, ReportOK, mapVars
  <2> QED
    BY <2>3, <2>4, <2>5, <2>6, <2>7, <2>8, <2>9, <2>10 DEF Next, Act
<1> QED
  BY <1>1, <1>2, Invariance, PTL DEF Spec

\* If add_task_collection reports no error and no chunk was passed over, all tasks
\* of task_map are in the job, for every slice width, every size of the group and
\* of a request, and all interleavings of the threads.
THEOREM ReportsAreTrue == Spec => []ReportTrue
<1>1. IInv /\ ReportOK => ReportTrue
  <2> SUFFICES ASSUME IInv, ReportOK, phase = "done", ~Errors, ~dropped,
                      NEW k \in DOMAIN map
               PROVE  k \in DOMAIN job /\ job[k] = map[k]
    BY DEF ReportTrue
  <2>1. PICK i \in DOMAIN all : all[i] = k
    BY DEF ReportOK
  <2>2. PICK b \in DOMAIN subs : b < i /\ i <= subs[b].end
    BY <2>1 DEF ReportOK
  <2>3. subs[b].pc = "ended" /\ subs[b].ret
    BY <2>2 DEF ReportOK, Errors
  <2>4. i \in Nat
    BY <2>1 DEF IInv, TypeOK
  <2>5. i \in Submitted(b, subs[b])
    BY <2>2, <2>3, <2>4 DEF Submitted
  <2> QED
    BY <2>1, <2>3, <2>5 DEF ReportOK, ThreadHonest, InJob
<1> QED
  BY <1>1, Invariance, ReportInvariance, PTL
=============================================================================
