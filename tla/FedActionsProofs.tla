--------------------------- MODULE FedActionsProofs ---------------------------
(***************************************************************************)
(* Proofs about the action pipeline, for every set of jobs, actions and    *)
(* proxies and every number of faults: types; the order of executions; no  *)
(* action is lost; the pipeline implements JobActionQueue; job ids stay    *)
(* unique.  Each part names its invariant and builds on the ones before.   *)
(***************************************************************************)
EXTENDS FedActions, SequenceTheorems, TLAPS

(***************************************************************************)
(* Types.  TypeOK is not inductive alone: the guards of a proxy's steps    *)
(* look up the job of cur and head, so these must be actions while pc says *)
(* that the proxy works on a message.                                      *)
(***************************************************************************)
Busy == {"get", "exec", "clean", "pop", "write", "ack"}

WorkTyped ==
  \A p \in Proxy :
    /\ pc[p] \in Busy => cur[p] \in Uid
    /\ pc[p] \in Busy \ {"ack"} => head[p] \in Uid
    /\ pc[p] = "write" => snap[p] # <<>>

TypeInv == TypeOK /\ WorkTyped

\* The types of the variables only a proxy's work changes, after a Leave.
LEMMA LeaveType ==
  ASSUME TypeOK, NEW p \in Proxy, NEW rest \in SUBSET Uid, NEW l \in Labels,
         Leave(p, rest, l)
  PROVE  /\ pc' \in [Proxy -> Labels]
         /\ batch' \in [Proxy -> SUBSET Uid]
         /\ cur' \in [Proxy -> Uid \cup {NoUid}]
         /\ head' \in [Proxy -> Uid \cup {NoUid}]
         /\ ack' \in [Proxy -> BOOLEAN]
         /\ snap' \in [Proxy -> Seq(Uid)]
<1>1. <<>> \in Seq(Uid)
  OBVIOUS
<1> QED
  BY <1>1 DEF TypeOK, Leave, Goto

LEMMA FaultType == ASSUME TypeOK, Fault PROVE faults' \in 0..MaxFaults
BY ConstantsAssumption DEF TypeOK, Fault

LEMMA InitType == Init => TypeOK
<1>1. <<>> \in Seq(Uid)
  OBVIOUS
<1> QED
  BY <1>1, ConstantsAssumption DEF Init, TypeOK, Stages, Labels

\* The steps of the submitting commands keep the types.
LEMMA SubmitType ==
  ASSUME TypeOK, NEW u \in Uid, Submit(u) \/ PutFails(u) \/ Zap(u)
  PROVE  TypeOK'
<1> USE DEF clientVars, storeVars, proxyVars, lockVars, histVars
<1>1. JobOf[u] \in Job
  BY ConstantsAssumption
<1>2. CASE Upload(u)
  BY <1>2 DEF TypeOK, Stages, Upload, Stage
<1>3. CASE ReadSequence(u)
  BY <1>3, ZenonT(40) DEF TypeOK, Stages, ReadSequence, RollBack, Stage
<1>4a. ASSUME NEW s, RollBack(u, s)
       PROVE  blob' \subseteq Uid /\ voided' \subseteq Uid
  BY <1>4a DEF TypeOK, RollBack
<1>4. CASE Upsert(u)
  <2>1. Append(seqs[JobOf[u]], u) \in Seq(Uid)
    BY <1>1, AppendProperties DEF TypeOK
  <2>2. seqs' \in [Job -> Seq(Uid)]
    BY <1>1, <1>4, <2>1 DEF TypeOK, Upsert
  <2>3. entity' \subseteq Job
    BY <1>1, <1>4 DEF TypeOK, Upsert
  <2>4. client' \in [Uid -> Stages] /\ blob' \subseteq Uid /\ voided' \subseteq Uid
    <3>1. client' \in [Uid -> Stages]
      BY <1>4 DEF TypeOK, Stages, Upsert, RollBack, Stage
    <3>2. blob' \subseteq Uid /\ voided' \subseteq Uid
      BY <1>4, <1>4a DEF TypeOK, Upsert
    <3> QED
      BY <3>1, <3>2
  <2> QED
    BY <1>4, <2>2, <2>3, <2>4 DEF TypeOK, Upsert
<1>5. CASE PutMessage(u)
  BY <1>5 DEF TypeOK, Stages, PutMessage, Stage
<1>6. CASE PutFails(u)
  <2>1. faults' \in 0..MaxFaults
    BY <1>6, FaultType DEF PutFails
  <2> QED
    BY <1>6, <2>1 DEF TypeOK, Stages, PutFails, RollBack, Stage
<1>7. CASE Zap(u)
  BY <1>7 DEF TypeOK, Zap
<1> QED
  BY <1>2, <1>3, <1>4, <1>5, <1>6, <1>7 DEF Submit

\* A step that leaves the proxy out of every message keeps WorkTyped.
LEMMA LeaveWork ==
  ASSUME TypeInv, NEW p \in Proxy, NEW rest, NEW l \in {"idle", "down"},
         Leave(p, rest, l)
  PROVE  WorkTyped'
BY DEF TypeInv, TypeOK, WorkTyped, Busy, Leave, Goto

\* What an action may leave in the location table.
LEMMA LocatedType ==
  ASSUME TypeOK, NEW h \in Uid, NEW L \in LocatedAfter(h)
  PROVE  L \in [Job -> SUBSET Uid]
<1>1. MethodOf[h] \in Method /\ JobOf[h] \in Job
  BY ConstantsAssumption
<1>2. located[JobOf[h]] \subseteq Uid
  BY <1>1 DEF TypeOK
<1>3. \E s \in SUBSET Uid : L = [located EXCEPT ![JobOf[h]] = s]
  BY <1>1, <1>2 DEF LocatedAfter, Method
<1> QED
  BY <1>3 DEF TypeOK

\* The steps of the lease and of the process keep the types.
LEMMA LockType ==
  ASSUME TypeInv, NEW p \in Proxy,
         \/ AcquireLease(p) \/ RenewFails(p) \/ LeaseExpires
         \/ Crash(p) \/ Restart(p) \/ LockLost(p)
  PROVE  TypeInv'
<1> USE DEF clientVars, storeVars, proxyVars, lockVars, histVars
<1>1. CASE AcquireLease(p)
  BY <1>1 DEF TypeInv, WorkTyped, TypeOK, AcquireLease
<1>2. CASE RenewFails(p)
  BY <1>2, FaultType DEF TypeInv, WorkTyped, TypeOK, RenewFails
<1>3. CASE LeaseExpires
  BY <1>3 DEF TypeInv, WorkTyped, TypeOK, LeaseExpires
<1>4. CASE Crash(p)
  <2>1. faults' \in 0..MaxFaults
    BY <1>4, FaultType DEF Crash, TypeInv
  <2>2. located' \in [Job -> SUBSET Uid]
    <3>1. CASE pc[p] = "exec"
      BY <1>4, <3>1, LocatedType DEF TypeInv, TypeOK, WorkTyped, Busy, Crash
    <3>2. CASE pc[p] # "exec"
      BY <1>4, <3>2 DEF TypeInv, TypeOK, Crash
    <3> QED
      BY <3>1, <3>2
  <2>3. WorkTyped'
    BY <1>4, LeaveWork DEF Crash
  <2> QED
    BY <1>4, <2>1, <2>2, <2>3, LeaveType DEF TypeInv, TypeOK, Crash, Labels
<1>5. CASE Restart(p)
  BY <1>5 DEF TypeInv, TypeOK, WorkTyped, Busy, Restart, Goto, Labels
<1>6. CASE LockLost(p)
  BY <1>6, LeaveType, LeaveWork
     DEF TypeInv, TypeOK, LockLost, Abort, Labels
<1> QED
  BY <1>1, <1>2, <1>3, <1>4, <1>5, <1>6

\* The steps that handle a message keep the types.
LEMMA HandleType ==
  ASSUME TypeInv, NEW p \in Proxy,
         \/ \E u \in Uid : ReadHead(p, u)
         \/ GetBlob(p) \/ Execute(p) \/ Block(p) \/ ExecuteRaises(p)
         \/ DeleteBlob(p) \/ PopRead(p) \/ PopWrite(p) \/ DeleteMessage(p)
         \/ \E ms \in SUBSET queue : Fetch(p, ms)
  PROVE  TypeInv'
<1> USE DEF clientVars, storeVars, proxyVars, lockVars, histVars
<1>1. CASE \E u \in Uid : ReadHead(p, u)
  <2> PICK u \in Uid : ReadHead(p, u)
    BY <1>1
  <2>1. JobOf[u] \in Job
    BY ConstantsAssumption
  <2>2. seqs[JobOf[u]] # <<>> => Head(seqs[JobOf[u]]) \in Uid
    BY <2>1, HeadTailProperties DEF TypeInv, TypeOK
  <2>3. TypeOK'
    BY <2>1, <2>2, ZenonT(40) DEF ReadHead, TypeInv, TypeOK, Goto, Labels
  <2>4. WorkTyped'
    BY <2>1, <2>2 DEF ReadHead, TypeInv, TypeOK, WorkTyped, Busy, Goto, Labels
  <2> QED
    BY <2>3, <2>4 DEF TypeInv
<1>2. CASE GetBlob(p)
  <2>1. faults' \in 0..MaxFaults
    BY <1>2, FaultType DEF GetBlob, TypeInv, TypeOK
  <2>2. TypeOK'
    BY <1>2, <2>1 DEF GetBlob, TypeInv, TypeOK, Goto, Labels
  <2>3. WorkTyped'
    BY <1>2 DEF GetBlob, TypeInv, TypeOK, WorkTyped, Busy, Goto, Labels
  <2> QED
    BY <2>2, <2>3 DEF TypeInv
<1>3. CASE Execute(p)
  <2>1. head[p] \in Uid
    BY <1>3 DEF Execute, TypeInv, WorkTyped, Busy
  <2>2. JobOf[head[p]] \in Job
    BY <2>1, ConstantsAssumption
  <2>3. located' \in [Job -> SUBSET Uid]
    BY <1>3, <2>1, LocatedType DEF Execute, TypeInv
  <2>4. log' \in [Job -> Seq(Uid)]
    <3>1. Append(log[JobOf[head[p]]], head[p]) \in Seq(Uid)
      BY <2>1, <2>2, AppendProperties DEF TypeInv, TypeOK
    <3> QED
      BY <1>3, <2>2, <3>1 DEF Execute, TypeInv, TypeOK
  <2>5. blocked' \subseteq Job
    BY <1>3 DEF Execute, TypeInv, TypeOK
  <2>6. TypeOK'
    BY <1>3, <2>3, <2>4, <2>5 DEF Execute, TypeInv, TypeOK, Goto, Labels
  <2>7. WorkTyped'
    BY <1>3, <2>1 DEF Execute, TypeInv, TypeOK, WorkTyped, Busy, Goto, Labels
  <2> QED
    BY <2>6, <2>7 DEF TypeInv
<1>4. CASE Block(p)
  <2>1. JobOf[head[p]] \in Job
    BY <1>4, ConstantsAssumption DEF Block, TypeInv, WorkTyped, Busy
  <2>2. faults' \in 0..MaxFaults
    BY <1>4, FaultType DEF Block, TypeInv
  <2>3. batch[p] \ {cur[p]} \in SUBSET Uid
    BY DEF TypeInv, TypeOK
  <2> QED
    BY <1>4, <2>1, <2>2, <2>3, LeaveType, LeaveWork
       DEF Block, NextMessage, TypeInv, TypeOK, Labels
<1>5. CASE ExecuteRaises(p)
  <2>1. located' \in [Job -> SUBSET Uid]
    BY <1>5, LocatedType DEF ExecuteRaises, TypeInv, TypeOK, WorkTyped, Busy
  <2>2. faults' \in 0..MaxFaults
    BY <1>5, FaultType DEF ExecuteRaises, TypeInv
  <2> QED
    BY <1>5, <2>1, <2>2, LeaveType, LeaveWork
       DEF ExecuteRaises, Abort, TypeInv, TypeOK, Labels
<1>6. CASE DeleteBlob(p)
  <2>1. CASE head[p] \in blob
    BY <1>6, <2>1
       DEF DeleteBlob, TypeInv, TypeOK, WorkTyped, Busy, Goto, Labels
  <2>2. CASE head[p] \notin blob
    BY <1>6, <2>2, LeaveType, LeaveWork
       DEF DeleteBlob, Abort, TypeInv, TypeOK, Labels
  <2> QED
    BY <2>1, <2>2
<1>7. CASE PopRead(p)
  <2>1. JobOf[cur[p]] \in Job
    BY <1>7, ConstantsAssumption DEF PopRead, TypeInv, WorkTyped, Busy
  <2>2. CASE seqs[JobOf[cur[p]]] # <<>>
    BY <1>7, <2>1, <2>2
       DEF PopRead, TypeInv, TypeOK, WorkTyped, Busy, Goto, Labels
  <2>3. CASE seqs[JobOf[cur[p]]] = <<>>
    BY <1>7, <2>3, LeaveType, LeaveWork
       DEF PopRead, Abort, TypeInv, TypeOK, Labels
  <2> QED
    BY <2>2, <2>3
<1>8. CASE PopWrite(p)
  <2> DEFINE j == JobOf[cur[p]]
  <2>1. j \in Job
    BY <1>8, ConstantsAssumption DEF PopWrite, TypeInv, WorkTyped, Busy
  <2>2. snap[p] \in Seq(Uid) /\ snap[p] # <<>>
    BY <1>8 DEF PopWrite, TypeInv, TypeOK, WorkTyped
  <2>3. Head(snap[p]) \in Uid /\ Tail(snap[p]) \in Seq(Uid)
    BY <2>2, HeadTailProperties
  <2>4. seqs' \in [Job -> Seq(Uid)] /\ entity' \subseteq Job
    <3>1. seqs' = seqs \/ seqs' = [seqs EXCEPT ![j] = Tail(snap[p])]
      BY <1>8 DEF PopWrite
    <3>2. seqs' \in [Job -> Seq(Uid)]
      BY <2>1, <2>3, <3>1 DEF TypeInv, TypeOK
    <3>3. entity' = entity \/ entity' = entity \ {j}
      BY <1>8 DEF PopWrite
    <3> QED
      BY <3>2, <3>3 DEF TypeInv, TypeOK
  <2>5. retired' \in [Job -> Seq(Uid)]
    <3>1. Append(retired[j], Head(snap[p])) \in Seq(Uid)
      BY <2>1, <2>3, AppendProperties DEF TypeInv, TypeOK
    <3> QED
      BY <1>8, <2>1, <3>1 DEF PopWrite, TypeInv, TypeOK
  <2>6. \/ Goto(p, "ack") /\ UNCHANGED <<batch, cur, head, ack, snap>>
        \/ Goto(p, "pop") /\ UNCHANGED <<batch, cur, head, ack, snap>>
        \/ NextMessage(p)
        \/ Abort(p)
    BY <1>8 DEF PopWrite
  <2>7. /\ pc' \in [Proxy -> Labels]
        /\ batch' \in [Proxy -> SUBSET Uid]
        /\ cur' \in [Proxy -> Uid \cup {NoUid}]
        /\ head' \in [Proxy -> Uid \cup {NoUid}]
        /\ ack' \in [Proxy -> BOOLEAN]
        /\ snap' \in [Proxy -> Seq(Uid)]
    <3>1. batch[p] \ {cur[p]} \in SUBSET Uid
      BY DEF TypeInv, TypeOK
    <3> QED
      BY <2>6, <3>1, LeaveType
         DEF NextMessage, Abort, Goto, TypeInv, TypeOK, Labels
  <2>8. WorkTyped'
    <3>1. CASE NextMessage(p) \/ Abort(p)
      BY <3>1, LeaveWork DEF NextMessage, Abort
    <3>2. CASE \/ Goto(p, "ack") /\ UNCHANGED <<batch, cur, head, ack, snap>>
               \/ Goto(p, "pop") /\ UNCHANGED <<batch, cur, head, ack, snap>>
      BY <1>8, <3>2
         DEF PopWrite, Goto, TypeInv, TypeOK, WorkTyped, Busy, Labels
    <3> QED
      BY <2>6, <3>1, <3>2
  <2> QED
    BY <1>8, <2>4, <2>5, <2>7, <2>8 DEF PopWrite, TypeInv, TypeOK
<1>9. CASE DeleteMessage(p)
  <2>1. batch[p] \ {cur[p]} \in SUBSET Uid
    BY DEF TypeInv, TypeOK
  <2>2. NextMessage(p) \/ Abort(p)
    BY <1>9 DEF DeleteMessage
  <2> QED
    BY <1>9, <2>1, <2>2, LeaveType, LeaveWork
       DEF DeleteMessage, NextMessage, Abort, TypeInv, TypeOK, Labels
<1>10. CASE \E ms \in SUBSET queue : Fetch(p, ms)
  BY <1>10 DEF Fetch, TypeInv, TypeOK, WorkTyped, Labels
<1> QED
  BY <1>1, <1>2, <1>3, <1>4, <1>5, <1>6, <1>7, <1>8, <1>9, <1>10

LEMMA SubmitWork ==
  ASSUME TypeInv, NEW u \in Uid, Submit(u) \/ PutFails(u) \/ Zap(u)
  PROVE  WorkTyped'
BY DEF TypeInv, WorkTyped, Submit, Upload, ReadSequence, Upsert, PutMessage,
       PutFails, Zap, proxyVars

\* TypeInv is inductive.
LEMMA TypeInductive == TypeInv /\ [Next]_vars => TypeInv'
<1> SUFFICES ASSUME TypeInv, [Next]_vars
             PROVE  TypeInv'
  OBVIOUS
<1>1. CASE \E u \in Uid : Submit(u) \/ PutFails(u) \/ Zap(u)
  BY <1>1, SubmitType, SubmitWork DEF TypeInv
<1>2. CASE \E p \in Proxy :
             \/ Handle(p) \/ Block(p) \/ ExecuteRaises(p)
             \/ \E ms \in SUBSET queue : Fetch(p, ms)
             \/ AcquireLease(p) \/ RenewFails(p) \/ Crash(p) \/ Restart(p)
  BY <1>2, HandleType, LockType DEF Handle
<1>3. CASE LeaseExpires
  BY <1>3 DEF LeaseExpires, TypeInv, TypeOK, WorkTyped,
              clientVars, storeVars, proxyVars, histVars
<1>4. CASE UNCHANGED vars
  BY <1>4 DEF vars, TypeInv, TypeOK, WorkTyped,
              clientVars, storeVars, proxyVars, lockVars, histVars
<1> QED
  BY <1>1, <1>2, <1>3, <1>4 DEF Next

\* Type correctness of the pipeline: among others, ids popped, executed and
\* queued are always submitted actions, and faults stay within their bound.
THEOREM TypeCorrect == Spec => []TypeOK
<1>1. Init => TypeInv
  BY InitType DEF TypeInv, WorkTyped, Init, Busy
<1>2. TypeInv => TypeOK
  BY DEF TypeInv
<1> QED
  BY <1>1, <1>2, TypeInductive, PTL DEF Spec

(***************************************************************************)
(* Order.  The actions of a job are executed in the order in which they    *)
(* were accepted, as long as a lease outlives the message that is          *)
(* processed under it.                                                     *)
(*                                                                         *)
(* The argument: only the holder of the lease is inside a message          *)
(* (Exclusive); from ReadHead to the pop the id it works on is the head of *)
(* its job's sequence (AtHead), because only the proxy inside a message    *)
(* pops and the clients only append.  So what is executed is the first of  *)
(* the accepted actions that is not popped yet (Ordered).                  *)
(***************************************************************************)

\* A proxy inside a message, or one that believes in its lease, is the holder.
Exclusive ==
  \A p \in Proxy :
    /\ pc[p] \in Busy => lease = p
    /\ p \in holds => lease = p /\ pc[p] # "down"

\* The ids of a sequence are actions of its job, submitted that far.
SeqOwned ==
  \A j \in Job : \A u \in Elements(seqs[j]) :
    JobOf[u] = j /\ client[u] \in {"sequenced", "queued", "stranded"}

\* The id a proxy works on is the head of the sequence until it is popped.
AtHead ==
  \A p \in Proxy :
    /\ pc[p] \in Busy \ {"ack"} =>
         seqs[JobOf[cur[p]]] # <<>> /\ Head(seqs[JobOf[cur[p]]]) = head[p]
    /\ pc[p] = "write" => Head(snap[p]) = head[p]

OrderInv == TypeInv /\ Exclusive /\ SeqOwned /\ AtHead

\* A blob is there until the action is executed or withdrawn.
Accounted ==
  \A j \in Job : \A u \in Elements(seqs[j]) :
    u \in blob \/ u \in voided \/ u \in Elements(log[j])

Uploaded ==
  \A u \in Uid : client[u] \in {"uploaded", "inserting", "merging"} => u \in blob

\* What a proxy is about to pop is done.
PopIsDone ==
  \A p \in Proxy :
    /\ pc[p] = "clean" => head[p] \in Elements(log[JobOf[cur[p]]])
    /\ pc[p] \in {"pop", "write"} =>
         head[p] \in Elements(log[JobOf[cur[p]]]) \cup voided

LossInv == OrderInv /\ Accounted /\ Uploaded /\ PopIsDone /\ NoActionLost

LEMMA ElementsAppend ==
  ASSUME NEW s \in Seq(Uid), NEW e \in Uid
  PROVE  Elements(Append(s, e)) = Elements(s) \cup {e}
<1>1. /\ Len(Append(s, e)) = Len(s) + 1 /\ Len(s) \in Nat
      /\ \A i \in 1..Len(s) : Append(s, e)[i] = s[i]
      /\ Append(s, e)[Len(s) + 1] = e
  BY AppendProperties, LenProperties
<1>2. ASSUME NEW x \in Elements(Append(s, e)) PROVE x \in Elements(s) \cup {e}
  <2>1. PICK i \in 1..Len(Append(s, e)) : x = Append(s, e)[i]
    BY <1>2 DEF Elements
  <2>2. CASE i = Len(s) + 1
    BY <1>1, <2>1, <2>2
  <2>3. CASE i # Len(s) + 1
    <3>1. i \in 1..Len(s)
      BY <1>1, <2>1, <2>3
    <3> QED
      BY <1>1, <2>1, <3>1 DEF Elements
  <2> QED
    BY <2>2, <2>3
<1>3. ASSUME NEW x \in Elements(s) PROVE x \in Elements(Append(s, e))
  <2>1. PICK i \in 1..Len(s) : x = s[i]
    BY <1>3 DEF Elements
  <2>2. i \in 1..Len(Append(s, e)) /\ Append(s, e)[i] = x
    BY <1>1, <2>1
  <2> QED
    BY <2>2 DEF Elements
<1>4. e \in Elements(Append(s, e))
  BY <1>1 DEF Elements
<1> QED
  BY <1>2, <1>3, <1>4

LEMMA ElementsTail ==
  ASSUME NEW s \in Seq(Uid), s # <<>>
  PROVE  /\ Head(s) \in Elements(s)
         /\ Elements(Tail(s)) \subseteq Elements(s)
         /\ Elements(s) \subseteq Uid
<1>1. Len(s) \in Nat \ {0}
  BY EmptySeq
<1>2. Head(s) = s[1]
  OBVIOUS
<1>3. /\ Len(Tail(s)) = Len(s) - 1
      /\ \A i \in 1..Len(Tail(s)) : Tail(s)[i] = s[i + 1]
  BY HeadTailProperties
<1>4. \A i \in 1..Len(Tail(s)) : i + 1 \in 1..Len(s)
  BY <1>1, <1>3
<1>5. \A i \in 1..Len(s) : s[i] \in Uid
  BY ElementOfSeq
<1> QED
  BY <1>1, <1>2, <1>3, <1>4, <1>5 DEF Elements

(***************************************************************************)
(* One worker at a time.                                                   *)
(***************************************************************************)
LEMMA ExclusiveInductive ==
  ASSUME Overrun = FALSE, TypeInv, Exclusive, [Next]_vars
  PROVE  Exclusive'
<1> USE DEF clientVars, storeVars, proxyVars, lockVars, histVars
<1>1. CASE \E u \in Uid : Submit(u) \/ PutFails(u) \/ Zap(u)
  BY <1>1 DEF Exclusive, Submit, Upload, ReadSequence, Upsert, PutMessage,
              PutFails, Zap
<1>2. ASSUME NEW p \in Proxy, Handle(p) \/ Block(p) \/ ExecuteRaises(p)
      PROVE  Exclusive'
  <2>1. UNCHANGED <<lease, holds>>
    BY <1>2 DEF Handle, ReadHead, GetBlob, Execute, DeleteBlob, PopRead,
                PopWrite, DeleteMessage, LockLost, Block, ExecuteRaises
  <2>2. pc[p] # "down" /\ \E l \in Labels \ {"down"} : pc' = [pc EXCEPT ![p] = l]
    BY <1>2 DEF Handle, ReadHead, GetBlob, Execute, DeleteBlob, PopRead,
                PopWrite, DeleteMessage, LockLost, Block, ExecuteRaises,
                Goto, NextMessage, Abort, Leave, Labels
  <2>3. pc'[p] \in Busy => pc[p] \in Busy \/ p \in holds
    BY <1>2 DEF Handle, ReadHead, GetBlob, Execute, DeleteBlob, PopRead,
                PopWrite, DeleteMessage, LockLost, Block, ExecuteRaises,
                Goto, NextMessage, Abort, Leave, Busy, TypeInv, TypeOK
  <2> QED
    BY <2>1, <2>2, <2>3 DEF Exclusive, TypeInv, TypeOK
<1>3. ASSUME NEW p \in Proxy,
             \/ \E ms \in SUBSET queue : Fetch(p, ms)
             \/ AcquireLease(p) \/ RenewFails(p)
      PROVE  Exclusive'
  BY <1>3, ConstantsAssumption
     DEF Exclusive, Fetch, AcquireLease, RenewFails, LoopRuns, Busy,
         TypeInv, TypeOK
<1>4. ASSUME NEW p \in Proxy, Crash(p) \/ Restart(p)
      PROVE  Exclusive'
  BY <1>4 DEF Exclusive, Crash, Restart, Leave, Goto, Busy, TypeInv, TypeOK
<1>5. CASE LeaseExpires
  BY <1>5 DEF Exclusive, LeaseExpires, Busy, TypeInv, TypeOK
<1>6. CASE UNCHANGED vars
  BY <1>6 DEF vars, Exclusive
<1> QED
  BY <1>1, <1>2, <1>3, <1>4, <1>5, <1>6 DEF Next

\* A proxy inside a message is alone.
LEMMA Alone ==
  ASSUME TypeInv, Exclusive, NEW p \in Proxy, pc[p] \in Busy,
         NEW q \in Proxy, q # p
  PROVE  pc[q] \notin Busy
BY DEF Exclusive

(***************************************************************************)
(* The order of a sequence.                                                *)
(***************************************************************************)

\* What a step may do to a sequence: a client appends its action, or the
\* proxy that read the sequence pops its head.
SeqStep ==
  \/ UNCHANGED seqs
  \/ \E u \in Uid : /\ client' = [client EXCEPT ![u] = "sequenced"]
                    /\ seqs' = [seqs EXCEPT ![JobOf[u]] = Append(@, u)]
                    /\ UNCHANGED <<pc, cur, head, snap>>
  \/ \E p \in Proxy :
       /\ pc[p] = "write" /\ seqs[JobOf[cur[p]]] = snap[p]
       /\ seqs' = [seqs EXCEPT ![JobOf[cur[p]]] = Tail(snap[p])]
       /\ pc'[p] \notin Busy \ {"ack"}
       /\ \A q \in Proxy \ {p} : /\ pc'[q] = pc[q] /\ cur'[q] = cur[q]
                                 /\ head'[q] = head[q] /\ snap'[q] = snap[q]
       /\ UNCHANGED client

LEMMA NextSeqStep ==
  ASSUME TypeInv, [Next]_vars
  PROVE  SeqStep
<1> USE DEF clientVars, storeVars, proxyVars, lockVars, histVars
<1>1. CASE \E u \in Uid : Submit(u) \/ PutFails(u) \/ Zap(u)
  <2> PICK u \in Uid : Submit(u) \/ PutFails(u) \/ Zap(u)
    BY <1>1
  <2>1. CASE Upsert(u)
    BY <2>1 DEF Upsert, Stage, SeqStep
  <2>2. CASE ~Upsert(u)
    BY <2>2 DEF Submit, Upload, ReadSequence, PutMessage, PutFails, Zap, SeqStep
  <2> QED
    BY <2>1, <2>2
<1>2. ASSUME NEW p \in Proxy, PopWrite(p)
      PROVE  SeqStep
  <2>1. CASE UNCHANGED seqs
    BY <2>1 DEF SeqStep
  <2>2. CASE ~UNCHANGED seqs
    <3>1. /\ pc[p] = "write" /\ seqs[JobOf[cur[p]]] = snap[p]
          /\ seqs' = [seqs EXCEPT ![JobOf[cur[p]]] = Tail(snap[p])]
          /\ UNCHANGED client
      BY <1>2, <2>2 DEF PopWrite
    <3>2. \/ Goto(p, "ack") /\ UNCHANGED <<batch, cur, head, ack, snap>>
          \/ NextMessage(p)
      BY <1>2, <2>2 DEF PopWrite
    <3>3. /\ pc'[p] \notin Busy \ {"ack"}
          /\ \A q \in Proxy \ {p} : /\ pc'[q] = pc[q] /\ cur'[q] = cur[q]
                                    /\ head'[q] = head[q] /\ snap'[q] = snap[q]
      BY <3>2 DEF Goto, NextMessage, Leave, Busy, TypeInv, TypeOK
    <3> QED
      BY <3>1, <3>3 DEF SeqStep
  <2> QED
    BY <2>1, <2>2
<1>3. ASSUME NEW p \in Proxy,
             \/ Handle(p) /\ ~PopWrite(p)
             \/ Block(p) \/ ExecuteRaises(p)
             \/ \E ms \in SUBSET queue : Fetch(p, ms)
             \/ AcquireLease(p) \/ RenewFails(p) \/ Crash(p) \/ Restart(p)
      PROVE  SeqStep
  BY <1>3 DEF Handle, ReadHead, GetBlob, Execute, DeleteBlob, PopRead,
              DeleteMessage, LockLost, Block, ExecuteRaises, Fetch,
              AcquireLease, RenewFails, Crash, Restart, SeqStep
<1>4. CASE LeaseExpires \/ UNCHANGED vars
  BY <1>4 DEF LeaseExpires, vars, SeqStep
<1> QED
  BY <1>1, <1>2, <1>3, <1>4 DEF Next, Handle

\* The stage of a command whose action is in a sequence stays a late one.
LEMMA LateStages ==
  ASSUME TypeInv, [Next]_vars, NEW u \in Uid,
         client[u] \in {"sequenced", "queued", "stranded"}
  PROVE  client'[u] \in {"sequenced", "queued", "stranded"}
<1> USE DEF clientVars, TypeInv, TypeOK
<1>1. CASE UNCHANGED client
  BY <1>1
<1>2. CASE \E w \in Uid : Submit(w) \/ PutFails(w) \/ Zap(w)
  BY <1>2 DEF Submit, Upload, ReadSequence, Upsert, PutMessage, PutFails, Zap,
              Stage, RollBack
<1>3. CASE ~(\E w \in Uid : Submit(w) \/ PutFails(w) \/ Zap(w))
  <2>1. UNCHANGED client
    BY <1>3, ZenonT(40) DEF Next, Handle, ReadHead, GetBlob, Execute, DeleteBlob, PopRead,
                PopWrite, DeleteMessage, LockLost, Block, ExecuteRaises, Fetch,
                AcquireLease, RenewFails, Crash, Restart, LeaseExpires, vars
  <2> QED
    BY <2>1
<1> QED
  BY <1>2, <1>3

LEMMA SeqOwnedInductive ==
  ASSUME TypeInv, SeqOwned, [Next]_vars
  PROVE  SeqOwned'
<1> SUFFICES ASSUME NEW j \in Job, NEW u \in Elements(seqs'[j])
             PROVE  JobOf[u] = j /\ client'[u] \in {"sequenced", "queued", "stranded"}
  BY DEF SeqOwned, Elements
<1>1. seqs[j] \in Seq(Uid) /\ Elements(seqs[j]) \subseteq Uid
  BY ElementOfSeq DEF TypeInv, TypeOK, Elements
<1>2. CASE u \in Elements(seqs[j])
  BY <1>1, <1>2, LateStages DEF SeqOwned
<1>3. CASE u \notin Elements(seqs[j])
  <2>1. PICK w \in Uid : /\ client' = [client EXCEPT ![w] = "sequenced"]
                         /\ seqs' = [seqs EXCEPT ![JobOf[w]] = Append(@, w)]
    <3>1. ASSUME NEW p \in Proxy, pc[p] = "write", seqs[JobOf[cur[p]]] = snap[p],
                 seqs' = [seqs EXCEPT ![JobOf[cur[p]]] = Tail(snap[p])]
          PROVE  FALSE
      <4>1. snap[p] # <<>> /\ snap[p] \in Seq(Uid)
        BY <3>1 DEF TypeInv, TypeOK, WorkTyped
      <4>2. Elements(Tail(snap[p])) \subseteq Elements(snap[p])
        BY <4>1, ElementsTail
      <4>3. \/ seqs'[j] = seqs[j]
            \/ seqs[j] = snap[p] /\ seqs'[j] = Tail(snap[p])
        BY <3>1 DEF TypeInv, TypeOK
      <4> QED
        BY <1>3, <4>2, <4>3
    <3> QED
      BY <1>3, <3>1, NextSeqStep DEF SeqStep
  <2>2. seqs'[j] = IF j = JobOf[w] THEN Append(seqs[j], w) ELSE seqs[j]
    BY <2>1 DEF TypeInv, TypeOK
  <2>3. u = w /\ j = JobOf[w]
    BY <1>1, <1>3, <2>2, ElementsAppend
  <2> QED
    BY <2>1, <2>3 DEF TypeInv, TypeOK
<1> QED
  BY <1>2, <1>3

\* The head of a sequence stays its head under every step but the pop of a
\* proxy that works on a message of that job.
LEMMA HeadStays ==
  ASSUME TypeInv, Exclusive, [Next]_vars,
         NEW p \in Proxy, pc[p] \in Busy, pc'[p] \in Busy \ {"ack"},
         seqs[JobOf[cur[p]]] # <<>>
  PROVE  /\ seqs'[JobOf[cur[p]]] # <<>>
         /\ Head(seqs'[JobOf[cur[p]]]) = Head(seqs[JobOf[cur[p]]])
<1> DEFINE j == JobOf[cur[p]]
<1>1. j \in Job /\ seqs[j] \in Seq(Uid)
  BY ConstantsAssumption DEF TypeInv, TypeOK, WorkTyped
<1>2. CASE UNCHANGED seqs
  BY <1>2
<1>3. ASSUME NEW u \in Uid, seqs' = [seqs EXCEPT ![JobOf[u]] = Append(@, u)]
      PROVE  seqs'[j] # <<>> /\ Head(seqs'[j]) = Head(seqs[j])
  <2>1. seqs'[j] = seqs[j] \/ seqs'[j] = Append(seqs[j], u)
    BY <1>1, <1>3 DEF TypeInv, TypeOK
  <2>2. /\ Append(seqs[j], u) # <<>>
        /\ Head(Append(seqs[j], u)) = Head(seqs[j])
    BY <1>1, AppendProperties, HeadTailAppend
  <2> QED
    BY <2>1, <2>2
<1>4. ASSUME NEW q \in Proxy, pc[q] = "write", pc'[q] \notin Busy \ {"ack"}
      PROVE  FALSE
  BY <1>4, Alone DEF Busy
<1> QED
  BY <1>2, <1>3, <1>4, NextSeqStep DEF SeqStep

\* What a step does to the id a proxy works on: it keeps it, inside a message,
\* and it enters a message only at the head of a sequence.
KeepsWork(p) ==
  /\ pc[p] \in Busy \ {"ack"}
  /\ cur'[p] = cur[p] /\ head'[p] = head[p]
  /\ pc'[p] = "write" => \/ pc[p] = "write" /\ snap'[p] = snap[p]
                         \/ snap'[p] = seqs[JobOf[cur[p]]]

StartsWork(p) ==
  /\ pc[p] = "idle" /\ pc'[p] = "get" /\ UNCHANGED seqs
  /\ seqs[JobOf[cur'[p]]] # <<>>
  /\ head'[p] = Head(seqs[JobOf[cur'[p]]])

LEMMA WorkStep ==
  ASSUME TypeInv, [Next]_vars, NEW p \in Proxy, pc'[p] \in Busy \ {"ack"}
  PROVE  KeepsWork(p) \/ StartsWork(p)
<1> USE DEF clientVars, storeVars, proxyVars, lockVars, histVars
<1>1. CASE UNCHANGED proxyVars
  BY <1>1 DEF KeepsWork
<1>2. ASSUME NEW q \in Proxy, \E u \in Uid : ReadHead(q, u)
      PROVE  KeepsWork(p) \/ StartsWork(p)
  BY <1>2 DEF ReadHead, Goto, Busy, TypeInv, TypeOK, KeepsWork, StartsWork
<1>3. ASSUME NEW q \in Proxy,
             \/ GetBlob(q) \/ Execute(q) \/ DeleteBlob(q) \/ PopRead(q)
             \/ DeleteMessage(q) \/ LockLost(q) \/ Block(q) \/ ExecuteRaises(q)
             \/ Crash(q) \/ Restart(q) \/ \E ms \in SUBSET queue : Fetch(q, ms)
      PROVE  KeepsWork(p)
  BY <1>3 DEF GetBlob, Execute, DeleteBlob, PopRead, DeleteMessage, LockLost,
              Block, ExecuteRaises, Crash, Restart, Fetch, NextMessage, Abort,
              Leave, Goto, Busy, TypeInv, TypeOK, KeepsWork
<1>4. ASSUME NEW q \in Proxy, PopWrite(q)
      PROVE  KeepsWork(p)
  <2>1. /\ pc[q] = "write"
        /\ \/ Goto(q, "ack") /\ UNCHANGED <<batch, cur, head, ack, snap>>
           \/ Goto(q, "pop") /\ UNCHANGED <<batch, cur, head, ack, snap>>
           \/ NextMessage(q)
           \/ Abort(q)
    BY <1>4 DEF PopWrite
  <2> QED
    BY <2>1 DEF NextMessage, Abort, Leave, Goto, Busy, TypeInv, TypeOK, KeepsWork
<1>5. CASE \E u \in Uid : Submit(u) \/ PutFails(u) \/ Zap(u)
  BY <1>1, <1>5 DEF Submit, Upload, ReadSequence, Upsert, PutMessage, PutFails,
                    Zap
<1>6. CASE \/ LeaseExpires \/ UNCHANGED vars
           \/ \E q \in Proxy : AcquireLease(q) \/ RenewFails(q)
  BY <1>1, <1>6 DEF LeaseExpires, vars, AcquireLease, RenewFails
<1> QED
  BY <1>2, <1>3, <1>4, <1>5, <1>6 DEF Next, Handle

LEMMA AtHeadInductive ==
  ASSUME TypeInv, Exclusive, AtHead, [Next]_vars
  PROVE  AtHead'
<1> SUFFICES ASSUME NEW p \in Proxy, pc'[p] \in Busy \ {"ack"}
             PROVE  /\ seqs'[JobOf[cur'[p]]] # <<>>
                    /\ Head(seqs'[JobOf[cur'[p]]]) = head'[p]
                    /\ pc'[p] = "write" => Head(snap'[p]) = head'[p]
  BY DEF AtHead, Busy
<1>1. CASE KeepsWork(p)
  <2>1. /\ seqs'[JobOf[cur[p]]] # <<>>
        /\ Head(seqs'[JobOf[cur[p]]]) = head[p]
    BY <1>1, HeadStays DEF KeepsWork, AtHead
  <2>2. pc'[p] = "write" => Head(snap'[p]) = head[p]
    BY <1>1 DEF KeepsWork, AtHead
  <2> QED
    BY <1>1, <2>1, <2>2 DEF KeepsWork
<1>2. CASE StartsWork(p)
  BY <1>2 DEF StartsWork
<1> QED
  BY <1>1, <1>2, WorkStep

LEMMA OrderInductive ==
  ASSUME Overrun = FALSE, OrderInv, [Next]_vars
  PROVE  OrderInv'
BY TypeInductive, ExclusiveInductive, SeqOwnedInductive, AtHeadInductive
   DEF OrderInv

LEMMA OrderInit == Init => OrderInv
<1> SUFFICES ASSUME Init PROVE OrderInv
  OBVIOUS
<1>1. TypeInv
  BY InitType DEF TypeInv, WorkTyped, Init, Busy
<1>2. \A j \in Job : Elements(seqs[j]) = {}
  BY DEF Init, Elements
<1> QED
  BY <1>1, <1>2, ConstantsAssumption
     DEF OrderInv, Exclusive, SeqOwned, AtHead, Init, Busy
\* The action a proxy works on belongs to the job of its message and was
\* submitted that far.
LEMMA WorkOwned ==
  ASSUME OrderInv, NEW p \in Proxy, pc[p] \in Busy \ {"ack"}
  PROVE  /\ cur[p] \in Uid /\ JobOf[cur[p]] \in Job
         /\ head[p] \in Elements(seqs[JobOf[cur[p]]])
         /\ head[p] \in Uid
         /\ JobOf[head[p]] = JobOf[cur[p]]
         /\ client[head[p]] \in {"sequenced", "queued", "stranded"}
<1>1. cur[p] \in Uid /\ JobOf[cur[p]] \in Job
  BY ConstantsAssumption DEF OrderInv, TypeInv, TypeOK, WorkTyped, Busy
<1>2. /\ seqs[JobOf[cur[p]]] \in Seq(Uid) /\ seqs[JobOf[cur[p]]] # <<>>
      /\ head[p] = Head(seqs[JobOf[cur[p]]])
  BY <1>1 DEF OrderInv, TypeInv, TypeOK, AtHead
<1>3. head[p] \in Elements(seqs[JobOf[cur[p]]]) /\ head[p] \in Uid
  BY <1>2, ElementsTail
<1> QED
  BY <1>1, <1>3 DEF OrderInv, SeqOwned

(***************************************************************************)
(* The order of a job's actions.                                           *)
(***************************************************************************)

\* What a step may do to the sequences and the history: nothing but withdraw
\* an action, or append an action, execute one, or pop one.
QueueStep ==
  \/ /\ UNCHANGED <<seqs, retired, log>>
     /\ UNCHANGED voided \/ \E u \in Uid : voided' = voided \cup {u}
  \/ \E u \in Uid : /\ seqs' = [seqs EXCEPT ![JobOf[u]] = Append(@, u)]
                    /\ UNCHANGED <<retired, log, voided>>
  \/ \E p \in Proxy :
       /\ pc[p] = "exec"
       /\ log' = [log EXCEPT ![JobOf[head[p]]] = Append(@, head[p])]
       /\ UNCHANGED <<seqs, retired, voided>>
  \/ \E p \in Proxy :
       /\ pc[p] = "write" /\ seqs[JobOf[cur[p]]] = snap[p]
       /\ seqs' = [seqs EXCEPT ![JobOf[cur[p]]] = Tail(@)]
       /\ retired' = [retired EXCEPT ![JobOf[cur[p]]] = Append(@, Head(snap[p]))]
       /\ UNCHANGED <<log, voided>>

LEMMA NextQueueStep ==
  ASSUME [Next]_vars
  PROVE  QueueStep
<1> USE DEF clientVars, storeVars, proxyVars, lockVars, histVars
<1>1. ASSUME NEW u \in Uid, Submit(u) \/ PutFails(u) \/ Zap(u)
      PROVE  QueueStep
  BY <1>1 DEF Submit, Upload, ReadSequence, Upsert, PutMessage, PutFails, Zap,
              RollBack, QueueStep
<1>2. ASSUME NEW p \in Proxy, Execute(p)
      PROVE  QueueStep
  BY <1>2 DEF Execute, QueueStep
<1>3. ASSUME NEW p \in Proxy, PopWrite(p)
      PROVE  QueueStep
  <2>1. CASE UNCHANGED <<seqs, retired>>
    BY <1>3, <2>1 DEF PopWrite, QueueStep
  <2>2. CASE ~UNCHANGED <<seqs, retired>>
    BY <1>3, <2>2 DEF PopWrite, QueueStep
  <2> QED
    BY <2>1, <2>2
<1>4. ASSUME NEW p \in Proxy,
             \/ \E u \in Uid : ReadHead(p, u)
             \/ GetBlob(p) \/ DeleteBlob(p) \/ PopRead(p) \/ DeleteMessage(p)
             \/ LockLost(p) \/ Block(p) \/ ExecuteRaises(p)
             \/ \E ms \in SUBSET queue : Fetch(p, ms)
             \/ AcquireLease(p) \/ RenewFails(p) \/ Crash(p) \/ Restart(p)
      PROVE  QueueStep
  BY <1>4 DEF ReadHead, GetBlob, DeleteBlob, PopRead, DeleteMessage, LockLost,
              Block, ExecuteRaises, Fetch, AcquireLease, RenewFails, Crash,
              Restart, QueueStep
<1>5. CASE LeaseExpires \/ UNCHANGED vars
  BY <1>5 DEF LeaseExpires, vars, QueueStep
<1> QED
  BY <1>1, <1>2, <1>3, <1>4, <1>5 DEF Next, Handle

\* s is t, or t with entries added at its end.
Extends(s, t) ==
  Len(t) <= Len(s) /\ \A i \in 1..Len(t) : s[i] = t[i]

LEMMA AppendExtends ==
  ASSUME NEW r \in Seq(Uid), NEW s \in Seq(Uid), NEW e \in Uid
  PROVE  Extends(r \o Append(s, e), r \o s)
<1>1. /\ Append(s, e) \in Seq(Uid) /\ Len(Append(s, e)) = Len(s) + 1
      /\ \A i \in 1..Len(s) : Append(s, e)[i] = s[i]
      /\ Len(r) \in Nat /\ Len(s) \in Nat
  BY AppendProperties, LenProperties
<1>2. /\ Len(r \o s) = Len(r) + Len(s)
      /\ \A i \in 1..(Len(r) + Len(s)) :
           (r \o s)[i] = IF i <= Len(r) THEN r[i] ELSE s[i - Len(r)]
  BY ConcatProperties
<1>3. /\ Len(r \o Append(s, e)) = Len(r) + Len(s) + 1
      /\ \A i \in 1..(Len(r) + Len(s) + 1) :
           (r \o Append(s, e))[i] =
             IF i <= Len(r) THEN r[i] ELSE Append(s, e)[i - Len(r)]
  <2> DEFINE t == Append(s, e)
  <2>1. t \in Seq(Uid) /\ Len(t) = Len(s) + 1
    BY <1>1
  <2> HIDE DEF t
  <2>2. /\ Len(r \o t) = Len(r) + Len(t)
        /\ \A i \in 1..(Len(r) + Len(t)) :
             (r \o t)[i] = IF i <= Len(r) THEN r[i] ELSE t[i - Len(r)]
    BY <2>1, ConcatProperties
  <2>3. Len(r) + Len(t) = Len(r) + Len(s) + 1
    BY <1>1, <2>1
  <2>4. /\ Len(r \o t) = Len(r) + Len(s) + 1
        /\ \A i \in 1..(Len(r) + Len(s) + 1) :
             (r \o t)[i] = IF i <= Len(r) THEN r[i] ELSE t[i - Len(r)]
    BY <2>2, <2>3
  <2> QED
    BY <2>4 DEF t
<1>4. ASSUME NEW i \in 1..(Len(r) + Len(s))
      PROVE  (r \o Append(s, e))[i] = (r \o s)[i]
  <2>1. CASE i <= Len(r)
    BY <1>1, <1>2, <1>3, <2>1
  <2>2. CASE ~(i <= Len(r))
    <3>1. i - Len(r) \in 1..Len(s)
      BY <1>1, <2>2
    <3>2. Append(s, e)[i - Len(r)] = s[i - Len(r)]
      BY <1>1, <3>1
    <3> QED
      BY <1>1, <1>2, <1>3, <2>2, <3>2
  <2> QED
    BY <2>1, <2>2
<1> QED
  BY <1>1, <1>2, <1>3, <1>4 DEF Extends

LEMMA PopExtends ==
  ASSUME NEW r \in Seq(Uid), NEW s \in Seq(Uid), s # <<>>
  PROVE  Extends(Append(r, Head(s)) \o Tail(s), r \o s)
<1>1. /\ Head(s) \in Uid /\ Tail(s) \in Seq(Uid) /\ Len(Tail(s)) = Len(s) - 1
      /\ \A i \in 1..Len(Tail(s)) : Tail(s)[i] = s[i + 1]
      /\ Head(s) = s[1] /\ Len(s) \in Nat \ {0} /\ Len(r) \in Nat
  <2>1. Head(s) = s[1]
    OBVIOUS
  <2>2. Len(s) \in Nat \ {0} /\ Len(r) \in Nat
    BY EmptySeq, LenProperties
  <2> QED
    BY <2>1, <2>2, HeadTailProperties
<1>2. /\ Append(r, Head(s)) \in Seq(Uid) /\ Len(Append(r, Head(s))) = Len(r) + 1
      /\ \A i \in 1..Len(r) : Append(r, Head(s))[i] = r[i]
      /\ Append(r, Head(s))[Len(r) + 1] = Head(s)
  BY <1>1, AppendProperties
<1>3. /\ Len(r \o s) = Len(r) + Len(s)
      /\ \A i \in 1..(Len(r) + Len(s)) :
           (r \o s)[i] = IF i <= Len(r) THEN r[i] ELSE s[i - Len(r)]
  BY ConcatProperties
<1> DEFINE t == Append(r, Head(s)) \o Tail(s)
<1>4. /\ Len(t) = Len(r) + Len(s)
      /\ \A i \in 1..(Len(r) + Len(s)) :
           t[i] = IF i <= Len(r) + 1 THEN Append(r, Head(s))[i]
                                     ELSE Tail(s)[i - (Len(r) + 1)]
  BY <1>1, <1>2, ConcatProperties
<1>5. ASSUME NEW i \in 1..(Len(r) + Len(s))
      PROVE  t[i] = (r \o s)[i]
  <2>1. CASE i <= Len(r)
    BY <1>1, <1>2, <1>3, <1>4, <2>1
  <2>2. CASE i = Len(r) + 1
    BY <1>1, <1>2, <1>3, <1>4, <2>2
  <2>3. CASE i > Len(r) + 1
    <3>1. i - (Len(r) + 1) \in 1..Len(Tail(s))
      BY <1>1, <2>3
    <3>2. Tail(s)[i - (Len(r) + 1)] = s[i - Len(r)]
      BY <1>1, <3>1
    <3> QED
      BY <1>1, <1>3, <1>4, <2>3, <3>2
  <2> QED
    BY <1>1, <2>1, <2>2, <2>3
<1> QED
  BY <1>1, <1>3, <1>4, <1>5 DEF Extends


\* The step as the actions of one job see it.
ExecutesHead(j) ==
  /\ seqs[j] # <<>>
  /\ log'[j] = Append(log[j], Head(seqs[j]))
  /\ seqs'[j] = seqs[j] /\ retired'[j] = retired[j]

AcceptsOrPops(j) ==
  /\ log'[j] = log[j]
  /\ Extends(retired'[j] \o seqs'[j], retired[j] \o seqs[j])
  /\ Len(retired[j]) <= Len(retired'[j])

LEMMA JobStep ==
  ASSUME OrderInv, QueueStep, NEW j \in Job
  PROVE  ExecutesHead(j) \/ AcceptsOrPops(j)
<1>1. /\ seqs \in [Job -> Seq(Uid)] /\ retired \in [Job -> Seq(Uid)]
      /\ log \in [Job -> Seq(Uid)]
      /\ seqs[j] \in Seq(Uid) /\ retired[j] \in Seq(Uid)
  BY DEF OrderInv, TypeInv, TypeOK
<1>2. /\ Len(retired[j]) \in Nat /\ Len(retired[j] \o seqs[j]) \in Nat
      /\ Extends(retired[j] \o seqs[j], retired[j] \o seqs[j])
  BY <1>1, LenProperties, ConcatProperties DEF Extends
<1>3. CASE seqs'[j] = seqs[j] /\ retired'[j] = retired[j] /\ log'[j] = log[j]
  BY <1>2, <1>3 DEF AcceptsOrPops
<1>4. ASSUME NEW u \in Uid, seqs' = [seqs EXCEPT ![JobOf[u]] = Append(@, u)],
             UNCHANGED <<retired, log, voided>>
      PROVE  AcceptsOrPops(j)
  <2>1. CASE j = JobOf[u]
    <3>1. seqs'[j] = Append(seqs[j], u)
      BY <1>1, <1>4, <2>1
    <3> QED
      BY <1>1, <1>2, <1>4, <3>1, AppendExtends DEF AcceptsOrPops
  <2>2. CASE j # JobOf[u]
    BY <1>1, <1>3, <1>4, <2>2 DEF AcceptsOrPops, ExecutesHead
  <2> QED
    BY <2>1, <2>2
<1>5. ASSUME NEW p \in Proxy, pc[p] = "exec",
             log' = [log EXCEPT ![JobOf[head[p]]] = Append(@, head[p])],
             UNCHANGED <<seqs, retired, voided>>
      PROVE  ExecutesHead(j) \/ AcceptsOrPops(j)
  <2>1. /\ JobOf[head[p]] = JobOf[cur[p]]
        /\ seqs[JobOf[cur[p]]] # <<>> /\ Head(seqs[JobOf[cur[p]]]) = head[p]
    BY <1>5, WorkOwned DEF OrderInv, AtHead, Busy
  <2>2. CASE j = JobOf[head[p]]
    BY <1>1, <1>5, <2>1, <2>2 DEF ExecutesHead
  <2>3. CASE j # JobOf[head[p]]
    BY <1>1, <1>3, <1>5, <2>3
  <2> QED
    BY <2>2, <2>3
<1>6. ASSUME NEW p \in Proxy,
             pc[p] = "write", seqs[JobOf[cur[p]]] = snap[p],
             seqs' = [seqs EXCEPT ![JobOf[cur[p]]] = Tail(@)],
             retired' = [retired EXCEPT ![JobOf[cur[p]]] = Append(@, Head(snap[p]))],
             UNCHANGED <<log, voided>>
      PROVE  ExecutesHead(j) \/ AcceptsOrPops(j)
  <2>1. CASE j = JobOf[cur[p]]
    <3>1. seqs[j] # <<>> /\ Head(seqs[j]) \in Uid
      BY <1>1, <1>6, <2>1, HeadTailProperties DEF OrderInv, TypeInv, WorkTyped
    <3>2. /\ seqs'[j] = Tail(seqs[j])
          /\ retired'[j] = Append(retired[j], Head(seqs[j]))
      BY <1>1, <1>6, <2>1
    <3>3. Len(retired[j]) <= Len(retired'[j])
      BY <1>1, <1>2, <3>1, <3>2, AppendProperties
    <3> QED
      BY <1>1, <1>6, <3>1, <3>2, <3>3, PopExtends DEF AcceptsOrPops
  <2>2. CASE j # JobOf[cur[p]]
    BY <1>1, <1>3, <1>6, <2>2
  <2> QED
    BY <2>1, <2>2
<1> QED
  BY <1>3, <1>4, <1>5, <1>6 DEF QueueStep

\* FifoPerJob, with the bound that makes it inductive: what was executed is
\* popped, or is the head of the sequence.
Ordered ==
  \A j \in Job : \A a, b \in 1..Len(log[j]) : a <= b =>
    \E m, n \in 1..Len(Accepted(j)) :
      /\ m <= n /\ n <= Len(retired[j]) + 1
      /\ Accepted(j)[m] = log[j][a] /\ Accepted(j)[n] = log[j][b]

LEMMA OrderedInductive ==
  ASSUME OrderInv, Ordered, [Next]_vars
  PROVE  Ordered'
<1> SUFFICES ASSUME NEW j \in Job,
                    NEW a \in 1..Len(log'[j]), NEW b \in 1..Len(log'[j]), a <= b
             PROVE  \E m, n \in 1..Len(retired'[j] \o seqs'[j]) :
                      /\ m <= n /\ n <= Len(retired'[j]) + 1
                      /\ (retired'[j] \o seqs'[j])[m] = log'[j][a]
                      /\ (retired'[j] \o seqs'[j])[n] = log'[j][b]
  BY DEF Ordered, Accepted
<1> DEFINE acc == retired[j] \o seqs[j]
<1>1. /\ seqs[j] \in Seq(Uid) /\ retired[j] \in Seq(Uid) /\ log[j] \in Seq(Uid)
      /\ Len(retired[j]) \in Nat /\ Len(log[j]) \in Nat /\ Len(acc) \in Nat
  BY LenProperties, ConcatProperties DEF OrderInv, TypeInv, TypeOK
<1>2. \A c, d \in 1..Len(log[j]) : c <= d =>
        \E m, n \in 1..Len(acc) :
          /\ m <= n /\ n <= Len(retired[j]) + 1
          /\ acc[m] = log[j][c] /\ acc[n] = log[j][d]
  BY DEF Ordered, Accepted
<1>3. CASE AcceptsOrPops(j)
  <2> DEFINE new == retired'[j] \o seqs'[j]
  <2>1. /\ seqs'[j] \in Seq(Uid) /\ retired'[j] \in Seq(Uid)
        /\ Len(retired'[j]) \in Nat /\ Len(new) \in Nat
    BY TypeInductive, LenProperties, ConcatProperties DEF OrderInv, TypeInv, TypeOK
  <2>2. a \in 1..Len(log[j]) /\ b \in 1..Len(log[j])
    BY <1>3 DEF AcceptsOrPops
  <2>3. PICK m \in 1..Len(acc) : \E n \in 1..Len(acc) :
               /\ m <= n /\ n <= Len(retired[j]) + 1
               /\ acc[m] = log[j][a] /\ acc[n] = log[j][b]
    BY <1>2, <2>2
  <2>4. PICK n \in 1..Len(acc) :
               /\ m <= n /\ n <= Len(retired[j]) + 1
               /\ acc[m] = log[j][a] /\ acc[n] = log[j][b]
    BY <2>3
  <2>5. m \in 1..Len(new) /\ n \in 1..Len(new) /\ new[m] = acc[m] /\ new[n] = acc[n]
    <3>1. Len(acc) <= Len(new) /\ \A i \in 1..Len(acc) : new[i] = acc[i]
      BY <1>3 DEF AcceptsOrPops, Extends
    <3> HIDE DEF acc, new
    <3> QED
      BY <1>1, <2>1, <3>1, SMTT(30)
  <2>6. n <= Len(retired'[j]) + 1
    BY <1>1, <1>3, <2>1, <2>4 DEF AcceptsOrPops
  <2>7. new[m] = log'[j][a] /\ new[n] = log'[j][b]
    BY <1>3, <2>4, <2>5 DEF AcceptsOrPops
  <2> HIDE DEF acc, new
  <2>8. \E k, i \in 1..Len(new) : /\ k <= i /\ i <= Len(retired'[j]) + 1
                                  /\ new[k] = log'[j][a] /\ new[i] = log'[j][b]
    BY <2>4, <2>5, <2>6, <2>7
  <2> QED
    BY <2>8 DEF new
<1>4. CASE ExecutesHead(j)
  <2> DEFINE N == Len(retired[j]) + 1
             L == Len(log[j]) + 1
  <2>1. N \in 1..Len(acc) /\ acc[N] = Head(seqs[j])
    <3>1. seqs[j] # <<>> /\ Len(seqs[j]) \in Nat \ {0} /\ Head(seqs[j]) = seqs[j][1]
      BY <1>1, <1>4, EmptySeq DEF ExecutesHead
    <3>2. /\ Len(acc) = Len(retired[j]) + Len(seqs[j])
          /\ \A i \in 1..(Len(retired[j]) + Len(seqs[j])) :
               acc[i] = IF i <= Len(retired[j]) THEN retired[j][i]
                                                ELSE seqs[j][i - Len(retired[j])]
      BY <1>1, ConcatProperties
    <3>3. N - Len(retired[j]) = 1 /\ ~(N <= Len(retired[j]))
      BY <1>1
    <3>4. N \in 1..(Len(retired[j]) + Len(seqs[j]))
      <4>1. \A x \in Nat, y \in Nat \ {0} : x + 1 \in 1..(x + y)
        OBVIOUS
      <4> QED
        BY <1>1, <3>1, <4>1
    <3> QED
      BY <3>1, <3>2, <3>3, <3>4
  <2>2. /\ Len(log'[j]) = L /\ log'[j][L] = Head(seqs[j])
        /\ \A i \in 1..Len(log[j]) : log'[j][i] = log[j][i]
    <3>1. Head(seqs[j]) \in Uid
      BY <1>1, <1>4, HeadTailProperties DEF ExecutesHead
    <3> QED
      BY <1>1, <1>4, <3>1, AppendProperties DEF ExecutesHead
  <2>3. retired'[j] = retired[j] /\ seqs'[j] = seqs[j]
    BY <1>4 DEF ExecutesHead
  <2>4. \E m, n \in 1..Len(acc) : /\ m <= n /\ n <= N
                                  /\ acc[m] = log'[j][a] /\ acc[n] = log'[j][b]
    <3>1. CASE b # L
      <4>1. a \in 1..Len(log[j]) /\ b \in 1..Len(log[j])
        BY <1>1, <2>2, <3>1
      <4>2. log'[j][a] = log[j][a] /\ log'[j][b] = log[j][b]
        BY <2>2, <4>1
      <4> HIDE DEF acc
      <4>3. \E m, n \in 1..Len(acc) :
               /\ m <= n /\ n <= Len(retired[j]) + 1
               /\ acc[m] = log[j][a] /\ acc[n] = log[j][b]
        BY <1>2, <4>1
      <4> QED
        BY <4>2, <4>3
    <3>2. CASE b = L /\ a # L
      <4>1. a \in 1..Len(log[j])
        BY <1>1, <2>2, <3>2
      <4>2. PICK n \in 1..Len(acc) : n <= N /\ acc[n] = log[j][a]
        <5> HIDE DEF acc
        <5> QED
          BY <1>1, <1>2, <4>1
      <4> HIDE DEF acc
      <4> QED
        BY <2>1, <2>2, <3>2, <4>1, <4>2, SMTT(20)
    <3>3. CASE b = L /\ a = L
      <4> HIDE DEF acc
      <4> QED
        BY <1>1, <2>1, <2>2, <3>3, SMTT(30)
    <3> QED
      BY <3>1, <3>2, <3>3
  <2> QED
    BY <2>3, <2>4
<1>5. QueueStep
  BY NextQueueStep
<1> QED
  BY <1>3, <1>4, <1>5, JobStep

\* Actions of a job are executed in the order in which they were accepted, for
\* any number of proxies, jobs and actions, any interleaving, redelivery, zap,
\* crash and failed call, if a lease outlives the message processed under it
\* (process_queue_message_v1 works at the head of the sequence, not on the
\* action its message names).
THEOREM ExecutedInOrder ==
  ASSUME Overrun = FALSE
  PROVE  Spec => []FifoPerJob
<1> DEFINE FifoInv == OrderInv /\ Ordered
<1>1. Init => FifoInv
  <2>1. Init => Ordered
    BY DEF Init, Ordered
  <2> QED
    BY <2>1, OrderInit
<1>2. FifoInv /\ [Next]_vars => FifoInv'
  BY OrderInductive, OrderedInductive
<1>3. FifoInv => FifoPerJob
  <2> SUFFICES ASSUME Ordered, NEW j \in Job,
                      NEW a \in 1..Len(log[j]), NEW b \in 1..Len(log[j]), a <= b
               PROVE  \E m, n \in 1..Len(Accepted(j)) :
                        m <= n /\ Accepted(j)[m] = log[j][a] /\ Accepted(j)[n] = log[j][b]
    BY DEF FifoPerJob
  <2>1. \E m, n \in 1..Len(Accepted(j)) :
          /\ m <= n /\ n <= Len(retired[j]) + 1
          /\ Accepted(j)[m] = log[j][a] /\ Accepted(j)[n] = log[j][b]
    BY DEF Ordered
  <2> QED
    BY <2>1
<1> QED
  BY <1>1, <1>2, <1>3, PTL DEF Spec

(***************************************************************************)
(* Loss.  What a proxy pops was executed, zapped or rolled back, and the   *)
(* pipeline implements JobActionQueue.  Both need the two assumptions that *)
(* runs of MCFedActions show to be needed: a lease outlives the message    *)
(* processed under it, and reading an existing message blob succeeds.      *)
(***************************************************************************)

\* What a step may add to the history of executions and withdrawals.
HistoryStep ==
  /\ voided \subseteq voided'
  /\ \/ UNCHANGED log
     \/ \E p \in Proxy : /\ pc[p] = "exec"
                         /\ log' = [log EXCEPT ![JobOf[head[p]]] = Append(@, head[p])]

\* What a step may pop.
RetireStep ==
  \/ UNCHANGED retired
  \/ \E p \in Proxy :
       /\ pc[p] = "write"
       /\ retired' = [retired EXCEPT ![JobOf[cur[p]]] = Append(@, Head(snap[p]))]

\* A blob goes because its action is withdrawn or was executed.
BlobStep ==
  \A u \in blob \ blob' : u \in voided' \/ \E p \in Proxy : pc[p] = "clean" /\ head[p] = u

\* How a proxy gets past the execution.
PastExecution(p) ==
  /\ cur'[p] = cur[p] /\ head'[p] = head[p]
  /\ \/ pc[p] \in {"clean", "pop", "write"}
     \/ pc[p] = "get" /\ pc'[p] = "pop" /\ head[p] \notin blob
     \/ /\ pc[p] = "exec"
        /\ log' = [log EXCEPT ![JobOf[head[p]]] = Append(@, head[p])]
  /\ pc'[p] = "clean" => pc[p] \in {"exec", "clean"}

LEMMA HistoryStepLemma ==
  ASSUME TypeInv, [Next]_vars
  PROVE  HistoryStep /\ RetireStep /\ BlobStep
<1> USE DEF clientVars, storeVars, proxyVars, lockVars, histVars
<1>1. CASE \E u \in Uid : Submit(u) \/ PutFails(u) \/ Zap(u)
  BY <1>1 DEF Submit, Upload, ReadSequence, Upsert, PutMessage, PutFails, Zap,
              RollBack, HistoryStep, RetireStep, BlobStep
<1>2. ASSUME NEW p \in Proxy, Execute(p)
      PROVE  HistoryStep /\ RetireStep /\ BlobStep
  BY <1>2 DEF Execute, HistoryStep, RetireStep, BlobStep
<1>3. ASSUME NEW p \in Proxy, DeleteBlob(p)
      PROVE  HistoryStep /\ RetireStep /\ BlobStep
  BY <1>3 DEF DeleteBlob, HistoryStep, RetireStep, BlobStep
<1>4. ASSUME NEW p \in Proxy, PopWrite(p)
      PROVE  HistoryStep /\ RetireStep /\ BlobStep
  <2>1. /\ UNCHANGED <<voided, log, blob>>
        /\ \/ UNCHANGED retired
           \/ /\ pc[p] = "write"
              /\ retired' = [retired EXCEPT ![JobOf[cur[p]]] = Append(@, Head(snap[p]))]
    BY <1>4 DEF PopWrite
  <2> QED
    BY <2>1 DEF HistoryStep, RetireStep, BlobStep
<1>5. ASSUME NEW p \in Proxy,
             \/ \E u \in Uid : ReadHead(p, u)
             \/ GetBlob(p) \/ PopRead(p) \/ DeleteMessage(p) \/ LockLost(p)
             \/ Block(p) \/ ExecuteRaises(p)
             \/ \E ms \in SUBSET queue : Fetch(p, ms)
             \/ AcquireLease(p) \/ RenewFails(p) \/ Crash(p) \/ Restart(p)
      PROVE  HistoryStep /\ RetireStep /\ BlobStep
  BY <1>5 DEF ReadHead, GetBlob, PopRead, DeleteMessage, LockLost, Block,
              ExecuteRaises, Fetch, AcquireLease, RenewFails, Crash, Restart,
              HistoryStep, RetireStep, BlobStep
<1>6. CASE LeaseExpires \/ UNCHANGED vars
  BY <1>6 DEF LeaseExpires, vars, HistoryStep, RetireStep, BlobStep
<1> QED
  BY <1>1, <1>2, <1>3, <1>4, <1>5, <1>6 DEF Next, Handle

\* An id enters a sequence from a command whose blob is there.
LEMMA Sequenced ==
  ASSUME TypeInv, Uploaded, [Next]_vars,
         NEW j \in Job, NEW u \in Elements(seqs'[j]), u \notin Elements(seqs[j])
  PROVE  u \in blob'
<1> USE DEF clientVars, storeVars, proxyVars, lockVars, histVars
<1>1. seqs[j] \in Seq(Uid)
  BY DEF TypeInv, TypeOK
<1>2. ASSUME NEW w \in Uid, Upsert(w)
      PROVE  u \in blob'
  <2>1. /\ client[w] \in {"inserting", "merging"}
        /\ seqs' = [seqs EXCEPT ![JobOf[w]] = Append(@, w)]
        /\ UNCHANGED blob
    BY <1>2 DEF Upsert
  <2>2. u = w
    BY <1>1, <2>1, ElementsAppend DEF TypeInv, TypeOK
  <2> QED
    BY <2>1, <2>2 DEF Uploaded
<1>3. ASSUME NEW p \in Proxy, PopWrite(p)
      PROVE  FALSE
  <2>1. /\ seqs[JobOf[cur[p]]] = snap[p] /\ pc[p] = "write"
        /\ seqs' = [seqs EXCEPT ![JobOf[cur[p]]] = Tail(snap[p])]
    BY <1>3 DEF PopWrite
  <2>2. snap[p] # <<>> /\ snap[p] \in Seq(Uid)
    BY <2>1 DEF TypeInv, TypeOK, WorkTyped
  <2>3. Elements(Tail(snap[p])) \subseteq Elements(snap[p])
    BY <2>2, ElementsTail
  <2>4. seqs'[j] = seqs[j] \/ (seqs[j] = snap[p] /\ seqs'[j] = Tail(snap[p]))
    BY <2>1 DEF TypeInv, TypeOK
  <2> QED
    BY <2>3, <2>4
<1>4. CASE ~((\E w \in Uid : Upsert(w)) \/ (\E p \in Proxy : PopWrite(p)))
  <2>1. UNCHANGED seqs
    BY <1>4, ZenonT(30)
       DEF Next, Submit, Upload, ReadSequence, PutMessage, PutFails, Zap, Handle,
           ReadHead, GetBlob, Execute, DeleteBlob, PopRead, DeleteMessage,
           LockLost, Block, ExecuteRaises, Fetch, AcquireLease, RenewFails,
           Crash, Restart, LeaseExpires, vars
  <2> QED
    BY <2>1
<1> QED
  BY <1>2, <1>3, <1>4

LEMMA HistoryGrows ==
  ASSUME TypeInv, [Next]_vars, NEW j \in Job
  PROVE  Elements(log[j]) \subseteq Elements(log'[j]) /\ voided \subseteq voided'
<1>1. HistoryStep
  BY HistoryStepLemma
<1>2. ASSUME NEW p \in Proxy, pc[p] = "exec",
             log' = [log EXCEPT ![JobOf[head[p]]] = Append(@, head[p])]
      PROVE  Elements(log[j]) \subseteq Elements(log'[j])
  <2>1. head[p] \in Uid /\ log[j] \in Seq(Uid)
    BY <1>2 DEF TypeInv, TypeOK, WorkTyped, Busy
  <2>2. log'[j] = log[j] \/ log'[j] = Append(log[j], head[p])
    BY <1>2 DEF TypeInv, TypeOK
  <2> QED
    BY <2>1, <2>2, ElementsAppend
<1> QED
  BY <1>1, <1>2 DEF HistoryStep

LEMMA AccountedInductive ==
  ASSUME LossInv, [Next]_vars
  PROVE  Accounted'
<1> SUFFICES ASSUME NEW j \in Job, NEW u \in Elements(seqs'[j])
             PROVE  u \in blob' \/ u \in voided' \/ u \in Elements(log'[j])
  BY DEF Accounted
<1>1. CASE u \notin Elements(seqs[j])
  BY <1>1, Sequenced DEF LossInv, OrderInv
<1>2. CASE u \in Elements(seqs[j])
  <2>1. CASE u \in voided \/ u \in Elements(log[j])
    BY <2>1, HistoryGrows DEF LossInv, OrderInv
  <2>2. CASE u \in blob
    <3>1. BlobStep
      BY HistoryStepLemma DEF LossInv, OrderInv
    <3>2. ASSUME NEW p \in Proxy, pc[p] = "clean", head[p] = u
          PROVE  u \in Elements(log'[j])
      <4>1. JobOf[u] = JobOf[cur[p]] /\ JobOf[u] = j
        BY <1>2, <3>2, WorkOwned DEF LossInv, OrderInv, SeqOwned, Busy
      <4>2. u \in Elements(log[j])
        BY <3>2, <4>1 DEF LossInv, PopIsDone
      <4> QED
        BY <4>2, HistoryGrows DEF LossInv, OrderInv
    <3> QED
      BY <2>2, <3>1, <3>2 DEF BlobStep
  <2> QED
    BY <1>2, <2>1, <2>2 DEF LossInv, Accounted
<1> QED
  BY <1>1, <1>2

LEMMA UploadedInductive ==
  ASSUME LossInv, [Next]_vars
  PROVE  Uploaded'
<1> USE DEF clientVars, storeVars, proxyVars, lockVars, histVars
<1>1. ASSUME NEW u \in Uid, Submit(u) \/ PutFails(u) \/ Zap(u)
      PROVE  Uploaded'
  BY <1>1 DEF LossInv, OrderInv, TypeInv, TypeOK, Uploaded, Submit, Upload,
              ReadSequence, Upsert, PutMessage, PutFails, Zap, Stage, RollBack
<1>2. ASSUME NEW p \in Proxy, DeleteBlob(p)
      PROVE  Uploaded'
  <2>1. client[head[p]] \in {"sequenced", "queued", "stranded"}
    BY <1>2, WorkOwned DEF LossInv, DeleteBlob, Busy
  <2>2. UNCHANGED client /\ blob \subseteq blob' \cup {head[p]}
    BY <1>2 DEF DeleteBlob
  <2> QED
    BY <2>1, <2>2 DEF LossInv, Uploaded
<1>3. CASE ~(\/ \E u \in Uid : Submit(u) \/ PutFails(u) \/ Zap(u)
             \/ \E p \in Proxy : DeleteBlob(p))
  <2>1. UNCHANGED <<client, blob>>
    BY <1>3, ZenonT(40)
       DEF Next, Handle, ReadHead, GetBlob, Execute, PopRead, PopWrite,
           DeleteMessage, LockLost, Block, ExecuteRaises, Fetch, AcquireLease,
           RenewFails, Crash, Restart, LeaseExpires, vars
  <2> QED
    BY <2>1 DEF LossInv, Uploaded
<1> QED
  BY <1>1, <1>2, <1>3

\* Without blob faults a proxy gets past the execution by executing the action
\* or by finding its blob gone.
LEMMA PastExecutionLemma ==
  ASSUME TypeInv, [Next]_vars, BlobFaults = FALSE,
         NEW p \in Proxy, pc'[p] \in {"clean", "pop", "write"}
  PROVE  PastExecution(p)
<1> USE DEF clientVars, storeVars, proxyVars, lockVars, histVars
<1>1. CASE UNCHANGED proxyVars
  BY <1>1 DEF PastExecution
<1>2. ASSUME NEW q \in Proxy,
             \/ \E u \in Uid : ReadHead(q, u)
             \/ GetBlob(q) \/ Execute(q) \/ DeleteBlob(q) \/ PopRead(q)
             \/ DeleteMessage(q) \/ LockLost(q) \/ Block(q) \/ ExecuteRaises(q)
             \/ Crash(q) \/ Restart(q) \/ \E ms \in SUBSET queue : Fetch(q, ms)
      PROVE  PastExecution(p)
  <2> USE DEF TypeInv, TypeOK, PastExecution
  <2>1. CASE \E u \in Uid : ReadHead(q, u)
    BY <2>1 DEF ReadHead, Goto
  <2>2. CASE GetBlob(q)
    BY <2>2 DEF GetBlob, Goto
  <2>3. CASE Execute(q)
    BY <2>3 DEF Execute, Goto
  <2>4. CASE DeleteBlob(q)
    BY <2>4 DEF DeleteBlob, Goto, Abort, Leave
  <2>5. CASE PopRead(q)
    BY <2>5 DEF PopRead, Goto, Abort, Leave
  <2>6. CASE DeleteMessage(q) \/ LockLost(q)
    BY <2>6 DEF DeleteMessage, LockLost, NextMessage, Abort, Leave, Goto
  <2>7. CASE Block(q) \/ ExecuteRaises(q)
    BY <2>7 DEF Block, ExecuteRaises, NextMessage, Abort, Leave, Goto
  <2>8. CASE Crash(q) \/ Restart(q)
    BY <2>8 DEF Crash, Restart, Leave, Goto
  <2>9. CASE \E ms \in SUBSET queue : Fetch(q, ms)
    BY <2>9 DEF Fetch
  <2> QED
    BY <1>2, <2>1, <2>2, <2>3, <2>4, <2>5, <2>6, <2>7, <2>8, <2>9
<1>3. ASSUME NEW q \in Proxy, PopWrite(q)
      PROVE  PastExecution(p)
  <2>1. /\ pc[q] = "write"
        /\ \/ Goto(q, "ack") /\ UNCHANGED <<batch, cur, head, ack, snap>>
           \/ Goto(q, "pop") /\ UNCHANGED <<batch, cur, head, ack, snap>>
           \/ NextMessage(q)
           \/ Abort(q)
    BY <1>3 DEF PopWrite
  <2> QED
    BY <2>1 DEF NextMessage, Abort, Leave, Goto, TypeInv, TypeOK, PastExecution
<1>4. CASE \E u \in Uid : Submit(u) \/ PutFails(u) \/ Zap(u)
  BY <1>1, <1>4 DEF Submit, Upload, ReadSequence, Upsert, PutMessage, PutFails,
                    Zap
<1>5. CASE \/ LeaseExpires \/ UNCHANGED vars
           \/ \E q \in Proxy : AcquireLease(q) \/ RenewFails(q)
  BY <1>1, <1>5 DEF LeaseExpires, vars, AcquireLease, RenewFails
<1> QED
  BY <1>2, <1>3, <1>4, <1>5 DEF Next, Handle

LEMMA PopIsDoneInductive ==
  ASSUME LossInv, [Next]_vars, BlobFaults = FALSE
  PROVE  PopIsDone'
<1> SUFFICES ASSUME NEW p \in Proxy, pc'[p] \in {"clean", "pop", "write"}
             PROVE  /\ pc'[p] = "clean" =>
                         head'[p] \in Elements(log'[JobOf[cur'[p]]])
                    /\ head'[p] \in Elements(log'[JobOf[cur'[p]]]) \cup voided'
  BY DEF PopIsDone
<1>1. PastExecution(p)
  BY PastExecutionLemma DEF LossInv, OrderInv
<1>2. pc[p] \in Busy \ {"ack"}
  BY <1>1 DEF PastExecution, Busy
<1> DEFINE j == JobOf[cur[p]]
<1>3. /\ j \in Job /\ head[p] \in Uid /\ JobOf[head[p]] = j
      /\ head[p] \in Elements(seqs[j])
  BY <1>2, WorkOwned DEF LossInv
<1>4. Elements(log[j]) \subseteq Elements(log'[j]) /\ voided \subseteq voided'
  BY <1>3, HistoryGrows DEF LossInv, OrderInv
<1>5. CASE pc[p] \in {"clean", "pop", "write"}
  BY <1>1, <1>4, <1>5 DEF LossInv, PopIsDone, PastExecution
<1>6. CASE pc[p] = "get" /\ pc'[p] = "pop" /\ head[p] \notin blob
  <2>1. head[p] \in voided \/ head[p] \in Elements(log[j])
    BY <1>3, <1>6 DEF LossInv, Accounted
  <2> QED
    BY <1>1, <1>4, <1>6, <2>1 DEF PastExecution
<1>7. CASE /\ pc[p] = "exec"
           /\ log' = [log EXCEPT ![JobOf[head[p]]] = Append(@, head[p])]
  <2>1. log[j] \in Seq(Uid) /\ log'[j] = Append(log[j], head[p])
    BY <1>3, <1>7 DEF LossInv, OrderInv, TypeInv, TypeOK
  <2>2. head[p] \in Elements(log'[j])
    BY <1>3, <2>1, ElementsAppend
  <2> QED
    BY <1>1, <2>2 DEF PastExecution
<1> QED
  BY <1>1, <1>5, <1>6, <1>7 DEF PastExecution

LEMMA NoActionLostInductive ==
  ASSUME LossInv, [Next]_vars
  PROVE  NoActionLost'
<1> SUFFICES ASSUME NEW j \in Job
             PROVE  Elements(retired'[j]) \subseteq Elements(log'[j]) \cup voided'
  BY DEF NoActionLost
<1>1. Elements(retired[j]) \subseteq Elements(log'[j]) \cup voided'
  BY HistoryGrows DEF LossInv, OrderInv, NoActionLost
<1>2. RetireStep
  BY HistoryStepLemma DEF LossInv, OrderInv
<1>3. CASE UNCHANGED retired
  BY <1>1, <1>3
<1>4. ASSUME NEW p \in Proxy, pc[p] = "write",
             retired' = [retired EXCEPT ![JobOf[cur[p]]] = Append(@, Head(snap[p]))]
      PROVE  Elements(retired'[j]) \subseteq Elements(log'[j]) \cup voided'
  <2>1. Head(snap[p]) = head[p]
    BY <1>4 DEF LossInv, OrderInv, AtHead
  <2>2. head[p] \in Uid /\ retired[j] \in Seq(Uid)
    BY <1>4, WorkOwned DEF LossInv, OrderInv, TypeInv, TypeOK, Busy
  <2>3. \/ retired'[j] = retired[j]
        \/ j = JobOf[cur[p]] /\ retired'[j] = Append(retired[j], head[p])
    BY <1>4, <2>1 DEF LossInv, OrderInv, TypeInv, TypeOK
  <2>4. j = JobOf[cur[p]] => head[p] \in Elements(log[j]) \cup voided
    BY <1>4 DEF LossInv, PopIsDone
  <2>5. Elements(log[j]) \subseteq Elements(log'[j]) /\ voided \subseteq voided'
    BY HistoryGrows DEF LossInv, OrderInv
  <2>6. Elements(Append(retired[j], head[p])) = Elements(retired[j]) \cup {head[p]}
    BY <2>2, ElementsAppend
  <2>7. CASE retired'[j] = retired[j]
    BY <1>1, <2>7
  <2>8. CASE j = JobOf[cur[p]] /\ retired'[j] = Append(retired[j], head[p])
    BY <1>1, <2>4, <2>5, <2>6, <2>8
  <2> QED
    BY <2>3, <2>7, <2>8
<1> QED
  BY <1>2, <1>3, <1>4 DEF RetireStep

LEMMA LossInductive ==
  ASSUME Overrun = FALSE, BlobFaults = FALSE, LossInv, [Next]_vars
  PROVE  LossInv'
BY OrderInductive, AccountedInductive, UploadedInductive, PopIsDoneInductive,
   NoActionLostInductive
   DEF LossInv

LEMMA LossInit == Init => LossInv
<1> SUFFICES ASSUME Init PROVE LossInv
  OBVIOUS
<1>1. OrderInv
  BY OrderInit
<1>2. \A j \in Job : Elements(seqs[j]) = {} /\ Elements(retired[j]) = {}
  BY DEF Init, Elements
<1> QED
  BY <1>1, <1>2
     DEF LossInv, Accounted, Uploaded, PopIsDone, NoActionLost, Init

\* No action is lost by process_queue_message_v1, for any number of proxies,
\* jobs and actions and any number of crashes and failed calls, if a lease
\* outlives the message processed under it and blobs that exist can be read.
THEOREM NothingLost ==
  ASSUME Overrun = FALSE, BlobFaults = FALSE
  PROVE  Spec => []NoActionLost
<1>1. LossInv /\ [Next]_vars => LossInv'
  BY LossInductive
<1>2. LossInv => NoActionLost
  BY DEF LossInv
<1> QED
  BY LossInit, <1>1, <1>2, PTL DEF Spec

\* Two proxies are never inside a message at once, and the message a proxy
\* works on is at the head of its job's sequence, if a lease outlives the
\* message processed under it: check_global_lock is asked only between two
\* messages.
THEOREM OneWorkerAtTheHead ==
  ASSUME Overrun = FALSE
  PROVE  Spec => [](Exclusive /\ AtHead)
<1>1. OrderInv /\ [Next]_vars => OrderInv'
  BY OrderInductive
<1>2. OrderInv => Exclusive /\ AtHead
  BY DEF OrderInv
<1> QED
  BY OrderInit, <1>1, <1>2, PTL DEF Spec

(***************************************************************************)
(* The pipeline implements the per-job action queue: a step of it accepts, *)
(* withdraws, performs or retires an action, or changes nothing there.     *)
(***************************************************************************)
LEMMA PromiseInit == Init => Promise!Init
BY DEF Init, Promise!Init

LEMMA PromiseStep ==
  ASSUME LossInv, [Next]_vars
  PROVE  [Promise!Next]_Promise!vars
<1>1. QueueStep
  BY NextQueueStep
<1>2. CASE UNCHANGED <<seqs, retired, log>> /\ UNCHANGED voided
  BY <1>2 DEF Promise!vars
<1>3. ASSUME NEW u \in Uid, UNCHANGED <<seqs, retired, log>>,
             voided' = voided \cup {u}
      PROVE  Promise!Next
  BY <1>3 DEF Promise!Next, Promise!Withdraw
<1>4. ASSUME NEW u \in Uid, seqs' = [seqs EXCEPT ![JobOf[u]] = Append(@, u)],
             UNCHANGED <<retired, log, voided>>
      PROVE  Promise!Next
  <2>1. JobOf[u] \in Job
    BY ConstantsAssumption
  <2>2. Promise!Accept(JobOf[u], u)
    BY <1>4 DEF Promise!Accept
  <2> QED
    BY <2>1, <2>2 DEF Promise!Next
<1>5. ASSUME NEW p \in Proxy, pc[p] = "exec",
             log' = [log EXCEPT ![JobOf[head[p]]] = Append(@, head[p])],
             UNCHANGED <<seqs, retired, voided>>
      PROVE  Promise!Next
  <2>1. /\ JobOf[cur[p]] \in Job /\ JobOf[head[p]] = JobOf[cur[p]]
        /\ seqs[JobOf[cur[p]]] # <<>> /\ Head(seqs[JobOf[cur[p]]]) = head[p]
    BY <1>5, WorkOwned DEF LossInv, OrderInv, AtHead, Busy
  <2>2. Promise!Perform(JobOf[cur[p]])
    BY <1>5, <2>1 DEF Promise!Perform
  <2> QED
    BY <2>1, <2>2 DEF Promise!Next
<1>6. ASSUME NEW p \in Proxy,
             pc[p] = "write", seqs[JobOf[cur[p]]] = snap[p],
             seqs' = [seqs EXCEPT ![JobOf[cur[p]]] = Tail(@)],
             UNCHANGED <<log, voided>>
      PROVE  Promise!Next
  <2>1. /\ JobOf[cur[p]] \in Job
        /\ seqs[JobOf[cur[p]]] # <<>> /\ Head(seqs[JobOf[cur[p]]]) = head[p]
    BY <1>6, WorkOwned DEF LossInv, OrderInv, AtHead, Busy
  <2>2. head[p] \in Elements(log[JobOf[cur[p]]]) \/ head[p] \in voided
    BY <1>6 DEF LossInv, PopIsDone
  <2>3. Promise!Performed(JobOf[cur[p]], head[p]) \/ head[p] \in voided
    BY <2>2 DEF Promise!Performed, Elements
  <2>4. Promise!Retire(JobOf[cur[p]])
    BY <1>6, <2>1, <2>3 DEF Promise!Retire
  <2> QED
    BY <2>1, <2>4 DEF Promise!Next
<1> QED
  BY <1>1, <1>2, <1>3, <1>4, <1>5, <1>6 DEF QueueStep

\* What the federation promises of the actions of a job (JobActionQueue) is what
\* process_federation_queue and the submitting commands do, for any number of
\* them, under the two assumptions of NothingLost.
THEOREM KeepsThePromise ==
  ASSUME Overrun = FALSE, BlobFaults = FALSE
  PROVE  Spec => ImplementsPromise
<1>1. LossInv /\ [Next]_vars => LossInv'
  BY LossInductive
<1>2. LossInv /\ [Next]_vars => [Promise!Next]_Promise!vars
  BY PromiseStep
<1> QED
  BY LossInit, PromiseInit, <1>1, <1>2, PTL DEF Spec, ImplementsPromise, Promise!Spec

(***************************************************************************)
(* Unique job ids.  The locations of a job come from one add action.       *)
(*                                                                         *)
(* The argument: an add is only accepted by an insert, that is as the      *)
(* first action of a new entity (FirstOnly, MergesNoAdd); an entity is     *)
(* only deleted by the pop that empties it, and then the job has no        *)
(* locations (Guarded); so an add at the head finds no locations but its   *)
(* own (OwnLocations).                                                     *)
(***************************************************************************)
IsAdd(u) == MethodOf[u] = "add"

Guarded(j) == j \notin entity => seqs[j] = <<>> /\ located[j] = {}

FirstOnly(j) == \A i \in 2..Len(seqs[j]) : ~ IsAdd(seqs[j][i])

OwnLocations(j) ==
  /\ \A u, v \in located[j] : u = v
  /\ seqs[j] # <<>> /\ IsAdd(Head(seqs[j])) => located[j] \subseteq {Head(seqs[j])}

MergesNoAdd == \A u \in Uid : client[u] = "merging" => ~ IsAdd(u)

OneAdd ==
  MergesNoAdd /\ \A j \in Job : Guarded(j) /\ FirstOnly(j) /\ OwnLocations(j)

\* How a step changes the entity, the sequence and the locations of a job.
Accepts(u) ==
  /\ JobOf[u] \in entity => ~ IsAdd(u)
  /\ entity' = entity \cup {JobOf[u]}
  /\ seqs' = [seqs EXCEPT ![JobOf[u]] = Append(@, u)]
  /\ UNCHANGED located

Performs(p) ==
  /\ pc[p] = "exec"
  /\ located' \in LocatedAfter(head[p])
  /\ UNCHANGED <<entity, seqs>>

PopsEntity(p) ==
  LET j == JobOf[cur[p]] IN
  /\ pc[p] = "write" /\ seqs[j] = snap[p]
  /\ seqs' = [seqs EXCEPT ![j] = Tail(@)]
  /\ entity' = IF Len(snap[p]) = 1 /\ located[j] = {} THEN entity \ {j} ELSE entity
  /\ UNCHANGED located

EntityStep ==
  \/ UNCHANGED <<entity, seqs, located>>
  \/ \E u \in Uid : Accepts(u)
  \/ \E p \in Proxy : Performs(p) \/ PopsEntity(p)

LEMMA NextEntityStep ==
  ASSUME MergesNoAdd, [Next]_vars
  PROVE  EntityStep
<1> USE DEF clientVars, storeVars, proxyVars, lockVars, histVars
<1>1. ASSUME NEW u \in Uid, Upsert(u)
      PROVE  EntityStep
  <2>1. CASE UNCHANGED <<entity, seqs>>
    BY <1>1, <2>1 DEF Upsert, EntityStep
  <2>2. CASE ~ UNCHANGED <<entity, seqs>>
    <3>1. \/ client[u] = "inserting" /\ JobOf[u] \notin entity
          \/ client[u] = "merging" /\ JobOf[u] \in entity
      BY <1>1, <2>2 DEF Upsert
    <3>2. /\ entity' = entity \cup {JobOf[u]}
          /\ seqs' = [seqs EXCEPT ![JobOf[u]] = Append(@, u)]
          /\ UNCHANGED located
      BY <1>1, <2>2 DEF Upsert
    <3>3. Accepts(u)
      BY <3>1, <3>2 DEF Accepts, MergesNoAdd
    <3> QED
      BY <3>3 DEF EntityStep
  <2> QED
    BY <2>1, <2>2
<1>2. ASSUME NEW u \in Uid,
             \/ Upload(u) \/ ReadSequence(u) \/ PutMessage(u) \/ PutFails(u) \/ Zap(u)
      PROVE  EntityStep
  BY <1>2 DEF Upload, ReadSequence, PutMessage, PutFails, Zap, EntityStep
<1>3. ASSUME NEW p \in Proxy, Execute(p) \/ ExecuteRaises(p) \/ Crash(p)
      PROVE  EntityStep
  <2>1. CASE UNCHANGED located
    BY <1>3, <2>1 DEF Execute, ExecuteRaises, Crash, EntityStep
  <2>2. CASE ~ UNCHANGED located
    <3>1. pc[p] = "exec" /\ located' \in LocatedAfter(head[p])
      BY <1>3, <2>2 DEF Execute, ExecuteRaises, Crash
    <3>2. UNCHANGED <<entity, seqs>>
      BY <1>3 DEF Execute, ExecuteRaises, Crash
    <3> QED
      BY <3>1, <3>2 DEF Performs, EntityStep
  <2> QED
    BY <2>1, <2>2
<1>4. ASSUME NEW p \in Proxy, PopWrite(p)
      PROVE  EntityStep
  <2>1. CASE UNCHANGED <<entity, seqs>>
    BY <1>4, <2>1 DEF PopWrite, EntityStep
  <2>2. CASE ~ UNCHANGED <<entity, seqs>>
    <3>1. PopsEntity(p)
      BY <1>4, <2>2 DEF PopWrite, PopsEntity
    <3> QED
      BY <3>1 DEF EntityStep
  <2> QED
    BY <2>1, <2>2
<1>5. ASSUME NEW p \in Proxy,
             \/ \E u \in Uid : ReadHead(p, u)
             \/ GetBlob(p) \/ DeleteBlob(p) \/ PopRead(p) \/ DeleteMessage(p)
             \/ LockLost(p) \/ Block(p)
             \/ \E ms \in SUBSET queue : Fetch(p, ms)
             \/ AcquireLease(p) \/ RenewFails(p) \/ Restart(p)
      PROVE  EntityStep
  BY <1>5 DEF ReadHead, GetBlob, DeleteBlob, PopRead, DeleteMessage, LockLost, Block,
              Fetch, AcquireLease, RenewFails, Restart, EntityStep
<1>6. CASE LeaseExpires \/ UNCHANGED vars
  BY <1>6 DEF LeaseExpires, vars, EntityStep
<1> QED
  BY <1>1, <1>2, <1>3, <1>4, <1>5, <1>6 DEF Next, Handle, Submit

LEMMA MergesNoAddInductive ==
  ASSUME TypeInv, MergesNoAdd, UniqueIds = TRUE, [Next]_vars
  PROVE  MergesNoAdd'
<1> USE DEF MergesNoAdd, IsAdd, Stage, clientVars, storeVars, proxyVars, lockVars,
            histVars
<1>1. client \in [Uid -> Stages]
  BY DEF TypeInv, TypeOK
<1>2. ASSUME NEW u \in Uid, Submit(u) \/ PutFails(u)
      PROVE  MergesNoAdd'
  BY <1>1, <1>2 DEF Submit, Upload, ReadSequence, Upsert, PutMessage, PutFails, RollBack
<1>3. CASE UNCHANGED client
  BY <1>3
<1> QED
  BY <1>2, <1>3, ZenonT(40) DEF Next, Handle, Zap, ReadHead, GetBlob, DeleteBlob, PopRead, PopWrite,
     DeleteMessage, LockLost, Block, Fetch, AcquireLease, RenewFails, Restart, Crash,
     Execute, ExecuteRaises, LeaseExpires, vars

\* An accepted action goes to the end of the sequence; an add only goes to the
\* start of one.
LEMMA AcceptKeepsOneAdd ==
  ASSUME TypeInv, NEW u \in Uid, Accepts(u), NEW j \in Job,
         Guarded(j), FirstOnly(j), OwnLocations(j)
  PROVE  Guarded(j)' /\ FirstOnly(j)' /\ OwnLocations(j)'
<1>1. seqs \in [Job -> Seq(Uid)] /\ seqs[j] \in Seq(Uid) /\ Len(seqs[j]) \in Nat
  BY LenProperties DEF TypeInv, TypeOK
<1>2. CASE j # JobOf[u]
  BY <1>1, <1>2 DEF Accepts, Guarded, FirstOnly, OwnLocations
<1>3. CASE j = JobOf[u]
  <2> DEFINE s == Append(seqs[j], u)
  <2>1. /\ seqs'[j] = s /\ entity' = entity \cup {j} /\ located' = located
        /\ j \notin entity \/ ~ IsAdd(u)
    BY <1>1, <1>3 DEF Accepts
  <2>2. /\ s \in Seq(Uid) /\ s # <<>> /\ Len(s) = Len(seqs[j]) + 1
        /\ \A i \in 1..Len(seqs[j]) : s[i] = seqs[j][i]
        /\ s[Len(seqs[j]) + 1] = u
    BY <1>1, AppendProperties
  <2>3. Head(s) = IF seqs[j] = <<>> THEN u ELSE Head(seqs[j])
    BY <1>1, HeadTailAppend
  <2> HIDE DEF s
  <2>4. Guarded(j)'
    BY <2>1 DEF Guarded
  <2>5. FirstOnly(j)'
    <3> SUFFICES ASSUME NEW i \in 2..Len(s)
                 PROVE  ~ IsAdd(s[i])
      BY <2>1 DEF FirstOnly, IsAdd
    <3>1. CASE i = Len(seqs[j]) + 1
      <4>1. seqs[j] # <<>>
        BY <1>1, <3>1, EmptySeq
      <4> QED
        BY <2>1, <2>2, <3>1, <4>1 DEF Guarded
    <3>2. CASE i # Len(seqs[j]) + 1
      <4>1. i \in 2..Len(seqs[j]) /\ i \in 1..Len(seqs[j])
        BY <1>1, <2>2, <3>2
      <4> QED
        BY <2>2, <4>1 DEF FirstOnly
    <3> QED
      BY <3>1, <3>2
  <2>6. OwnLocations(j)'
    <3>1. CASE seqs[j] = <<>>
      <4>1. IsAdd(u) => located[j] = {}
        BY <2>1 DEF Guarded
      <4> QED
        BY <2>1, <2>2, <2>3, <3>1, <4>1 DEF OwnLocations, IsAdd
    <3>2. CASE seqs[j] # <<>>
      BY <2>1, <2>3, <3>2 DEF OwnLocations, IsAdd
    <3> QED
      BY <3>1, <3>2
  <2> QED
    BY <2>4, <2>5, <2>6
<1> QED
  BY <1>2, <1>3

\* The proxy inside a message performs the head of the sequence.
LEMMA PerformKeepsOneAdd ==
  ASSUME OrderInv, NEW p \in Proxy, Performs(p), NEW j \in Job,
         Guarded(j), FirstOnly(j), OwnLocations(j)
  PROVE  Guarded(j)' /\ FirstOnly(j)' /\ OwnLocations(j)'
<1> DEFINE h == head[p]
<1>1. /\ h \in Uid /\ JobOf[h] = JobOf[cur[p]] /\ JobOf[h] \in Job
      /\ seqs[JobOf[h]] # <<>> /\ Head(seqs[JobOf[h]]) = h
  BY WorkOwned DEF Performs, OrderInv, AtHead, Busy
<1>2. located \in [Job -> SUBSET Uid] /\ MethodOf[h] \in Method
  BY <1>1, ConstantsAssumption DEF OrderInv, TypeInv, TypeOK
<1> HIDE DEF h
<1>3. PICK s \in SUBSET Uid :
        /\ located' = [located EXCEPT ![JobOf[h]] = s]
        /\ IF IsAdd(h) THEN s = located[JobOf[h]] \cup {h} ELSE s \subseteq located[JobOf[h]]
  <2>1. \E s \in SUBSET Uid :
          /\ located' = [located EXCEPT ![JobOf[h]] = s]
          /\ s \in CASE MethodOf[h] = "add"       -> {located[JobOf[h]] \cup {h}}
                     [] MethodOf[h] = "delete"    -> SUBSET located[JobOf[h]]
                     [] MethodOf[h] = "terminate" -> {located[JobOf[h]]}
    BY <1>1, <1>2 DEF Performs, LocatedAfter, Method, h
  <2> QED
    BY <1>2, <2>1 DEF IsAdd, Method
<1>4. seqs' = seqs /\ entity' = entity
  BY DEF Performs
<1>5. CASE j # JobOf[h]
  <2>1. located'[j] = located[j]
    BY <1>2, <1>3, <1>5
  <2> QED
    BY <1>4, <2>1 DEF Guarded, FirstOnly, OwnLocations, IsAdd
<1>6. CASE j = JobOf[h]
  <2>1. located'[j] = s
    BY <1>2, <1>3, <1>6
  <2>2. Guarded(j)' /\ FirstOnly(j)'
    BY <1>1, <1>4, <1>6 DEF Guarded, FirstOnly, IsAdd
  <2>3. CASE IsAdd(h)
    <3>1. located[j] \subseteq {h} /\ s = located[j] \cup {h}
      BY <1>1, <1>3, <1>6, <2>3 DEF OwnLocations
    <3>2. s = {h}
      BY <3>1
    <3> QED
      BY <1>1, <1>4, <1>6, <2>1, <2>2, <3>2 DEF OwnLocations
  <2>4. CASE ~ IsAdd(h)
    <3>1. s \subseteq located[j]
      BY <1>3, <1>6, <2>4
    <3> QED
      BY <1>1, <1>4, <1>6, <2>1, <2>2, <2>4, <3>1 DEF OwnLocations, IsAdd
  <2> QED
    BY <2>3, <2>4
<1> QED
  BY <1>5, <1>6

\* The pop leaves no add in the sequence, and no empty sequence behind an entity
\* it deletes while there are locations.
LEMMA PopKeepsOneAdd ==
  ASSUME OrderInv, NEW p \in Proxy, PopsEntity(p), NEW j \in Job,
         Guarded(j), FirstOnly(j), OwnLocations(j)
  PROVE  Guarded(j)' /\ FirstOnly(j)' /\ OwnLocations(j)'
<1> DEFINE k == JobOf[cur[p]]
<1>1. /\ seqs \in [Job -> Seq(Uid)] /\ k \in Job /\ seqs[j] \in Seq(Uid)
      /\ seqs[k] # <<>>
  BY WorkOwned DEF PopsEntity, OrderInv, TypeInv, TypeOK, AtHead, Busy
<1> HIDE DEF k
<1>2. /\ seqs[k] = snap[p] /\ seqs' = [seqs EXCEPT ![k] = Tail(@)]
      /\ entity' = IF Len(snap[p]) = 1 /\ located[k] = {} THEN entity \ {k} ELSE entity
      /\ located' = located
  BY DEF PopsEntity, k
<1>3. CASE j # k
  BY <1>1, <1>2, <1>3 DEF Guarded, FirstOnly, OwnLocations
<1>4. CASE j = k
  <2> DEFINE s == Tail(seqs[j])
  <2>1. /\ s \in Seq(Uid) /\ Len(s) = Len(seqs[j]) - 1
        /\ \A i \in 1..Len(s) : s[i] = seqs[j][i + 1]
    BY <1>1, <1>4, HeadTailProperties
  <2>2. Len(seqs[j]) \in Nat \ {0} /\ (s # <<>> => Len(s) \in Nat \ {0} /\ Head(s) = s[1])
    BY <1>1, <1>4, <2>1, EmptySeq, SMTT(30)
  <2>3. seqs'[j] = s
    BY <1>1, <1>2, <1>4
  <2> HIDE DEF s
  <2>4. \A i \in 1..Len(s) : ~ IsAdd(s[i])
    <3> SUFFICES ASSUME NEW i \in 1..Len(s)
                 PROVE  ~ IsAdd(s[i])
      OBVIOUS
    <3>1. i + 1 \in 2..Len(seqs[j])
      BY <2>1, <2>2
    <3> QED
      BY <2>1, <3>1 DEF FirstOnly
  <2>5. Guarded(j)'
    <3>1. Len(seqs[j]) = 1 => s = <<>>
      BY <2>1, <2>2
    <3>2. j \in entity
      BY <1>1, <1>4 DEF Guarded
    <3> QED
      BY <1>2, <1>4, <2>3, <3>1, <3>2 DEF Guarded
  <2>6. FirstOnly(j)'
    <3>1. \A i \in 2..Len(s) : ~ IsAdd(s[i])
      BY <2>1, <2>2, <2>4
    <3> QED
      BY <2>3, <3>1 DEF FirstOnly, IsAdd
  <2>7. OwnLocations(j)'
    <3>1. s # <<>> => ~ IsAdd(Head(s))
      BY <2>2, <2>4
    <3> QED
      BY <1>2, <2>3, <3>1 DEF OwnLocations, IsAdd
  <2> QED
    BY <2>5, <2>6, <2>7
<1> QED
  BY <1>3, <1>4

LEMMA OneAddInductive ==
  ASSUME OrderInv, OneAdd, UniqueIds = TRUE, [Next]_vars
  PROVE  OneAdd'
<1>1. MergesNoAdd'
  BY MergesNoAddInductive DEF OrderInv, OneAdd
<1>2. EntityStep
  BY NextEntityStep DEF OneAdd
<1>3. ASSUME NEW j \in Job
      PROVE  (Guarded(j) /\ FirstOnly(j) /\ OwnLocations(j))'
  <2>1. Guarded(j) /\ FirstOnly(j) /\ OwnLocations(j)
    BY DEF OneAdd
  <2>2. CASE UNCHANGED <<entity, seqs, located>>
    BY <2>1, <2>2 DEF Guarded, FirstOnly, OwnLocations, IsAdd
  <2> QED
    BY <1>2, <2>1, <2>2, AcceptKeepsOneAdd, PerformKeepsOneAdd, PopKeepsOneAdd
       DEF EntityStep, OrderInv
<1> QED
  BY <1>1, <1>3 DEF OneAdd

\* In a federation that requires unique job ids the locations of a job come from
\* one add action, whatever submissions race, actions fail half done, blobs cannot
\* be read and proxies crash, if a lease outlives the message processed under it
\* (entity_must_not_exist, dequeue_sequence_id_from_federation_sequence).
THEOREM JobIdsAreUnique ==
  ASSUME Overrun = FALSE
  PROVE  Spec => []UniqueJobIds
<1>1. CASE UniqueIds = TRUE
  <2>1. Init => OrderInv /\ OneAdd
    BY OrderInit DEF Init, OneAdd, MergesNoAdd, Guarded, FirstOnly, OwnLocations
  <2>2. OrderInv /\ OneAdd /\ [Next]_vars => (OrderInv /\ OneAdd)'
    BY <1>1, OrderInductive, OneAddInductive
  <2>3. OneAdd => UniqueJobIds
    BY DEF OneAdd, OwnLocations, UniqueJobIds
  <2> QED
    BY <2>1, <2>2, <2>3, PTL DEF Spec
<1>2. CASE UniqueIds # TRUE
  <2>1. Init => UniqueJobIds
    BY <1>2, ConstantsAssumption DEF UniqueJobIds
  <2>2. UniqueJobIds /\ [Next]_vars => UniqueJobIds'
    BY <1>2, ConstantsAssumption DEF UniqueJobIds
  <2> QED
    BY <2>1, <2>2, PTL DEF Spec
<1> QED
  BY <1>1, <1>2

=============================================================================
