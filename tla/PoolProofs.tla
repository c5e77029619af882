----------------------------- MODULE PoolProofs -----------------------------
(***************************************************************************)
(* Proofs about the nodes of a pool: that cascade implements the permits   *)
(* of Downloads and leaves no lease behind (Cascade), that a pool's        *)
(* storage holds what its nodes need, that their start tasks go through,   *)
(* and that nodes that take tasks are ready for them (PoolOps), for all    *)
(* nodes, images, configurations, commands and faults.                     *)
(*                                                                         *)
(* Cascade: a slot blob is leased by one node at a time, so there are at   *)
(* most N nodes with a lease on a resource.  A resource waits at most once *)
(* in the queue of a node (Once) and is not pulled meanwhile (Waiting): a  *)
(* node that leases a slot for it does not pull it yet.  A lease belongs   *)
(* to a thread that has not released it (Leased).                          *)
(*                                                                         *)
(* The storage: StoreInv says at which steps of the client it is filled    *)
(* while there is no pool and cleared when there is none any more.         *)
(*                                                                         *)
(* The nodes: what each step of the start task needs is shipped with the   *)
(* image, uploaded, or left by an earlier step (FirstRunGoes,              *)
(* LaterRunGoes), and what tasks need is left in the end (FirstRunLeaves,  *)
(* LaterRunLeaves, TasksFindAll).  What a node keeps between its boots is  *)
(* in Good: the marks on its disk tell what its earlier runs left there.   *)
(***************************************************************************)
EXTENDS Cascade, PoolOps, FiniteSetTheorems, SequenceTheorems, TLAPS

Distinct(s) == \A i, j \in 1..Len(s) : s[i] = s[j] => i = j

\* What queue, raised and renewing hold beyond this is in Once and FlagsTyped.
Types ==
  /\ holder \in [Resource -> [Slots -> Node \cup {None}]]
  /\ monitor \in [Node -> {"run", "raised", "done"}]
  /\ queue \in [Node -> Seq(Resource)]
  /\ downloading \in [Node -> SUBSET Resource]
  /\ leases \in [Node -> SUBSET Resource] /\ handles \in [Node -> SUBSET Resource]
  /\ armed \in [Node -> SUBSET Resource]
  /\ thread \in [Node -> [Resource -> ThreadStates]]
  /\ pulled \in [Node -> SUBSET Resource]
  /\ pullFaults \in 0..MaxPullFaults

FlagsTyped ==
  /\ renewing \in [Node -> [resource : Resource \cup {None}, granted : BOOLEAN]]
  /\ raised \in [Node -> BOOLEAN]

Once == \A n \in Node : Distinct(queue[n])

Waiting == \A n \in Node : \A r \in Range(queue[n]) : thread[n][r] = "none"

Leased ==
  \A n \in Node, r \in Resource :
    Holds(n, r) => thread[n][r] \in {"pulling", "cancel", "release", "kept", "over", "dead"}

Inv == Types /\ FlagsTyped /\ Once /\ Waiting /\ Leased

USE CascadeAssumption

----------------------------------------------------------------------------
(* Queues *)

\* A finite set is listed without repetition.
LEMMA SetToSeqIsDistinct ==
  ASSUME NEW S, IsFiniteSet(S)
  PROVE  SetToSeq(S) \in Seq(S) /\ Distinct(SetToSeq(S))
<1>1. Cardinality(S) \in Nat /\ ExistsBijection(1..Cardinality(S), S)
  BY FS_CardinalityType
<1>2. \E f \in [1..Cardinality(S) -> S] : IsInjective(f)
  BY <1>1 DEF ExistsBijection, Bijection, Injection
<1>3. SetToSeq(S) \in [1..Cardinality(S) -> S] /\ IsInjective(SetToSeq(S))
  BY <1>2 DEF SetToSeq
<1> QED
  BY <1>1, <1>3 DEF IsInjective, Distinct

\* What is listed without repetition is no longer than its set.
LEMMA DistinctIsShort ==
  ASSUME NEW S, IsFiniteSet(S), NEW s \in Seq(S), Distinct(s)
  PROVE  s \in SeqOf(S, Cardinality(S))
<1>1. Len(s) \in Nat /\ s \in [1..Len(s) -> S] /\ DOMAIN s = 1..Len(s)
  BY LenProperties
<1>2. s \in Injection(1..Len(s), S)
  BY <1>1 DEF Injection, IsInjective, Distinct
<1>3. Cardinality(1..Len(s)) <= Cardinality(S)
  BY <1>2, FS_Injection
<1>4. Cardinality(1..Len(s)) = Len(s)
  BY <1>1, FS_Interval
<1>5. Len(s) \in 0..Cardinality(S)
  BY <1>1, <1>3, <1>4, FS_CardinalityType
<1> QED
  BY <1>1, <1>5 DEF SeqOf

\* popleft.
LEMMA TakeFirst ==
  ASSUME NEW S, NEW s \in Seq(S), s # << >>, Distinct(s)
  PROVE  /\ Head(s) \in S /\ Head(s) \in Range(s)
         /\ Tail(s) \in Seq(S) /\ Distinct(Tail(s))
         /\ Range(Tail(s)) \subseteq Range(s) \ {Head(s)}
<1>1. /\ Head(s) \in S /\ Tail(s) \in Seq(S)
      /\ Len(Tail(s)) = Len(s) - 1
      /\ \A i \in 1..Len(Tail(s)) : Tail(s)[i] = s[i + 1]
  BY HeadTailProperties
<1>2. Len(s) \in Nat /\ Len(s) # 0 /\ Head(s) = s[1]
  BY EmptySeq, LenProperties
<1>3. /\ Range(s) = {s[i] : i \in 1..Len(s)}
      /\ Range(Tail(s)) = {Tail(s)[i] : i \in 1..Len(Tail(s))}
  BY <1>1, RangeEquality
<1>4. Distinct(Tail(s))
  BY <1>1, <1>2 DEF Distinct
<1>5. ASSUME NEW i \in 1..Len(Tail(s))
      PROVE  Tail(s)[i] \in Range(s) \ {Head(s)}
  <2>1. i + 1 \in 1..Len(s) /\ 1 \in 1..Len(s) /\ i + 1 # 1
    BY <1>1, <1>2
  <2> QED
    BY <1>1, <1>2, <1>3, <2>1 DEF Distinct
<1> QED
  BY <1>1, <1>2, <1>3, <1>4, <1>5

\* popleft, then append.
LEMMA PutLast ==
  ASSUME NEW S, NEW s \in Seq(S), s # << >>, Distinct(s)
  PROVE  LET q == Append(Tail(s), Head(s))
         IN  q \in Seq(S) /\ Distinct(q) /\ Range(q) \subseteq Range(s)
<1> DEFINE t == Tail(s)
           q == Append(t, Head(s))
<1>1. /\ Head(s) \in S /\ Head(s) \in Range(s)
      /\ t \in Seq(S) /\ Distinct(t) /\ Range(t) \subseteq Range(s) \ {Head(s)}
  BY TakeFirst
<1>2. /\ q \in Seq(S) /\ Len(q) = Len(t) + 1
      /\ \A i \in 1..Len(t) : q[i] = t[i]
      /\ q[Len(t) + 1] = Head(s)
  BY <1>1, AppendProperties
<1>3. Len(t) \in Nat /\ Range(t) = {t[i] : i \in 1..Len(t)}
  BY <1>1, RangeEquality, LenProperties
<1>4. Range(q) = {q[i] : i \in 1..Len(q)}
  BY <1>2, RangeEquality
<1> HIDE DEF t, q
<1>5. ASSUME NEW i \in 1..Len(q)
      PROVE  q[i] \in Range(s)
  BY <1>1, <1>2, <1>3
<1>6. ASSUME NEW i \in 1..Len(q), NEW j \in 1..Len(q), q[i] = q[j]
      PROVE  i = j
  BY <1>1, <1>2, <1>3, <1>6 DEF Distinct
<1>7. q \in Seq(S) /\ Distinct(q) /\ Range(q) \subseteq Range(s)
  BY <1>2, <1>4, <1>5, <1>6 DEF Distinct
<1> QED
  BY <1>7 DEF t, q

----------------------------------------------------------------------------
(* The invariant *)

LEMMA InvInit == CascadeInit => Inv
<1> SUFFICES ASSUME CascadeInit PROVE Inv
  OBVIOUS
<1>1. \A n \in Node : queue[n] = SetToSeq(Resource)
  BY DEF CascadeInit
<1>2. queue \in [Node -> Seq(Resource)] /\ Once
  BY <1>1, SetToSeqIsDistinct DEF CascadeInit, Once
<1>3. Types
  BY <1>2 DEF CascadeInit, Types, ThreadStates
<1>4. FlagsTyped
  BY DEF CascadeInit, FlagsTyped, NoRenewal
<1>5. \A n \in Node : Range(queue[n]) \subseteq Resource
  BY <1>2, RangeOfSeq
<1>6. Waiting /\ Leased
  BY <1>5 DEF CascadeInit, Waiting, Leased, Holds
<1> QED
  BY <1>2, <1>3, <1>4, <1>6 DEF Inv

\* Only Lease and the end of a lease change holder.
LEMMA FreedHolds ==
  ASSUME Types, NEW n \in Node, NEW r \in Resource, holder' = Freed(n, r)
  PROVE  /\ holder' \in [Resource -> [Slots -> Node \cup {None}]]
         /\ ~ Holds(n, r)'
         /\ \A m \in Node, q \in Resource :
              m # n \/ q # r => (Holds(m, q)' <=> Holds(m, q))
BY DEF Types, Freed, Holds

\* What Lease(n, r) does, in terms of Holds.
LEMMA LeaseHolds ==
  ASSUME Types, NEW n \in Node, NEW r \in Resource, Lease(n, r)
  PROVE  /\ holder' \in [Resource -> [Slots -> Node \cup {None}]]
         /\ Holds(n, r)'
         /\ \A m \in Node, q \in Resource :
              m # n \/ q # r => (Holds(m, q)' <=> Holds(m, q))
<1>1. PICK i \in Slots : /\ holder[r][i] = None
                         /\ holder' = [holder EXCEPT ![r][i] = n]
  BY DEF Lease
<1> QED
  BY <1>1 DEF Types, Holds

\* A pass of the monitor.
LEMMA MonitorKeeps ==
  ASSUME Inv, NEW n \in Node, Monitor(n)
  PROVE  Inv'
<1> USE DEF Inv
<1>1. FlagsTyped'
  BY DEF Monitor, Loops, FlagsTyped
<1>2. monitor' \in [Node -> {"run", "raised", "done"}]
  BY DEF Monitor, Types
<1>3. CASE UNCHANGED <<holder, queue, downloading, leases, handles, armed, thread>>
  BY <1>1, <1>2, <1>3 DEF Monitor, Types, Once, Waiting, Leased, Holds
<1>4. CASE queue[n] # << >> /\ (Lease(n, Head(queue[n])) \/ Requeue(n, Head(queue[n])))
  <2> DEFINE r == Head(queue[n])
             t == Tail(queue[n])
  <2>1. queue[n] \in Seq(Resource) /\ Distinct(queue[n])
    BY DEF Types, Once
  <2>2. /\ r \in Resource /\ r \in Range(queue[n])
        /\ t \in Seq(Resource) /\ Distinct(t)
        /\ Range(t) \subseteq Range(queue[n]) \ {r}
    BY <1>4, <2>1, TakeFirst
  <2>3. Append(t, r) \in Seq(Resource) /\ Distinct(Append(t, r))
        /\ Range(Append(t, r)) \subseteq Range(queue[n])
    BY <1>4, <2>1, PutLast
  <2> HIDE DEF r, t
  <2>4. CASE Lease(n, r)
    <3>1. /\ queue' = [queue EXCEPT ![n] = t]
          /\ downloading' = [downloading EXCEPT ![n] = @ \cup {r}]
          /\ leases' = [leases EXCEPT ![n] = @ \cup {r}]
          /\ handles' = [handles EXCEPT ![n] = @ \cup {r}]
          /\ armed' = [armed EXCEPT ![n] = @ \cup {r}]
          /\ thread' = [thread EXCEPT ![n][r] = "pulling"]
      BY <2>4 DEF Lease, t
    <3>2. UNCHANGED <<pulled, pullFaults>>
      BY DEF Monitor
    <3>3. Types'
      BY <1>2, <2>2, <2>4, <3>1, <3>2, LeaseHolds DEF Types, ThreadStates
    <3>4. Once'
      BY <2>2, <3>1 DEF Types, Once
    <3>5. Waiting'
      BY <2>2, <3>1 DEF Types, Waiting
    <3>6. Leased'
      BY <2>2, <2>4, <3>1, LeaseHolds DEF Types, Leased
    <3> QED
      BY <1>1, <3>3, <3>4, <3>5, <3>6
  <2>5. CASE Requeue(n, r)
    <3>1. /\ queue' = [queue EXCEPT ![n] = Append(t, r)]
          /\ UNCHANGED <<holder, downloading, leases, handles, armed, thread, pulled,
                         pullFaults>>
      BY <2>5 DEF Requeue, Monitor, t
    <3>2. Types'
      BY <1>2, <2>3, <3>1 DEF Types
    <3>3. Once' /\ Waiting'
      BY <2>3, <3>1 DEF Types, Once, Waiting
    <3>4. Leased'
      BY <3>1 DEF Leased, Holds
    <3> QED
      BY <1>1, <3>2, <3>3, <3>4
  <2> QED
    BY <1>4, <2>4, <2>5 DEF r
<1> QED
  BY <1>3, <1>4 DEF Monitor

\* The end of a lease, whatever ends it: Freed in ReleaseLease, Lapse and Stall.
LEMMA FreedKeeps ==
  ASSUME Inv, NEW n \in Node, NEW r \in Resource, holder' = Freed(n, r),
         \/ UNCHANGED thread
         \/ \E pc \in {"unlease", "kept"} : thread[n][r] # "none" /\ Go(n, r, pc),
         UNCHANGED <<process, downloading, maps, pulled>>,
         pullFaults' \in 0..MaxPullFaults
  PROVE  Inv'
<1> USE DEF Inv, process, maps
<1>1. /\ holder' \in [Resource -> [Slots -> Node \cup {None}]]
      /\ ~ Holds(n, r)'
      /\ \A m \in Node, q \in Resource :
           m # n \/ q # r => (Holds(m, q)' <=> Holds(m, q))
  BY FreedHolds
<1>2. /\ thread' \in [Node -> [Resource -> ThreadStates]]
      /\ \A m \in Node, q \in Resource :
           m # n \/ q # r => thread'[m][q] = thread[m][q]
      /\ thread[n][r] = "none" => UNCHANGED thread
  <2>1. CASE UNCHANGED thread
    BY <2>1 DEF Types
  <2>2. CASE \E pc \in {"unlease", "kept"} :
               thread[n][r] # "none" /\ thread' = [thread EXCEPT ![n][r] = pc]
    BY <2>2 DEF Types, ThreadStates
  <2> QED
    BY <2>1, <2>2 DEF Go
<1>3. Types'
  BY <1>1, <1>2 DEF Types
<1>4. FlagsTyped' /\ Once'
  BY DEF FlagsTyped, Once
<1>5. \A m \in Node : Range(queue[m]) \subseteq Resource
  BY RangeOfSeq DEF Types
<1>6. Waiting'
  BY <1>2, <1>5 DEF Waiting
<1>7. Leased'
  BY <1>1, <1>2 DEF Leased
<1> QED
  BY <1>3, <1>4, <1>6, <1>7

LEMMA InvNext == Inv /\ [CascadeNext]_cascadeVars => Inv'
<1> SUFFICES ASSUME Inv, [CascadeNext]_cascadeVars
             PROVE  Inv'
  OBVIOUS
<1> USE DEF Inv, process, maps, Go, At
<1>1. ASSUME NEW n \in Node, MonitorRaises(n)
      PROVE  Inv'
  <2>1. queue[n] \in Seq(Resource) /\ Distinct(queue[n]) /\ queue[n] # << >>
    BY <1>1 DEF MonitorRaises, Types, Once
  <2>2. /\ Tail(queue[n]) \in Seq(Resource) /\ Distinct(Tail(queue[n]))
        /\ Range(Tail(queue[n])) \subseteq Range(queue[n])
    BY <2>1, TakeFirst
  <2>3. /\ queue' = [queue EXCEPT ![n] = Tail(queue[n])]
        /\ monitor' = [monitor EXCEPT ![n] = "raised"]
        /\ pullFaults' \in 0..MaxPullFaults
        /\ UNCHANGED <<holder, raised, downloading, maps, thread, pulled>>
    BY <1>1 DEF MonitorRaises, PullFault, Types
  <2>4. Types' /\ FlagsTyped'
    BY <2>2, <2>3 DEF Types, FlagsTyped
  <2> QED
    BY <2>2, <2>3, <2>4 DEF Types, Once, Waiting, Leased, Holds
<1>2. ASSUME NEW n \in Node, MonitorDone(n)
      PROVE  Inv'
  BY <1>2 DEF MonitorDone, Types, FlagsTyped, Once, Waiting, Leased, Holds
<1>3. ASSUME NEW n \in Node, RenewReturn(n)
      PROVE  Inv'
  <2>1. FlagsTyped'
    BY <1>3 DEF RenewReturn, NoRenewal, FlagsTyped
  <2>2. renewing[n].resource \in Resource
    BY <1>3 DEF RenewReturn, FlagsTyped
  <2> DEFINE q == renewing[n].resource
  <2>3. leases' \in [Node -> SUBSET Resource]
    <3>1. \/ leases' = [leases EXCEPT ![n] = @ \cup {q}]
          \/ leases' = [leases EXCEPT ![n] = @ \ {q}]
      BY <1>3 DEF RenewReturn
    <3>2. leases \in [Node -> SUBSET Resource]
      BY DEF Types
    <3> QED
      BY ONLY <2>2, <3>1, <3>2, n \in Node
  <2>4. handles' \in [Node -> SUBSET Resource]
    <3>1. \/ handles' = [handles EXCEPT ![n] = @ \cup {q}]
          \/ handles' = [handles EXCEPT ![n] = IF q \in leases[n] THEN @ \ {q} ELSE @]
      BY <1>3 DEF RenewReturn
    <3>2. handles \in [Node -> SUBSET Resource]
      BY DEF Types
    <3> QED
      BY ONLY <2>2, <3>1, <3>2, n \in Node
  <2>5. armed' \in [Node -> SUBSET Resource]
    <3>1. \/ armed' = [armed EXCEPT ![n] = @ \cup {q}]
          \/ armed' = armed
      BY <1>3 DEF RenewReturn
    <3>2. armed \in [Node -> SUBSET Resource]
      BY DEF Types
    <3> QED
      BY ONLY <2>2, <3>1, <3>2, n \in Node
  <2>6. UNCHANGED <<holder, process, downloading, thread, pulled, pullFaults>>
    BY <1>3 DEF RenewReturn
  <2>7. Types'
    BY <2>3, <2>4, <2>5, <2>6 DEF Types
  <2> QED
    BY <2>1, <2>6, <2>7 DEF Once, Waiting, Leased, Holds
<1>4. ASSUME NEW n \in Node, NEW r \in Resource, RenewCall(n, r)
      PROVE  Inv'
  <2>1. FlagsTyped'
    <3>1. Holds(n, r) \in BOOLEAN
      BY DEF Holds
    <3>2. [resource |-> r, granted |-> Holds(n, r)]
             \in [resource : Resource \cup {None}, granted : BOOLEAN]
      BY <3>1
    <3>3. \E v \in [resource : Resource \cup {None}, granted : BOOLEAN] :
            renewing' = [renewing EXCEPT ![n] = v]
      BY <1>4, <3>2 DEF RenewCall, NoRenewal
    <3>4. UNCHANGED raised
      BY <1>4 DEF RenewCall
    <3> QED
      BY <3>3, <3>4 DEF FlagsTyped
  <2>2. pullFaults' \in 0..MaxPullFaults
    BY <1>4 DEF RenewCall, PullFault, Types
  <2>3. /\ armed' = [armed EXCEPT ![n] = @ \ {r}]
        /\ UNCHANGED <<holder, process, downloading, leases, handles, thread, pulled>>
    BY <1>4 DEF RenewCall
  <2>4. Types'
    BY <2>2, <2>3 DEF Types
  <2> QED
    BY <2>1, <2>3, <2>4 DEF Once, Waiting, Leased, Holds
<1>5. ASSUME NEW n \in Node, NEW r \in Resource, PullAndSave(n, r)
      PROVE  Inv'
  <2>1. FlagsTyped'
    BY <1>5 DEF PullAndSave, FlagsTyped
  <2>2. /\ thread[n][r] = "pulling" /\ thread' = [thread EXCEPT ![n][r] = "cancel"]
        /\ UNCHANGED <<holder, monitor, queue, downloading, maps>>
    BY <1>5 DEF PullAndSave
  <2>3. pulled' \in [Node -> SUBSET Resource]
    <3>1. pulled' \in {pulled, [pulled EXCEPT ![n] = @ \cup {r}]}
      BY <1>5 DEF PullAndSave
    <3> QED
      BY <3>1 DEF Types
  <2>4. pullFaults' \in 0..MaxPullFaults
    BY <1>5 DEF PullAndSave, PullFault, Types
  <2>5. Types'
    BY <2>2, <2>3, <2>4 DEF Types, ThreadStates
  <2>6. \A m \in Node : Range(queue[m]) \subseteq Resource
    BY RangeOfSeq DEF Types
  <2> QED
    BY <2>1, <2>2, <2>5, <2>6 DEF Types, Once, Waiting, Leased, Holds
<1>6. ASSUME NEW n \in Node, NEW r \in Resource, CancelTimer(n, r)
      PROVE  Inv'
  <2>1. thread[n][r] = "cancel" /\ thread' \in [Node -> [Resource -> ThreadStates]]
        /\ thread'[n][r] \in {"release", "dead"}
        /\ \A m \in Node, q \in Resource :
             m # n \/ q # r => thread'[m][q] = thread[m][q]
    BY <1>6 DEF CancelTimer, Types, ThreadStates
  <2>2. Types' /\ FlagsTyped'
    BY <1>6, <2>1 DEF CancelTimer, Types, FlagsTyped
  <2>3. Once' /\ Waiting'
    <3>1. \A m \in Node : Range(queue[m]) \subseteq Resource
      BY RangeOfSeq DEF Types
    <3> QED
      BY <1>6, <2>1, <3>1 DEF CancelTimer, Once, Waiting
  <2>4. Leased'
    BY <1>6, <2>1 DEF CancelTimer, Leased, Holds
  <2> QED
    BY <2>2, <2>3, <2>4
<1>7. ASSUME NEW n \in Node, NEW r \in Resource, ReleaseLease(n, r)
      PROVE  Inv'
  <2>1. pullFaults' \in 0..MaxPullFaults
    BY <1>7 DEF ReleaseLease, PullFault, Types
  <2>2. CASE (Go(n, r, "unlease") \/ Go(n, r, "kept")) /\ holder' = Freed(n, r)
    BY <1>7, <2>1, <2>2, FreedKeeps DEF ReleaseLease
  <2>3. CASE (Go(n, r, "kept") \/ Go(n, r, "dead")) /\ UNCHANGED holder
    <3>1. PICK pc \in {"kept", "dead"} : thread' = [thread EXCEPT ![n][r] = pc]
      BY <2>3
    <3>2. /\ thread[n][r] = "release"
          /\ UNCHANGED <<holder, process, downloading, maps, pulled>>
      BY <1>7, <2>3 DEF ReleaseLease
    <3>3. Types' /\ FlagsTyped'
      BY <2>1, <3>1, <3>2 DEF Types, ThreadStates, FlagsTyped
    <3> QED
      BY <3>1, <3>2, <3>3 DEF Types, Once, Waiting, Leased, Holds
  <2> QED
    BY <1>7, <2>2, <2>3 DEF ReleaseLease
<1>8. ASSUME NEW n \in Node, NEW r \in Resource, EndThread(n, r)
      PROVE  Inv'
  <2>1. PICK pc \in {"done", "over", "dead"} :
          /\ thread' = [thread EXCEPT ![n][r] = pc]
          /\ thread[n][r] = "kept" => pc # "done"
    BY <1>8 DEF EndThread
  <2>2. /\ thread[n][r] \in {"unlease", "kept"}
        /\ leases' = [leases EXCEPT ![n] = @ \ {r}]
        /\ UNCHANGED <<holder, process, handles, armed, renewing, pulled, pullFaults>>
    BY <1>8 DEF EndThread
  <2>3. downloading' \in [Node -> SUBSET Resource]
    <3>1. downloading \in [Node -> SUBSET Resource]
      BY DEF Types
    <3>2. downloading' = downloading \/ downloading' = [downloading EXCEPT ![n] = @ \ {r}]
      BY <1>8 DEF EndThread
    <3> QED
      BY ONLY <3>1, <3>2, n \in Node
  <2>6. Types' /\ FlagsTyped'
    BY <2>1, <2>2, <2>3 DEF Types, ThreadStates, FlagsTyped
  <2>4. Once' /\ Waiting'
    BY <2>1, <2>2 DEF Types, Once, Waiting
  <2>5. Leased'
    BY <2>1, <2>2 DEF Types, Leased, Holds
  <2> QED
    BY <2>4, <2>5, <2>6
<1>9. ASSUME NEW n \in Node, NEW r \in Resource, Lapse(n, r)
      PROVE  Inv'
  BY <1>9, FreedKeeps DEF Lapse, Types
<1>10. ASSUME NEW n \in Node, NEW r \in Resource, Stall(n, r)
       PROVE  Inv'
  BY <1>10, FreedKeeps DEF Stall, PullFault, Types
<1>11. CASE UNCHANGED cascadeVars
  BY <1>11 DEF cascadeVars, Types, FlagsTyped, Once, Waiting, Leased, Holds
<1> QED
  BY <1>1, <1>2, <1>3, <1>4, <1>5, <1>6, <1>7, <1>8, <1>9, <1>10, <1>11, MonitorKeeps
  DEF CascadeNext, Loop, Thread

----------------------------------------------------------------------------
(* The theorems *)

\* The variables of the nodes and of the storage keep their types: in particular
\* the queue of a node never holds more than the resources of the pool.
THEOREM TypeCorrect == CascadeSpec => []CascadeTypeOK
<1>1. Inv => CascadeTypeOK
  <2> SUFFICES ASSUME Inv PROVE CascadeTypeOK
    OBVIOUS
  <2>1. queue \in [Node -> Seq(Resource)] /\ \A n \in Node : Distinct(queue[n])
    BY DEF Inv, Types, Once
  <2>2. queue \in [Node -> SeqOf(Resource, Cardinality(Resource))]
    BY <2>1, DistinctIsShort
  <2> QED
    BY <2>2 DEF Inv, Types, FlagsTyped, CascadeTypeOK
<1> QED
  BY InvInit, InvNext, <1>1, PTL DEF CascadeSpec

\* A ContainerImageSaveThread that ran to its end left no lease behind, whatever
\* the renewal timer does, if the call that releases the lease did not fail.
THEOREM EndedReturned == CascadeSpec => []LeaseReturned
<1>1. Inv => LeaseReturned
  BY DEF Inv, Leased, LeaseReturned
<1> QED
  BY InvInit, InvNext, <1>1, PTL DEF CascadeSpec

Users(r) == {n \in Node : Pulls(n, r) /\ Holds(n, r)}
Strays(r) == {n \in Node : Pulls(n, r) /\ ~ Holds(n, r)}

\* As long as a slot blob of a resource is not leased, fewer than N nodes pull it
\* with a lease.
LEMMA FreeSlotCounts ==
  ASSUME Types, NEW r \in Resource, NEW i \in Slots, holder[r][i] = None
  PROVE  Cardinality(Users(r)) < N
<1> DEFINE g == [n \in Users(r) |-> CHOOSE j \in Slots : holder[r][j] = n]
<1>1. \A n \in Users(r) : g[n] \in Slots /\ holder[r][g[n]] = n
  BY DEF Users, Holds
<1>2. \A n \in Users(r) : g[n] \in Slots \ {i}
  BY <1>1 DEF Users
<1>3. g \in Injection(Users(r), Slots \ {i})
  BY <1>1, <1>2 DEF Injection, IsInjective
<1>4. IsFiniteSet(Slots) /\ Cardinality(Slots) = N
  BY FS_Interval DEF Slots
<1>5. IsFiniteSet(Slots \ {i}) /\ Cardinality(Slots \ {i}) = N - 1
  BY <1>4, FS_RemoveElement
<1>6. IsFiniteSet(Users(r)) /\ Cardinality(Users(r)) <= N - 1
  BY <1>3, <1>5, FS_Injection
<1> QED
  BY <1>6, FS_CardinalityType

----------------------------------------------------------------------------
(* Cascade implements Downloads *)

\* The downloads of the other resources are as before.
Elsewhere(r) ==
  \A q \in Resource \ {r} : Users(q)' = Users(q) /\ Strays(q)' = Strays(q)

LEMMA IsStart ==
  ASSUME NEW n \in Node, NEW r \in Resource, Elsewhere(r),
         n \notin Users(r) \cup Strays(r), Cardinality(Users(r)) < N,
         Users(r)' = Users(r) \cup {n}, Strays(r)' = Strays(r)
  PROVE  InN!Next
<1> DEFINE users == [q \in Resource |-> Users(q)]
           strays == [q \in Resource |-> Strays(q)]
<1>1. users' = [users EXCEPT ![r] = @ \cup {n}]
  BY DEF Elsewhere
<1>2. UNCHANGED strays
  BY DEF Elsewhere
<1>3. InN!Cardinality(Users(r)) = Cardinality(Users(r))
  BY DEF InN!Cardinality, Cardinality
<1>4. InN!Start(n, r)
  BY <1>1, <1>2, <1>3 DEF InN!Start, Users, Strays
<1> QED
  BY <1>4 DEF InN!Next

LEMMA IsLose ==
  ASSUME NEW n \in Node, NEW r \in Resource, Elsewhere(r), n \in Users(r),
         Users(r)' = Users(r) \ {n}, Strays(r)' = Strays(r) \cup {n}
  PROVE  InN!Next
<1> DEFINE users == [q \in Resource |-> Users(q)]
           strays == [q \in Resource |-> Strays(q)]
<1>1. users' = [users EXCEPT ![r] = @ \ {n}]
  BY DEF Elsewhere
<1>2. strays' = [strays EXCEPT ![r] = @ \cup {n}]
  BY DEF Elsewhere
<1>3. InN!Lose(n, r)
  BY <1>1, <1>2 DEF InN!Lose, Users, Strays
<1> QED
  BY <1>3 DEF InN!Next

LEMMA IsEnd ==
  ASSUME NEW n \in Node, NEW r \in Resource, Elsewhere(r), n \in Users(r) \cup Strays(r),
         Users(r)' = Users(r) \ {n}, Strays(r)' = Strays(r) \ {n}
  PROVE  InN!Next
<1> DEFINE users == [q \in Resource |-> Users(q)]
           strays == [q \in Resource |-> Strays(q)]
<1>1. users' = [users EXCEPT ![r] = @ \ {n}]
  BY DEF Elsewhere
<1>2. strays' = [strays EXCEPT ![r] = @ \ {n}]
  BY DEF Elsewhere
<1>3. InN!End(n, r)
  BY <1>1, <1>2 DEF InN!End, Users, Strays
<1> QED
  BY <1>3 DEF InN!Next

\* The variables of Downloads as this module maps them.
Mapped ==
  << [r \in Resource |-> {n \in Node : Pulls(n, r) /\ Holds(n, r)}],
     [r \in Resource |-> {n \in Node : Pulls(n, r) /\ ~Holds(n, r)}] >>

\* A step that keeps leases and pulls is none of Downloads.
LEMMA IsStutter ==
  ASSUME \A n \in Node, r \in Resource :
           /\ Pulls(n, r)' <=> Pulls(n, r)
           /\ Pulls(n, r) => (Holds(n, r)' <=> Holds(n, r))
  PROVE  UNCHANGED Mapped
BY DEF Mapped

\* The end of a lease is a Lose when the node pulls, and nothing otherwise.
LEMMA FreedMaps ==
  ASSUME Inv, NEW n \in Node, NEW r \in Resource, holder' = Freed(n, r),
         Holds(n, r), UNCHANGED thread
  PROVE  InN!Next \/ UNCHANGED Mapped
<1>1. /\ ~ Holds(n, r)'
      /\ \A m \in Node, q \in Resource :
           m # n \/ q # r => (Holds(m, q)' <=> Holds(m, q))
  BY FreedHolds DEF Inv
<1>2. \A m \in Node, q \in Resource : Pulls(m, q)' <=> Pulls(m, q)
  BY DEF Pulls
<1>3. CASE Pulls(n, r)
  <2>1. Elsewhere(r)
    BY <1>1, <1>2 DEF Elsewhere, Users, Strays
  <2>2. n \in Users(r) /\ Users(r)' = Users(r) \ {n} /\ Strays(r)' = Strays(r) \cup {n}
    BY <1>1, <1>2, <1>3 DEF Users, Strays
  <2> QED
    BY <2>1, <2>2, IsLose
<1>4. CASE ~ Pulls(n, r)
  BY <1>1, <1>2, <1>4, IsStutter
<1> QED
  BY <1>3, <1>4

\* A lease is only taken by a node that does not pull the resource, and only
\* when fewer than N nodes pull it with a lease.
LEMMA LeaseMaps ==
  ASSUME Inv, NEW n \in Node, NEW r \in Resource, Lease(n, r), thread[n][r] = "none"
  PROVE  InN!Next
<1>1. /\ Holds(n, r)'
      /\ \A m \in Node, q \in Resource :
           m # n \/ q # r => (Holds(m, q)' <=> Holds(m, q))
  BY LeaseHolds DEF Inv
<1>2. /\ ~ Pulls(n, r) /\ Pulls(n, r)'
      /\ \A m \in Node, q \in Resource :
           m # n \/ q # r => (Pulls(m, q)' <=> Pulls(m, q))
  BY DEF Lease, Pulls, Inv, Types
<1>3. Elsewhere(r)
  BY <1>1, <1>2 DEF Elsewhere, Users, Strays
<1>4. Users(r)' = Users(r) \cup {n} /\ Strays(r)' = Strays(r)
  BY <1>1, <1>2 DEF Users, Strays
<1>5. n \notin Users(r) \cup Strays(r)
  BY <1>2 DEF Users, Strays
<1>6. PICK i \in Slots : holder[r][i] = None
  BY DEF Lease
<1>7. Cardinality(Users(r)) < N
  BY <1>6, FreeSlotCounts DEF Inv
<1> QED
  BY <1>3, <1>4, <1>5, <1>7, IsStart

LEMMA StepMaps == Inv /\ [CascadeNext]_cascadeVars => InN!Next \/ UNCHANGED Mapped
<1> SUFFICES ASSUME Inv, [CascadeNext]_cascadeVars
             PROVE  InN!Next \/ UNCHANGED Mapped
  OBVIOUS
<1> USE DEF process, maps, Go, At
<1>1. ASSUME NEW n \in Node, Monitor(n)
      PROVE  InN!Next \/ UNCHANGED Mapped
  <2> DEFINE r == Head(queue[n])
  <2>1. CASE queue[n] # << >> /\ Lease(n, r)
    <3>1. r \in Resource /\ r \in Range(queue[n])
      BY <2>1, TakeFirst DEF Inv, Types, Once
    <3>2. thread[n][r] = "none"
      BY <3>1 DEF Inv, Waiting
    <3> QED
      BY <2>1, <3>1, <3>2, LeaseMaps
  <2>2. CASE UNCHANGED <<holder, thread>>
    BY <2>2, IsStutter DEF Pulls, Holds
  <2> QED
    BY <1>1, <2>1, <2>2 DEF Monitor, Requeue
<1>2. ASSUME NEW n \in Node, MonitorRaises(n) \/ MonitorDone(n) \/ RenewReturn(n)
      PROVE  InN!Next \/ UNCHANGED Mapped
  <2>1. UNCHANGED <<holder, thread>>
    BY <1>2 DEF MonitorRaises, MonitorDone, RenewReturn
  <2> QED
    BY <2>1, IsStutter DEF Pulls, Holds
<1>3. ASSUME NEW n \in Node, NEW r \in Resource, RenewCall(n, r)
      PROVE  InN!Next \/ UNCHANGED Mapped
  <2>1. UNCHANGED <<holder, thread>>
    BY <1>3 DEF RenewCall
  <2> QED
    BY <2>1, IsStutter DEF Pulls, Holds
<1>4. ASSUME NEW n \in Node, NEW r \in Resource, PullAndSave(n, r)
      PROVE  InN!Next \/ UNCHANGED Mapped
  <2>1. /\ thread[n][r] = "pulling" /\ thread' = [thread EXCEPT ![n][r] = "cancel"]
        /\ UNCHANGED holder
    BY <1>4 DEF PullAndSave
  <2>2. \A m \in Node, q \in Resource : Holds(m, q)' <=> Holds(m, q)
    BY <2>1 DEF Holds
  <2>3. /\ Pulls(n, r) /\ ~ Pulls(n, r)'
        /\ \A m \in Node, q \in Resource :
             m # n \/ q # r => (Pulls(m, q)' <=> Pulls(m, q))
    BY <2>1 DEF Pulls, Inv, Types
  <2>4. Elsewhere(r)
    BY <2>2, <2>3 DEF Elsewhere, Users, Strays
  <2>5. /\ n \in Users(r) \cup Strays(r)
        /\ Users(r)' = Users(r) \ {n} /\ Strays(r)' = Strays(r) \ {n}
    BY <2>2, <2>3 DEF Users, Strays
  <2> QED
    BY <2>4, <2>5, IsEnd
<1>5. ASSUME NEW n \in Node, NEW r \in Resource,
             CancelTimer(n, r) \/ ReleaseLease(n, r) \/ EndThread(n, r)
      PROVE  InN!Next \/ UNCHANGED Mapped
  <2>1. /\ thread[n][r] # "pulling"
        /\ \E pc \in {"release", "unlease", "kept", "done", "over", "dead"} :
             thread' = [thread EXCEPT ![n][r] = pc]
    BY <1>5 DEF CancelTimer, ReleaseLease, EndThread
  <2>2. /\ ~ Pulls(n, r)
        /\ \A m \in Node, q \in Resource : Pulls(m, q)' <=> Pulls(m, q)
    BY <2>1 DEF Pulls, Inv, Types
  <2>3. UNCHANGED holder \/ holder' = Freed(n, r)
    BY <1>5 DEF CancelTimer, ReleaseLease, EndThread
  <2>4. \A m \in Node, q \in Resource :
          m # n \/ q # r => (Holds(m, q)' <=> Holds(m, q))
    BY <2>3, FreedHolds DEF Inv, Holds
  <2> QED
    BY <2>2, <2>4, IsStutter
<1>6. ASSUME NEW n \in Node, NEW r \in Resource, Lapse(n, r) \/ Stall(n, r)
      PROVE  InN!Next \/ UNCHANGED Mapped
  BY <1>6, FreedMaps DEF Lapse, Stall
<1>7. CASE UNCHANGED cascadeVars
  BY <1>7, IsStutter DEF cascadeVars, Pulls, Holds
<1> QED
  BY <1>1, <1>2, <1>3, <1>4, <1>5, <1>6, <1>7 DEF CascadeNext, Loop, Thread

\* concurrent_source_downloads: cascade implements N permits for the downloads of
\* every resource, where only the loss of a lease leaves a download without one.
THEOREM CascadeImplementsDownloads == CascadeSpec => ImplementsDownloads
<1>1. CascadeInit => InN!Init
  BY DEF CascadeInit, InN!Init, Pulls
<1>2. Inv /\ [CascadeNext]_cascadeVars => [InN!Next]_Mapped
  BY StepMaps
<1> QED
  BY InvInit, InvNext, <1>1, <1>2, PTL DEF CascadeSpec, ImplementsDownloads, InN!Spec, Mapped

-----------------------------------------------------------------------------
(* The storage of a pool (PoolOps).  The client that adds a pool fills its *)
(* storage before the pool is there, one that deletes it clears the        *)
(* storage after; both may be interrupted between any two steps.           *)

\* Where the storage is about to be cleared or filled.
Filling == {"create", "clear", "populate", "upload", "pooladd"}
AtStorage == {"cleanup"} \cup Filling

Shapes ==
  /\ DOMAIN cli = {"pc", "cmd", "then", "got", "seen", "due", "polled", "old", "deleted",
                   "reboots", "report"}
  /\ DOMAIN pool = {"st", "target", "alloc", "error"}
  /\ DOMAIN store = {"container", "holds"}
  /\ cfg \in Settings

\* Nothing is cleared while the pool is active, nothing is filled while there is
\* one at all, and what is filled is complete when the pool is added.
StoreInv ==
  /\ Shapes
  /\ cli.pc = "cleanup" => pool.st # "active"
  /\ cli.pc \in Filling => pool.st = "none"
  /\ cli.pc \in {"upload", "pooladd"} /\ Cascades(cfg) => "globals" \in store.holds
  /\ cli.pc = "pooladd" => "files" \in store.holds
  /\ StoreFits

\* What every step does that neither adds a pool nor touches its storage: the
\* client keeps its place or goes where no storage is touched.
Harmless ==
  /\ Shapes' /\ cfg' = cfg /\ store'.holds = store.holds
  /\ pool'.st \in {pool.st, "none"}
  /\ cli'.pc = cli.pc \/ cli'.pc \notin AtStorage

\* Such a step keeps what is known of the storage.
LEMMA HarmlessKeeps ==
  ASSUME StoreInv, Harmless PROVE StoreInv'
<1>. USE DEF Harmless
<1>. DEFINE Cascading == Cascades(cfg)
<1>1. /\ Cascading' <=> Cascading
      /\ cli'.pc = cli.pc \/ cli'.pc \notin AtStorage
      /\ pool'.st \in {pool.st, "none"} /\ store'.holds = store.holds /\ Shapes'
  OBVIOUS
<1>2. /\ cli.pc = "cleanup" => pool.st # "active"
      /\ cli.pc \in Filling => pool.st = "none"
      /\ cli.pc \in {"upload", "pooladd"} /\ Cascading => "globals" \in store.holds
      /\ cli.pc = "pooladd" => "files" \in store.holds
      /\ pool.st = "active" => "files" \in store.holds /\ (Cascading => "globals" \in store.holds)
  BY DEF StoreInv, StoreFits
<1>. HIDE DEF Cascading
<1>3. /\ (cli.pc = "cleanup" => pool.st # "active")'
      /\ (cli.pc \in Filling => pool.st = "none")'
      /\ (cli.pc \in {"upload", "pooladd"} /\ Cascading => "globals" \in store.holds)'
      /\ (cli.pc = "pooladd" => "files" \in store.holds)'
      /\ (pool.st = "active" =>
            "files" \in store.holds /\ (Cascading => "globals" \in store.holds))'
  BY <1>1, <1>2 DEF AtStorage, Filling
<1>. QED BY <1>1, <1>3 DEF StoreInv, StoreFits, Cascading

\* The client's moves that leave pool and storage alone, to a place where no
\* storage is touched.
LEMMA MovesAreHarmless ==
  ASSUME StoreInv, UNCHANGED << cfg, pool, store >>,
         \/ cli' = cli
         \/ \E said : Return(said)
         \/ cli'.pc \notin AtStorage /\ DOMAIN cli' = DOMAIN cli
  PROVE  Harmless
<1>1. Shapes' /\ (cli'.pc = cli.pc \/ cli'.pc \notin AtStorage)
  BY DEF StoreInv, Shapes, Return, Idling, AtStorage, Filling
<1>. QED BY <1>1 DEF Harmless

\* The client's steps away from the storage: reading, rebooting, deleting nodes,
\* resizing and waiting.
LEMMA ClientElsewhere ==
  ASSUME StoreInv,
         \/ (CheckExists /\ pool.st # "none") \/ ReadPool \/ ReadNodes
         \/ (\E n \in Nodes : RebootFailed(n)) \/ PollReboot
         \/ DeleteUnusable \/ Check \/ Post \/ SetupGluster
         \/ ResizePool \/ AwaitShrinking \/ RebootNodes
         \/ DelNodes("delfailed", "failed") \/ DelNodes("delstarting", "starting")
         \/ DelNodes("delallunusable", "unusable") \/ Interrupt
  PROVE  Harmless
<1>. USE DEF StoreInv
<1>a. ASSUME NEW said, Return(said), UNCHANGED << cfg, pool, store >> PROVE Harmless
  BY <1>a, MovesAreHarmless
<1>b. ASSUME NEW p, Goto(p), p \notin AtStorage, UNCHANGED << cfg, pool, store >> PROVE Harmless
  BY <1>b, MovesAreHarmless DEF Goto, Shapes
<1>c. ASSUME UNCHANGED << cfg, store >>, (\E said : Return(said)) \/ cli'.pc \notin AtStorage,
             DOMAIN cli' = DOMAIN cli \/ \E said : Return(said),
             DOMAIN pool' = DOMAIN pool, pool'.st = pool.st
      PROVE  Harmless
  BY <1>c DEF Return, Idling, Harmless, Shapes, AtStorage, Filling
<1>d. ASSUME pool' = Resized \/ \E ns : RemoveNodes(ns)
      PROVE  DOMAIN pool' = DOMAIN pool /\ pool'.st = pool.st
  BY <1>d DEF Resized, RemoveNodes, Shapes
<1>e. ASSUME cli'.pc \in {"list", "reboot", "delunusable", "check", "get", "poll", "shrinking"}
      PROVE  cli'.pc \notin AtStorage
  BY <1>e DEF AtStorage, Filling
<1>f. "pc" \in DOMAIN cli
  BY DEF Shapes
<1>1. CASE CheckExists /\ pool.st # "none"
  BY <1>1, <1>a, MovesAreHarmless DEF CheckExists, Shapes, AtStorage, Filling
<1>2. CASE ReadPool
  BY <1>2, <1>a, MovesAreHarmless DEF ReadPool, Shapes, AtStorage, Filling
<1>3. CASE ReadNodes
  <2>1. UNCHANGED << cfg, pool, store >>
    BY <1>3 DEF ReadNodes
  <2>2. \/ Return("error")
        \/ cli'.pc \in {"reboot", "delunusable", "check"} /\ DOMAIN cli' = DOMAIN cli
    BY ONLY <1>3, <1>f DEF ReadNodes
  <2>. QED BY <2>1, <2>2, <1>a, <1>e, MovesAreHarmless
<1>4. ASSUME NEW n \in Nodes, RebootFailed(n) PROVE Harmless
  BY <1>4, <1>a, MovesAreHarmless DEF RebootFailed, Shapes, AtStorage, Filling
<1>5. CASE PollReboot
  <2>1. UNCHANGED << cfg, pool, store >>
    BY <1>5 DEF PollReboot
  <2>2. Return("error") \/ (cli'.pc \in {"reboot", "check"} /\ DOMAIN cli' = DOMAIN cli)
    BY ONLY <1>5, <1>f DEF PollReboot
  <2>. QED BY <2>1, <2>2, <1>a, <1>e, MovesAreHarmless
<1>6. CASE DeleteUnusable
  BY <1>6, <1>c, <1>d DEF DeleteUnusable, Shapes, AtStorage, Filling
<1>7. CASE Check
  BY <1>7, <1>a, <1>b, <1>c, <1>d DEF Check, Shapes, AtStorage, Filling
<1>8. CASE Post
  BY <1>8, <1>a, <1>b DEF Post, AtStorage, Filling
<1>9. CASE SetupGluster
  BY <1>9, <1>a DEF SetupGluster
<1>10. CASE ResizePool
  <2>1. UNCHANGED << cfg, store >> /\ (pool' = pool \/ pool' = Resized)
    BY <1>10 DEF ResizePool
  <2>2. (\E said : Return(said)) \/ (cli'.pc \in {"shrinking", "get"} /\ DOMAIN cli' = DOMAIN cli)
    BY ONLY <1>10, <1>f DEF ResizePool
  <2>3. DOMAIN pool' = DOMAIN pool /\ pool'.st = pool.st
    BY <2>1, <1>d
  <2>. QED BY <2>1, <2>2, <2>3, <1>c, <1>e
<1>11. CASE AwaitShrinking
  BY <1>11, <1>b DEF AwaitShrinking, AtStorage, Filling
<1>12. CASE RebootNodes
  BY <1>12, <1>a DEF RebootNodes
<1>13. ASSUME NEW command, NEW st, DelNodes(command, st) PROVE Harmless
  BY <1>13, <1>a, <1>c, <1>d DEF DelNodes
<1>14. CASE Interrupt
  BY <1>14, <1>a DEF Interrupt
<1>. QED BY <1>1, <1>2, <1>3, <1>4, <1>5, <1>6, <1>7, <1>8, <1>9, <1>10, <1>11, <1>12,
            <1>13, <1>14

\* What Batch and the nodes do, faults included, leaves the client where it is;
\* only a pool's deletion changes its state, and only to "none".
LEMMA BatchElsewhere ==
  ASSUME StoreInv,
         \/ BatchWorks \/ (\E n \in Nodes : NodeWorks(n))
         \/ (\E error \in {"cores", "lowpricores", "timeout"} : FallShort(error))
         \/ \E n \in Nodes : BecomeUnusable(n) \/ Preempt(n) \/ RebootByOthers(n)
                             \/ StartTaskFault(n) \/ CascadeFault(n)
  PROVE  Harmless
<1>. USE DEF StoreInv
<1>a. ASSUME NEW p, NEW ns, BatchStep(p, ns), cli' = cli, DOMAIN p = DOMAIN pool,
             p.st \in {pool.st, "none"}
      PROVE  Harmless
  BY <1>a DEF BatchStep, Harmless, Shapes
<1>b. ASSUME NEW ns, BatchStep(pool, ns), cli' = cli PROVE Harmless
  BY <1>b, <1>a
<1>1. CASE Steady
  BY <1>1, <1>a DEF Steady, Shapes
<1>2. CASE PoolDeleted
  BY <1>2, <1>a DEF PoolDeleted, NoPool, Shapes
<1>3. CASE ContainerDeleted
  BY <1>3 DEF ContainerDeleted, Harmless, Shapes
<1>4. ASSUME NEW n \in Nodes, Allocate(n) PROVE Harmless
  BY <1>4 DEF Allocate, BatchStep, Harmless, Shapes
<1>5. ASSUME NEW n \in Nodes, Release(n) \/ Leave(n) \/ RestartNode(n) PROVE Harmless
  BY <1>5, <1>b DEF Release, Leave, RestartNode
<1>6. ASSUME NEW n \in Nodes, StartTask(n) PROVE Harmless
  BY <1>6, <1>b DEF StartTask
<1>7. ASSUME NEW n \in Nodes, RunCascade(n) PROVE Harmless
  BY <1>7, <1>b DEF RunCascade
<1>8. ASSUME NEW error, FallShort(error) PROVE Harmless
  BY <1>8, <1>a DEF FallShort, Fault, Shapes
<1>9. ASSUME NEW n \in Nodes, BecomeUnusable(n) \/ Preempt(n) \/ RebootByOthers(n)
      PROVE  Harmless
  BY <1>9, <1>b DEF BecomeUnusable, Preempt, RebootByOthers, Fault
<1>10. ASSUME NEW n \in Nodes, StartTaskFault(n) PROVE Harmless
  BY <1>10, <1>b DEF StartTaskFault, Fault
<1>11. ASSUME NEW n \in Nodes, CascadeFault(n) PROVE Harmless
  BY <1>11, <1>b DEF CascadeFault, Fault
<1>. QED BY <1>1, <1>2, <1>3, <1>4, <1>5, <1>6, <1>7, <1>8, <1>9, <1>10, <1>11
         DEF BatchWorks, NodeWorks

\* A command starts where no storage is touched, an add at its look for the pool.
LEMMA CommandStarts ==
  ASSUME StoreInv, NEW c \in Commands(cfg), Issue(c) PROVE Harmless
<1>1. c \in Adds \cup {"del", "delwait", "resize", "resizewait", "delfailed",
                       "delstarting", "delallunusable", "rebootfailed"}
  BY CommandsAssumption DEF StoreInv, Shapes
<1>2. cli'.pc \notin AtStorage /\ DOMAIN cli' = DOMAIN cli
  BY <1>1 DEF StoreInv, Shapes, Issue, Idling, Adds, AtStorage, Filling
<1>. QED BY <1>2, MovesAreHarmless DEF Issue

\* The deletion of a pool: its storage is cleared when Batch no longer has it active.
LEMMA DeletionKeeps ==
  ASSUME DeleteFaults = FALSE, StoreInv, DelPool \/ Cleanup \/ AwaitGone
  PROVE  StoreInv'
<1>. USE DEF StoreInv, StoreFits, Shapes, AtStorage, Filling
<1>1. CASE DelPool
  BY <1>1 DEF DelPool, Goto, Return, Idling
<1>2. CASE Cleanup
  BY <1>2 DEF Cleanup, Goto, Return, Idling
<1>3. CASE AwaitGone
  BY <1>3 DEF AwaitGone, Goto, Return, Idling
<1>. QED BY <1>1, <1>2, <1>3

\* The addition of a pool: its storage is cleared, then filled with all it needs,
\* while there is no pool.
LEMMA AdditionKeeps ==
  ASSUME StoreInv,
         \/ (CheckExists /\ pool.st = "none") \/ CreateContainers \/ ClearContainers
         \/ PopulateGlobals \/ ConstructPool \/ AddPool
  PROVE  StoreInv'
<1>. USE DEF StoreInv, StoreFits, Shapes, Filling, Goto
<1>1. CASE CheckExists /\ pool.st = "none"
  BY <1>1 DEF CheckExists
<1>2. CASE CreateContainers
  BY <1>2 DEF CreateContainers
<1>3. CASE ClearContainers
  BY <1>3 DEF ClearContainers
<1>4. CASE PopulateGlobals
  BY <1>4 DEF PopulateGlobals, Opt
<1>5. CASE ConstructPool
  BY <1>5 DEF ConstructPool, Return, Idling
<1>6. CASE AddPool
  BY <1>6 DEF AddPool, Return, Idling
<1>. QED BY <1>1, <1>2, <1>3, <1>4, <1>5, <1>6

\* Every step keeps the storage right.
LEMMA StoreKept ==
  ASSUME DeleteFaults = FALSE, StoreInv, [Next]_vars PROVE StoreInv'
<1>1. CASE UNCHANGED vars
  <2>1. Harmless
    BY <1>1, MovesAreHarmless DEF vars
  <2>. QED BY <2>1, HarmlessKeeps
<1>2. CASE \E c \in Commands(cfg) : Issue(c)
  BY <1>2, CommandStarts, HarmlessKeeps
<1>3. CASE Client
  BY <1>3, ClientElsewhere, DeletionKeeps, AdditionKeeps, HarmlessKeeps DEF Client
<1>4. CASE BatchWorks \/ (\E n \in Nodes : NodeWorks(n))
  BY <1>4, BatchElsewhere, HarmlessKeeps
<1>5. CASE Faulty
  BY <1>5, ClientElsewhere, BatchElsewhere, HarmlessKeeps DEF Faulty
<1>. QED BY <1>1, <1>2, <1>3, <1>4, <1>5 DEF Next

\* While a pool is there its storage holds what its nodes download on every boot
\* and the list of images they work through, for every set of configurations,
\* commands, nodes and faults, wherever the client is interrupted - as long as an
\* add that recreates a pool is not refused its deletion, which the code only logs.
THEOREM PoolsKeepTheirFiles ==
  ASSUME DeleteFaults = FALSE PROVE Spec => []StoreFits
<1>1. Init => StoreInv
  BY DEF Init, StoreInv, StoreFits, Shapes, Idling, NoPool, Filling
<1>2. StoreInv /\ [Next]_vars => StoreInv'
  BY StoreKept
<1>3. StoreInv => StoreFits
  BY DEF StoreInv
<1>. QED BY <1>1, <1>2, <1>3, PTL DEF Spec

-----------------------------------------------------------------------------
(* The start task (PoolConfig, NodePrep, TaskConfig): for every Linux      *)
(* configuration, what the steps need is uploaded, shipped or left by      *)
(* earlier steps, and what tasks need is there in the end.                 *)

\* The options on the command line, and the environment.
LEMMA FlagsMean ==
  ASSUME NEW c
  PROVE  /\ Flag(c, "a") <=> On(c, "azurefile") /\ TRUE
         /\ Flag(c, "c") <=> On(c, "azureblob")
         /\ Flag(c, "d") <=> On(c, "container")
         /\ Flag(c, "e") <=> On(c, "encrypt")
         /\ Flag(c, "f") <=> On(c, "gluster")
         /\ Flag(c, "g") <=> gpu_env(c)
         /\ Flag(c, "i") <=> On(c, "singularity")
         /\ Flag(c, "j") <=> Delayed(c)
         /\ Flag(c, "k") <=> On(c, "kata")
         /\ Flag(c, "l") <=> lis_pkg(c)
         /\ Flag(c, "m") <=> On(c, "storage")
         /\ Flag(c, "n") <=> Native(c)
         /\ Flag(c, "q") <=> On(c, "insights")
         /\ Flag(c, "u") <=> Custom(c)
         /\ Flag(c, "w") <=> On(c, "hpn")
         /\ Flag(c, "y") <=> On(c, "autoscratch")
BY DEF Flag, Flags, Opt

LEMMA EnvironmentMeans ==
  ASSUME NEW c
  PROVE  /\ Env(c, "SHIPYARD_STORAGE_ENV") <=> Cascades(c)
         /\ Env(c, "SHIPYARD_SINGULARITY_DECRYPTION_CERTIFICATES")
              <=> On(c, "singularityimages") /\ On(c, "imagecerts")
         /\ Env(c, "SHIPYARD_STORAGE_CLUSTER_FSTAB") <=> On(c, "storage")
         /\ Env(c, "SHIPYARD_CUSTOM_MOUNTS_FSTAB") <=> On(c, "fstab")
         /\ Env(c, "SHIPYARD_TIMING") <=> ~Native(c) /\ On(c, "timing")
         /\ Env(c, "PROM_NODE_EXPORTER_PORT") <=> On(c, "exporter")
         /\ Env(c, "PROM_CADVISOR_PORT") <=> On(c, "cadvisor")
BY DEF Env, Environment, Opt

\* The steps of a list after another.
LEMMA Joined ==
  ASSUME NEW S, NEW s \in Seq(S), NEW t \in Seq(S)
  PROVE  /\ DOMAIN (s \o t) = 1..(Len(s) + Len(t))
         /\ \A i \in 1..Len(s) : (s \o t)[i] = s[i]
         /\ \A i \in 1..Len(t) : (s \o t)[Len(s) + i] = t[i]
<1>1. /\ s \o t \in Seq(S) /\ Len(s \o t) = Len(s) + Len(t)
      /\ \A i \in 1..(Len(s) + Len(t)) :
           (s \o t)[i] = IF i <= Len(s) THEN s[i] ELSE t[i - Len(s)]
  BY ConcatProperties
<1>2. Len(s) \in Nat /\ Len(t) \in Nat
  OBVIOUS
<1>3. DOMAIN (s \o t) = 1..(Len(s) + Len(t))
  BY <1>1
<1>. QED BY <1>1, <1>2, <1>3

\* The script of a boot runs the steps of every boot, then those of this boot.
LEMMA StepsListed ==
  ASSUME NEW c
  PROVE  /\ /\ DOMAIN Steps(c, "first") = 1..27
            /\ \A i \in 1..9 : Steps(c, "first")[i] = EveryBoot(c)[i]
            /\ \A i \in 1..18 : Steps(c, "first")[9 + i] = Install(c)[i]
         /\ /\ DOMAIN Steps(c, "again") = 1..16
            /\ \A i \in 1..9 : Steps(c, "again")[i] = EveryBoot(c)[i]
            /\ \A i \in 1..7 : Steps(c, "again")[9 + i] = Restart(c)[i]
         /\ /\ DOMAIN Steps(c, "broken") = 1..10 /\ Steps(c, "broken")[10] = Exit
            /\ \A i \in 1..9 : Steps(c, "broken")[i] = EveryBoot(c)[i]
<1>. DEFINE every == EveryBoot(c)
            install == Install(c)
            restart == Restart(c)
            exit == << Exit >>
            S == {every[i] : i \in 1..9} \cup {install[i] : i \in 1..18}
                   \cup {restart[i] : i \in 1..7} \cup {exit[i] : i \in 1..1}
<1>1. /\ Steps(c, "first") = every \o install
      /\ Steps(c, "again") = every \o restart
      /\ Steps(c, "broken") = every \o exit
  BY DEF Steps
<1>2. every = [i \in 1..9 |-> every[i]] /\ Len(every) = 9
  BY DEF EveryBoot
<1>3. install = [i \in 1..18 |-> install[i]] /\ Len(install) = 18
  BY DEF Install
<1>4. restart = [i \in 1..7 |-> restart[i]] /\ Len(restart) = 7
  BY DEF Restart
<1>5. exit = [i \in 1..1 |-> exit[i]] /\ Len(exit) = 1 /\ exit[1] = Exit
  OBVIOUS
<1>. HIDE DEF every, install, restart, exit
<1>6. every \in Seq(S) /\ install \in Seq(S) /\ restart \in Seq(S) /\ exit \in Seq(S)
  BY <1>2, <1>3, <1>4, <1>5
<1>. HIDE DEF S
<1>7. /\ DOMAIN (every \o install) = 1..27
      /\ \A i \in 1..9 : (every \o install)[i] = every[i]
      /\ \A i \in 1..18 : (every \o install)[9 + i] = install[i]
  BY ONLY <1>2, <1>3, <1>6, Joined
<1>8. /\ DOMAIN (every \o restart) = 1..16
      /\ \A i \in 1..9 : (every \o restart)[i] = every[i]
      /\ \A i \in 1..7 : (every \o restart)[9 + i] = restart[i]
  BY ONLY <1>2, <1>4, <1>6, Joined
<1>9. /\ DOMAIN (every \o exit) = 1..10 /\ (every \o exit)[10] = exit[1]
      /\ \A i \in 1..9 : (every \o exit)[i] = every[i]
  BY ONLY <1>2, <1>5, <1>6, Joined
<1>. QED BY <1>1, <1>5, <1>7, <1>8, <1>9 DEF every, install, restart

Uploaded(c) == ResourceFiles(c) \cup CertificateFiles(c)

LEMMA FilesMean ==
  ASSUME NEW c, ~Windows(c)
  PROVE  /\ "registry_login.sh" \in Uploaded(c) /\ "shipyard_cascade.sh" \in Uploaded(c)
         /\ lis_pkg(c) => "lis.tar.gz" \in Uploaded(c)
         /\ intel_mpi_rt_pkg(c) <=> "intel_mpi_rt.tar.gz" \in Uploaded(c)
         /\ gpu_env(c) => "nvidia-driver.run" \in Uploaded(c)
         /\ On(c, "encrypt") => "encryption.pfx" \in Uploaded(c)
         /\ On(c, "singularityimages") /\ On(c, "imagecerts") => "image.pfx" \in Uploaded(c)
         /\ On(c, "azurefile") => "azurefile-mount.sh" \in Uploaded(c)
         /\ On(c, "azureblob") => "azureblob-mount.sh" \in Uploaded(c)
         /\ On(c, "hpn") => "shipyard_hpnssh.sh" \in Uploaded(c)
         /\ On(c, "insights") => "batch-insights" \in Uploaded(c)
         /\ On(c, "exporter") => "node_exporter.tar.gz" \in Uploaded(c)
         /\ On(c, "cadvisor") => "cadvisor.gz" \in Uploaded(c)
         /\ ~Native(c) => /\ "shipyard_task_runner.sh" \in Uploaded(c)
                          /\ "shipyard_docker_exec_task_runner.sh" \in Uploaded(c)
         /\ Cascades(c) => "wait_for_images.sh" \in Uploaded(c)
         /\ Cascades(c) /\ ~On(c, "container")
              => "cascade.py" \in Uploaded(c) /\ "requirements.txt" \in Uploaded(c)
         /\ Cascades(c) /\ On(c, "timing") => "perf.py" \in Uploaded(c)
<1>. USE DEF Uploaded, ResourceFiles, BlobMount, FileMount, PrometheusTools, Opt
<1>1. /\ "registry_login.sh" \in Uploaded(c) /\ "shipyard_cascade.sh" \in Uploaded(c)
      /\ lis_pkg(c) => "lis.tar.gz" \in Uploaded(c)
      /\ gpu_env(c) => "nvidia-driver.run" \in Uploaded(c)
      /\ On(c, "azurefile") => "azurefile-mount.sh" \in Uploaded(c)
      /\ On(c, "azureblob") => "azureblob-mount.sh" \in Uploaded(c)
      /\ On(c, "hpn") => "shipyard_hpnssh.sh" \in Uploaded(c)
      /\ On(c, "insights") => "batch-insights" \in Uploaded(c)
      /\ On(c, "exporter") => "node_exporter.tar.gz" \in Uploaded(c)
      /\ On(c, "cadvisor") => "cadvisor.gz" \in Uploaded(c)
  OBVIOUS
<1>2. intel_mpi_rt_pkg(c) <=> "intel_mpi_rt.tar.gz" \in Uploaded(c)
  BY DEF CertificateFiles
<1>3. /\ On(c, "encrypt") => "encryption.pfx" \in Uploaded(c)
      /\ On(c, "singularityimages") /\ On(c, "imagecerts") => "image.pfx" \in Uploaded(c)
  BY DEF CertificateFiles
<1>4. /\ ~Native(c) => /\ "shipyard_task_runner.sh" \in Uploaded(c)
                       /\ "shipyard_docker_exec_task_runner.sh" \in Uploaded(c)
      /\ Cascades(c) => "wait_for_images.sh" \in Uploaded(c)
      /\ Cascades(c) /\ ~On(c, "container")
           => "cascade.py" \in Uploaded(c) /\ "requirements.txt" \in Uploaded(c)
      /\ Cascades(c) /\ On(c, "timing") => "perf.py" \in Uploaded(c)
  OBVIOUS
<1>. QED BY <1>1, <1>2, <1>3, <1>4

\* The needs of a step are met by the uploaded files and what is on the disk.
Met(c, step, disk) == step.files \subseteq Uploaded(c) /\ step.wants \subseteq disk

\* What images ship.
LEMMA ShippedMeans ==
  ASSUME NEW c
  PROVE  /\ Custom(c) => {"docker", "nvidia", "gluster", "nfs", "ib", "intelmpi", "beeond"}
                            \subseteq Shipped(c)
         /\ Native(c) => "docker" \in Shipped(c)
         /\ Native(c) /\ Gpu(c) => "nvidia" \in Shipped(c)
         /\ c.image \in {"centoshpc", "centoscontainerrdma"} => "intelmpi" \in Shipped(c)
         /\ "intelmpi" \in Shipped(c) =>
              Custom(c) \/ c.image \in {"centoshpc", "centoscontainerrdma"}
         /\ "never" \notin Shipped(c)
BY DEF Shipped, Opt, Custom, CustomImages

LEMMA EveryBootMet ==
  ASSUME NEW c, ~Windows(c), ~CannotPrepare(c), NEW i \in 1..9
  PROVE  Met(c, EveryBoot(c)[i], Shipped(c))
<1>. DEFINE met(step) == Met(c, step, Shipped(c))
<1>. USE FlagsMean, EnvironmentMeans, FilesMean DEF Met, When, Nothing, Step
<1>0. met(Nothing)
  OBVIOUS
<1>1. met(get_vm_size_from_imds(c))
  BY DEF get_vm_size_from_imds, CannotPrepare
<1>2. met(install_lis(c))
  BY DEF install_lis
<1>3. met(decrypt_encrypted_credentials(c))
  BY DEF decrypt_encrypted_credentials, CannotPrepare
<1>4. met(convert_singularity_certificates(c))
  BY DEF convert_singularity_certificates
<1>5. met(When(Flag(c, "u") \/ Flag(c, "n"), check_for_docker_host_engine))
  BY ShippedMeans DEF check_for_docker_host_engine
<1>6. met(When(Flag(c, "u") \/ Flag(c, "n"), check_for_nvidia_on_custom_or_native(c)))
  BY ShippedMeans DEF check_for_nvidia_on_custom_or_native
<1>7. met(mount_azurefile_share(c))
  BY DEF mount_azurefile_share
<1>8. met(mount_azureblob_container(c))
  BY DEF mount_azureblob_container
<1>9. met(task_runner(c))
  BY DEF task_runner
<1>. HIDE DEF met, Met, When, Nothing, Step, Opt
<1>10. i \in {1, 2, 3, 4, 5, 6, 7, 8, 9}
  OBVIOUS
<1>11. met(EveryBoot(c)[i])
  BY ONLY <1>1, <1>2, <1>3, <1>4, <1>5, <1>6, <1>7, <1>8, <1>9, <1>10 DEF EveryBoot
<1>. QED BY <1>11 DEF met

\* What the steps of a first run find on the disk: Docker and the NFS client are
\* installed before they are used.
Early(c, i) ==
  Shipped(c) \cup Opt(i > 2, "docker") \cup Opt(i > 7 /\ On(c, "storage"), "nfs")

LEMMA InstallMet ==
  ASSUME NEW c, ~Windows(c), ~CannotPrepare(c), NEW i \in 1..18
  PROVE  Met(c, Install(c)[i], Early(c, i))
<1>. DEFINE met(k, step) == Met(c, step, Early(c, k))
<1>. USE FlagsMean, EnvironmentMeans, FilesMean, ShippedMeans
     DEF Met, When, Nothing, Step, Early, Opt
<1>0. \A k \in 1..18 : met(k, Nothing)
  OBVIOUS
<1>1. met(1, optimize_tcp_network_settings(c))
  BY DEF optimize_tcp_network_settings
<1>2. met(2, When(Plain(c), install_docker_host_engine))
  BY DEF install_docker_host_engine
<1>3. met(3, set_default_pool_user_privileges(c))
  BY DEF set_default_pool_user_privileges
<1>4. met(4, registry_login)
  BY DEF registry_login
<1>5. met(5, When(Flag(c, "g") /\ Plain(c), install_nvidia_software(c)))
  BY DEF install_nvidia_software
<1>6. met(6, When(Flag(c, "f"), install_glusterfs_on_compute(c)))
  BY DEF install_glusterfs_on_compute
<1>7. met(7, When(Flag(c, "m"), install_storage_cluster_dependencies(c)))
  BY DEF install_storage_cluster_dependencies
<1>8. met(8, check_for_mellanox_card(c))
  <2>1. CASE ~Rdma(c)
    BY <2>1 DEF check_for_mellanox_card
  <2>2. CASE Rdma(c) /\ ~NetworkDirect(c)
    <3>1. "ib" \in Shipped(c)
      BY <2>2 DEF CannotPrepare
    <3>. QED BY <2>2, <3>1 DEF check_for_mellanox_card
  <2>3. CASE Rdma(c) /\ NetworkDirect(c)
    <3>1. Flag(c, "u") \/ "intelmpi" \in Shipped(c) \/ intel_mpi_rt_pkg(c)
      BY <2>3 DEF CannotPrepare, intel_mpi_rt_pkg, Native, BatchImages, Custom
    <3>. QED BY <2>3, <3>1 DEF check_for_mellanox_card, install_intel_mpi
  <2>. QED BY <2>1, <2>2, <2>3
<1>9. met(9, install_and_start_batch_insights(c))
  BY DEF install_and_start_batch_insights
<1>10. met(10, install_and_start_node_exporter(c))
  BY DEF install_and_start_node_exporter
<1>11. met(11, install_and_start_cadvisor(c))
  BY DEF install_and_start_cadvisor
<1>12. met(12, install_cascade_dependencies(c))
  BY DEF install_cascade_dependencies, RunsCascade, Cascades
<1>13. met(13, docker_pull_image)
  BY DEF docker_pull_image
<1>14. met(14, install_singularity(c))
  BY DEF install_singularity
<1>15. met(15, install_kata_containers(c))
  BY DEF install_kata_containers
<1>16. met(16, install_beeond(c))
  BY DEF install_beeond, DistribUbuntu18, CannotPrepare
<1>17. met(17, process_storage_clusters(c))
  BY DEF process_storage_clusters
<1>18. met(18, process_custom_fstab(c))
  BY DEF process_custom_fstab
<1>. HIDE DEF met, Met, When, Nothing, Step, Opt
<1>19. i \in {1, 2, 3, 4, 5, 6, 7, 8, 9, 10, 11, 12, 13, 14, 15, 16, 17, 18}
  OBVIOUS
<1>20. met(i, Install(c)[i])
  BY ONLY <1>1, <1>2, <1>3, <1>4, <1>5, <1>6, <1>7, <1>8, <1>9, <1>10, <1>11, <1>12,
          <1>13, <1>14, <1>15, <1>16, <1>17, <1>18, <1>19 DEF Install
<1>. QED BY <1>20 DEF met

\* What a first run leaves on the disk for the boots and the tasks that come later.
Installed(c) ==
  Shipped(c) \cup {"docker"} \cup Opt(Gpu(c), "nvidia")
    \cup Opt(NetworkDirect(c), "intelmpi")
    \cup Opt(Rdma(c) /\ ~NetworkDirect(c), "UCX_IB_PKEY")
    \cup Opt(On(c, "storage"), "fstab_storage") \cup Opt(On(c, "fstab"), "fstab_custom")
    \cup Opt(On(c, "singularity") /\ ~Native(c), "singularity")
    \cup Opt(On(c, "autoscratch"), "beeond")
    \cup Opt(On(c, "singularityimages") /\ On(c, "imagecerts"), "pem")

\* A node that is rebooted before gluster was set up lacks its mount.
LEMMA RestartMet ==
  ASSUME NEW c, ~Windows(c), ~CannotPrepare(c), NEW i \in 1..7, NEW disk,
         Installed(c) \subseteq disk,
         On(c, "gluster") /\ Custom(c) => "fstab_gluster" \in disk
  PROVE  Met(c, Restart(c)[i], disk)
<1>. DEFINE met(step) == Met(c, step, disk)
<1>. USE FlagsMean, EnvironmentMeans, FilesMean DEF Met, When, Nothing, Step, Installed, Opt
<1>0. met(Nothing)
  OBVIOUS
<1>1. met(install_and_start_node_exporter(c))
  BY DEF install_and_start_node_exporter
<1>2. met(install_and_start_cadvisor(c))
  BY DEF install_and_start_cadvisor
<1>3. met(mount_storage_clusters(c))
  BY DEF mount_storage_clusters
<1>4. met(mount_custom_fstab(c))
  BY DEF mount_custom_fstab
<1>5. met(mount_gluster(c))
  BY DEF mount_gluster
<1>6. met(When(Plain(c), check_for_docker_host_engine))
  BY DEF check_for_docker_host_engine
<1>7. met(When(Plain(c), ensure_nvidia_driver_installed(c)))
  BY DEF ensure_nvidia_driver_installed, gpu_env
<1>. HIDE DEF met, Met, When, Nothing, Step, Opt
<1>8. i \in {1, 2, 3, 4, 5, 6, 7}
  OBVIOUS
<1>9. met(Restart(c)[i])
  BY ONLY <1>1, <1>2, <1>3, <1>4, <1>5, <1>6, <1>7, <1>8 DEF Restart
<1>. QED BY <1>9 DEF met

\* What a step leaves is there after its script.
LEMMA StepLeaves ==
  ASSUME NEW c, NEW boot, NEW i \in DOMAIN Steps(c, boot), NEW disk, NEW live
  PROVE  /\ Steps(c, boot)[i].disk \subseteq DiskAfter(Script(c, boot), disk)
         /\ Steps(c, boot)[i].live \subseteq LiveAfter(Script(c, boot), live)
<1>1. CASE Steps(c, boot)[i] = Nothing
  BY <1>1 DEF Nothing, Step
<1>2. CASE Steps(c, boot)[i] # Nothing
  <2>1. Place(Steps(c, boot)[i], i) \in Script(c, boot)
    BY <1>2 DEF Script
  <2>. QED BY <2>1 DEF DiskAfter, LiveAfter, Place
<1>. QED BY <1>1, <1>2

\* A step that comes later finds what an earlier one left.
LEMMA EarlierLeaves ==
  ASSUME NEW c, NEW boot, DOMAIN Steps(c, boot) \subseteq Int,
         NEW i \in DOMAIN Steps(c, boot), NEW k \in DOMAIN Steps(c, boot), k < i, NEW disk
  PROVE  Steps(c, boot)[k].disk
           \subseteq DiskAfter(Before(Place(Steps(c, boot)[i], i), Script(c, boot)), disk)
<1>1. CASE Steps(c, boot)[k] = Nothing
  BY <1>1 DEF Nothing, Step
<1>2. CASE Steps(c, boot)[k] # Nothing
  <2>1. Place(Steps(c, boot)[k], k) \in Script(c, boot)
    BY <1>2 DEF Script
  <2>2. Place(Steps(c, boot)[k], k) \in Before(Place(Steps(c, boot)[i], i), Script(c, boot))
    BY <2>1 DEF Before, Place
  <2>. QED BY <2>2 DEF DiskAfter, Place
<1>. QED BY <1>1, <1>2

\* A script whose steps find what they need is not blocked.
LEMMA NotBlocked ==
  ASSUME NEW c, NEW boot, NEW disk,
         \A i \in DOMAIN Steps(c, boot) :
           Met(c, Steps(c, boot)[i],
               DiskAfter(Before(Place(Steps(c, boot)[i], i), Script(c, boot)), disk))
  PROVE  Blocked(Script(c, boot), Uploaded(c), disk) = {}
<1> SUFFICES ASSUME NEW step \in Script(c, boot)
             PROVE  /\ step.files \subseteq Uploaded(c)
                    /\ step.wants \subseteq DiskAfter(Before(step, Script(c, boot)), disk)
  BY DEF Blocked
<1>1. PICK i \in DOMAIN Steps(c, boot) : step = Place(Steps(c, boot)[i], i)
  BY DEF Script
<1>2. step.files = Steps(c, boot)[i].files /\ step.wants = Steps(c, boot)[i].wants
  BY <1>1 DEF Place
<1>. QED BY <1>1, <1>2 DEF Met

\* The first run of every configuration that can be prepared goes through.
LEMMA FirstRunGoes ==
  ASSUME NEW c, ~Windows(c), ~CannotPrepare(c), NEW disk, Shipped(c) \subseteq disk
  PROVE  Blocked(Script(c, "first"), Uploaded(c), disk) = {}
<1>. DEFINE s == Steps(c, "first")
            found(i) == DiskAfter(Before(Place(s[i], i), Script(c, "first")), disk)
<1>1. SUFFICES ASSUME NEW i \in DOMAIN s PROVE Met(c, s[i], found(i))
  BY <1>1, NotBlocked
<1>2. Shipped(c) \subseteq found(i)
  BY DEF DiskAfter
<1>3. CASE i <= 9
  <2>1. i \in 1..9 /\ s[i] = EveryBoot(c)[i]
    BY <1>3, StepsListed
  <2>. QED BY <2>1, <1>2, EveryBootMet DEF Met
<1>4. CASE i > 9
  <2>. DEFINE k == i - 9
  <2>1. k \in 1..18 /\ i = 9 + k /\ s[i] = Install(c)[k]
    <3>1. i \in 1..27
      BY StepsListed
    <3>2. k \in 1..18 /\ i = 9 + k
      BY <3>1, <1>4
    <3>3. s[9 + k] = Install(c)[k]
      BY <3>2, StepsListed
    <3>. QED BY <3>2, <3>3
  <2>2. Met(c, Install(c)[k], Early(c, k))
    BY <2>1, InstallMet
  <2>3. DOMAIN s \subseteq Int /\ 11 \in DOMAIN s /\ 16 \in DOMAIN s
    BY StepsListed
  <2>4. k > 2 => "docker" \in found(i)
    <3>1. CASE ~Plain(c)
      BY <3>1, <1>2, ShippedMeans, FlagsMean DEF Plain
    <3>2. CASE Plain(c) /\ k > 2
      <4>1. s[11] = install_docker_host_engine
        BY <3>2, StepsListed DEF Install, When
      <4>2. 11 < i
        BY <3>2, <2>1
      <4>3. s[11].disk \subseteq found(i)
        BY <4>2, <2>3, EarlierLeaves
      <4>. QED BY <4>1, <4>3 DEF install_docker_host_engine, Step
    <3>. QED BY <3>1, <3>2
  <2>5. k > 7 /\ On(c, "storage") => "nfs" \in found(i)
    <3>1. CASE Custom(c)
      BY <3>1, <1>2, ShippedMeans
    <3>2. CASE ~Custom(c) /\ k > 7 /\ On(c, "storage")
      <4>1. s[16] = Step({}, {}, {"nfs"}, {})
        BY <3>2, StepsListed, FlagsMean DEF Install, When, install_storage_cluster_dependencies
      <4>2. 16 < i
        BY <3>2, <2>1
      <4>3. s[16].disk \subseteq found(i)
        BY <4>2, <2>3, EarlierLeaves
      <4>. QED BY <4>1, <4>3 DEF Step
    <3>. QED BY <3>1, <3>2
  <2>. HIDE DEF found, k, s
  <2>6. Early(c, k) \subseteq found(i)
    BY <1>2, <2>4, <2>5 DEF Early, Opt
  <2>. QED BY <2>1, <2>2, <2>6 DEF Met
<1>5. i \in Int
  BY StepsListed
<1>. QED BY <1>3, <1>4, <1>5

\* So does a later run, on a node that holds what the first one left.
LEMMA LaterRunGoes ==
  ASSUME NEW c, ~Windows(c), ~CannotPrepare(c), NEW disk, Installed(c) \subseteq disk,
         On(c, "gluster") /\ Custom(c) => "fstab_gluster" \in disk
  PROVE  Blocked(Script(c, "again"), Uploaded(c), disk) = {}
<1>. DEFINE s == Steps(c, "again")
            found(i) == DiskAfter(Before(Place(s[i], i), Script(c, "again")), disk)
<1>1. SUFFICES ASSUME NEW i \in DOMAIN s PROVE Met(c, s[i], found(i))
  BY <1>1, NotBlocked
<1>2. disk \subseteq found(i) /\ Shipped(c) \subseteq found(i)
  BY DEF DiskAfter, Installed
<1>3. CASE i <= 9
  <2>1. i \in 1..9 /\ s[i] = EveryBoot(c)[i]
    BY <1>3, StepsListed
  <2>. QED BY <2>1, <1>2, EveryBootMet DEF Met
<1>4. CASE i > 9
  <2>. DEFINE k == i - 9
  <2>1. k \in 1..7 /\ s[i] = Restart(c)[k]
    <3>1. i \in 1..16
      BY StepsListed
    <3>2. k \in 1..7 /\ i = 9 + k
      BY <3>1, <1>4
    <3>3. s[9 + k] = Restart(c)[k]
      BY <3>2, StepsListed
    <3>. QED BY <3>2, <3>3
  <2>2. Met(c, Restart(c)[k], disk)
    BY <2>1, RestartMet
  <2>. QED BY <2>1, <2>2, <1>2 DEF Met
<1>5. i \in Int
  BY StepsListed
<1>. QED BY <1>3, <1>4, <1>5

\* What a node that takes tasks has mounted and running, after whichever run.
Alive(c) ==
  {"docker"} \cup Opt(On(c, "azurefile"), "azurefile") \cup Opt(On(c, "azureblob"), "azureblob")
    \cup Opt(On(c, "storage"), "storage") \cup Opt(On(c, "fstab"), "fstab")
    \cup Opt(On(c, "exporter"), "exporter") \cup Opt(On(c, "cadvisor"), "cadvisor")

\* What every boot mounts.
LEMMA EveryBootLeaves ==
  ASSUME NEW c, NEW boot \in {"first", "again"}, NEW live
  PROVE  LET left == LiveAfter(Script(c, boot), live) IN
         /\ On(c, "azurefile") => "azurefile" \in left
         /\ On(c, "azureblob") => "azureblob" \in left
         /\ ~Plain(c) => "docker" \in left
<1>. DEFINE s == Steps(c, boot)
            left == LiveAfter(Script(c, boot), live)
<1>1. 5 \in DOMAIN s /\ 7 \in DOMAIN s /\ 8 \in DOMAIN s
  BY StepsListed
<1>2. s[5].live \subseteq left /\ s[7].live \subseteq left /\ s[8].live \subseteq left
  BY <1>1, StepLeaves
<1>3. /\ s[5] = When(Flag(c, "u") \/ Flag(c, "n"), check_for_docker_host_engine)
      /\ s[7] = mount_azurefile_share(c) /\ s[8] = mount_azureblob_container(c)
  BY StepsListed DEF EveryBoot
<1>. HIDE DEF s, left
<1>4. ~Plain(c) => "docker" \in left
  BY <1>2, <1>3 DEF When, check_for_docker_host_engine, Step, Plain
<1>5. On(c, "azurefile") => "azurefile" \in left
  BY <1>2, <1>3, FlagsMean DEF When, mount_azurefile_share, Step
<1>6. On(c, "azureblob") => "azureblob" \in left
  BY <1>2, <1>3, FlagsMean DEF When, mount_azureblob_container, Step
<1>. QED BY <1>4, <1>5, <1>6 DEF left

LEMMA FirstRunLeaves ==
  ASSUME NEW c, ~CannotPrepare(c), NEW disk, NEW live, Shipped(c) \subseteq disk
  PROVE  /\ Installed(c) \subseteq DiskAfter(Script(c, "first"), disk)
         /\ Alive(c) \subseteq LiveAfter(Script(c, "first"), live)
<1>. DEFINE s == Steps(c, "first")
            onDisk == DiskAfter(Script(c, "first"), disk)
            left == LiveAfter(Script(c, "first"), live)
<1>1. \A i \in 1..18 : 9 + i \in DOMAIN s /\ s[9 + i] = Install(c)[i]
  BY StepsListed
<1>2. \A i \in 1..18 : Install(c)[i].disk \subseteq onDisk /\ Install(c)[i].live \subseteq left
  BY <1>1, StepLeaves
<1>3. convert_singularity_certificates(c).disk \subseteq onDisk
  <2>1. 4 \in DOMAIN s /\ s[4] = convert_singularity_certificates(c)
    BY StepsListed DEF EveryBoot
  <2>. QED BY <2>1, StepLeaves
<1>4. Shipped(c) \subseteq onDisk
  BY DEF DiskAfter
<1>5. /\ On(c, "azurefile") => "azurefile" \in left
      /\ On(c, "azureblob") => "azureblob" \in left
      /\ ~Plain(c) => "docker" \in left
  BY EveryBootLeaves
<1>. HIDE DEF s, onDisk, left
<1>. USE FlagsMean DEF When, Step
<1>6. "docker" \in onDisk /\ "docker" \in left
  <2>1. Install(c)[2] = When(Plain(c), install_docker_host_engine)
    BY DEF Install
  <2>2. Plain(c) => "docker" \in onDisk /\ "docker" \in left
    BY <2>1, <1>2 DEF install_docker_host_engine
  <2>3. ~Plain(c) => "docker" \in onDisk
    BY <1>4, ShippedMeans DEF Plain
  <2>. QED BY <2>2, <2>3, <1>5
<1>7. Gpu(c) => "nvidia" \in onDisk
  <2>1. Install(c)[5] = When(Flag(c, "g") /\ Plain(c), install_nvidia_software(c))
    BY DEF Install
  <2>2. Gpu(c) /\ Plain(c) => "nvidia" \in onDisk
    BY <2>1, <1>2 DEF install_nvidia_software, gpu_env, Plain
  <2>3. Gpu(c) /\ ~Plain(c) => "nvidia" \in onDisk
    BY <1>4, ShippedMeans DEF Plain
  <2>. QED BY <2>2, <2>3
<1>8. /\ NetworkDirect(c) => "intelmpi" \in onDisk
      /\ Rdma(c) /\ ~NetworkDirect(c) => "UCX_IB_PKEY" \in onDisk
  <2>1. Install(c)[8] = check_for_mellanox_card(c)
    BY DEF Install
  <2>2. Rdma(c) /\ ~NetworkDirect(c) => "UCX_IB_PKEY" \in onDisk
    BY <2>1, <1>2 DEF check_for_mellanox_card
  <2>3. NetworkDirect(c) => Rdma(c)
    BY DEF NetworkDirect, Rdma
  <2>4. NetworkDirect(c) => "intelmpi" \in onDisk
    BY <2>1, <2>3, <1>2, <1>4, ShippedMeans DEF check_for_mellanox_card, install_intel_mpi
  <2>. QED BY <2>2, <2>4
<1>9. On(c, "storage") => "fstab_storage" \in onDisk /\ "storage" \in left
  <2>1. Install(c)[17] = process_storage_clusters(c)
    BY DEF Install
  <2>. QED BY <2>1, <1>2 DEF process_storage_clusters
<1>10. On(c, "fstab") => "fstab_custom" \in onDisk /\ "fstab" \in left
  <2>1. Install(c)[18] = process_custom_fstab(c)
    BY DEF Install
  <2>. QED BY <2>1, <1>2, EnvironmentMeans DEF process_custom_fstab
<1>11. On(c, "singularity") /\ ~Native(c) => "singularity" \in onDisk
  <2>1. Install(c)[14] = install_singularity(c)
    BY DEF Install
  <2>. QED BY <2>1, <1>2 DEF install_singularity
<1>12. On(c, "autoscratch") => "beeond" \in onDisk
  <2>1. Install(c)[16] = install_beeond(c)
    BY DEF Install
  <2>2. On(c, "autoscratch") /\ ~Custom(c) => "beeond" \in onDisk
    BY <2>1, <1>2 DEF install_beeond, DistribUbuntu18, CannotPrepare
  <2>. QED BY <2>2, <1>4, ShippedMeans
<1>13. On(c, "singularityimages") /\ On(c, "imagecerts") => "pem" \in onDisk
  BY <1>3, EnvironmentMeans DEF convert_singularity_certificates
<1>14. /\ On(c, "exporter") => "exporter" \in left
       /\ On(c, "cadvisor") => "cadvisor" \in left
  <2>1. /\ Install(c)[10] = install_and_start_node_exporter(c)
        /\ Install(c)[11] = install_and_start_cadvisor(c)
    BY DEF Install
  <2>. QED BY <2>1, <1>2, EnvironmentMeans
           DEF install_and_start_node_exporter, install_and_start_cadvisor
<1>15. Installed(c) \subseteq onDisk
  BY ONLY <1>4, <1>6, <1>7, <1>8, <1>9, <1>10, <1>11, <1>12, <1>13 DEF Installed, Opt
<1>16. Alive(c) \subseteq left
  BY ONLY <1>5, <1>6, <1>9, <1>10, <1>14 DEF Alive, Opt
<1>. QED BY <1>15, <1>16 DEF onDisk, left

LEMMA LaterRunLeaves ==
  ASSUME NEW c, NEW live
  PROVE  Alive(c) \subseteq LiveAfter(Script(c, "again"), live)
<1>. DEFINE s == Steps(c, "again")
            left == LiveAfter(Script(c, "again"), live)
<1>1. \A i \in 1..7 : 9 + i \in DOMAIN s /\ s[9 + i] = Restart(c)[i]
  BY StepsListed
<1>2. \A i \in 1..7 : Restart(c)[i].live \subseteq left
  BY <1>1, StepLeaves
<1>3. /\ On(c, "azurefile") => "azurefile" \in left
      /\ On(c, "azureblob") => "azureblob" \in left
      /\ ~Plain(c) => "docker" \in left
  BY EveryBootLeaves
<1>. HIDE DEF s, left
<1>4. /\ Restart(c)[1] = install_and_start_node_exporter(c)
      /\ Restart(c)[2] = install_and_start_cadvisor(c)
      /\ Restart(c)[3] = mount_storage_clusters(c)
      /\ Restart(c)[4] = mount_custom_fstab(c)
      /\ Restart(c)[6] = When(Plain(c), check_for_docker_host_engine)
  BY DEF Restart
<1>. USE <1>2, <1>4, EnvironmentMeans DEF When, Step
<1>5. On(c, "exporter") => "exporter" \in left
  BY DEF install_and_start_node_exporter
<1>6. On(c, "cadvisor") => "cadvisor" \in left
  BY DEF install_and_start_cadvisor
<1>7. On(c, "storage") => "storage" \in left
  BY DEF mount_storage_clusters
<1>8. On(c, "fstab") => "fstab" \in left
  BY DEF mount_custom_fstab
<1>9. "docker" \in left
  BY <1>3 DEF check_for_docker_host_engine
<1>10. Alive(c) \subseteq left
  BY ONLY <1>3, <1>5, <1>6, <1>7, <1>8, <1>9 DEF Alive, Opt
<1>. QED BY <1>10 DEF left

\* Such a node has all that an accepted task needs that can run.
LEMMA TasksFindAll ==
  ASSUME NEW c, ~Windows(c), ~CannotPrepare(c), NEW disk, NEW live,
         Installed(c) \subseteq disk, Alive(c) \subseteq live
  PROVE  /\ Needs(c) \subseteq live \cup disk \cup Uploaded(c)
         /\ Served(c) \subseteq live
<1>. DEFINE there == live \cup disk \cup Uploaded(c)
<1>1. Installed(c) \subseteq there /\ Alive(c) \subseteq there /\ Uploaded(c) \subseteq there
  OBVIOUS
<1>2. Served(c) \subseteq live
  BY DEF Served, Alive, Opt, On
<1>. HIDE DEF there
<1>3. ASSUME NEW t \in Tasks, TaskAccepted(c, t), ~CannotRun(c, t)
      PROVE  TaskNeeds(c, t) \subseteq there
  <2>. USE <1>1, <1>3 DEF Opt
  <2>1. t.runtime \in {"docker", "singularity"} /\ t.volumes \in {{}} \cup {{v} : v \in Volumes}
    BY DEF Tasks
  <2>2. t.runtime \in there
    BY <2>1 DEF TaskAccepted, ImageAccepted, CannotRun, Docker, Installed
  <2>3. JobPreparation(c) \subseteq there
    BY FilesMean DEF JobPreparation, CannotRun, Cascades, Installed
  <2>4. TaskRunner(c, t) \subseteq there
    BY FilesMean DEF TaskRunner
  <2>5. t.volumes \ {"gluster"} \subseteq there
    BY <2>1 DEF TaskAccepted, VolumesAccepted, Volumes, On, Alive
  <2>6. Mounts(c, t) \subseteq there
    BY <2>5 DEF Mounts, Installed
  <2>7. InfinibandTask(c, t) => Rdma(c)
    BY DEF TaskAccepted, InfinibandAccepted
  <2>8. Devices(c, t) \subseteq there
    <3>1. GpuTask(c, t) => "nvidia" \in there
      BY DEF TaskAccepted, GpuAccepted, Installed
    <3>2. Rdma(c) => "ib" \in there
      BY DEF CannotPrepare, Installed
    <3>. QED BY <2>7, <3>1, <3>2 DEF Devices
  <2>9. MpiCommand(c, t) \subseteq there
    BY <2>7 DEF MpiCommand, Installed
  <2>10. Decryption(c, t) \subseteq there
    BY DEF Decryption, Installed
  <2>. QED BY <2>2, <2>3, <2>4, <2>6, <2>8, <2>9, <2>10 DEF TaskNeeds
<1>4. Needs(c) \subseteq there
  BY <1>3 DEF Needs
<1>. QED BY <1>2, <1>4 DEF there

\* What no step of any script leaves.
Marks == {"ib", "never", "cascade_failed", "node_prep_finished", "fstab_gluster"}

LEMMA StepsLeaveNoMarks ==
  ASSUME NEW c, NEW boot \in Boots, NEW disk, NEW steps, steps \subseteq Script(c, boot)
  PROVE  DiskAfter(steps, disk) \cap Marks = disk \cap Marks
<1>. DEFINE clean(step) == step.disk \cap Marks = {}
<1>1. \A i \in 1..9 : clean(EveryBoot(c)[i])
  <2>. USE DEF When, Nothing, Step, Marks
  <2>1. /\ clean(get_vm_size_from_imds(c)) /\ clean(install_lis(c))
        /\ clean(decrypt_encrypted_credentials(c))
        /\ clean(convert_singularity_certificates(c))
    BY DEF get_vm_size_from_imds, install_lis, decrypt_encrypted_credentials, Exit,
           convert_singularity_certificates
  <2>2. /\ clean(When(Flag(c, "u") \/ Flag(c, "n"), check_for_docker_host_engine))
        /\ clean(When(Flag(c, "u") \/ Flag(c, "n"), check_for_nvidia_on_custom_or_native(c)))
    BY DEF check_for_docker_host_engine, check_for_nvidia_on_custom_or_native
  <2>3. /\ clean(mount_azurefile_share(c)) /\ clean(mount_azureblob_container(c))
        /\ clean(task_runner(c))
    BY DEF mount_azurefile_share, mount_azureblob_container, task_runner
  <2>. HIDE DEF clean, When, Nothing, Step, Marks
  <2>4. \A i \in 1..9 : i \in {1, 2, 3, 4, 5, 6, 7, 8, 9}
    OBVIOUS
  <2>. QED BY ONLY <2>1, <2>2, <2>3, <2>4 DEF EveryBoot
<1>2. \A i \in 1..18 : clean(Install(c)[i])
  <2>. USE DEF When, Nothing, Step, Marks
  <2>1. /\ clean(optimize_tcp_network_settings(c))
        /\ clean(When(Plain(c), install_docker_host_engine))
        /\ clean(set_default_pool_user_privileges(c)) /\ clean(registry_login)
        /\ clean(When(Flag(c, "g") /\ Plain(c), install_nvidia_software(c)))
    BY DEF optimize_tcp_network_settings, install_docker_host_engine,
           set_default_pool_user_privileges, registry_login, install_nvidia_software
  <2>2. /\ clean(When(Flag(c, "f"), install_glusterfs_on_compute(c)))
        /\ clean(When(Flag(c, "m"), install_storage_cluster_dependencies(c)))
        /\ clean(check_for_mellanox_card(c))
    BY DEF install_glusterfs_on_compute, install_storage_cluster_dependencies,
           check_for_mellanox_card, install_intel_mpi
  <2>3. /\ clean(install_and_start_batch_insights(c))
        /\ clean(install_and_start_node_exporter(c)) /\ clean(install_and_start_cadvisor(c))
        /\ clean(install_cascade_dependencies(c)) /\ clean(docker_pull_image)
    BY DEF install_and_start_batch_insights, install_and_start_node_exporter,
           install_and_start_cadvisor, install_cascade_dependencies, docker_pull_image
  <2>4. /\ clean(install_singularity(c)) /\ clean(install_kata_containers(c))
        /\ clean(install_beeond(c)) /\ clean(process_storage_clusters(c))
        /\ clean(process_custom_fstab(c))
    BY DEF install_singularity, install_kata_containers, install_beeond, Exit,
           process_storage_clusters, process_custom_fstab
  <2>. HIDE DEF clean, When, Nothing, Step, Marks
  <2>5. \A i \in 1..18 :
          i \in {1, 2, 3, 4, 5, 6, 7, 8, 9, 10, 11, 12, 13, 14, 15, 16, 17, 18}
    OBVIOUS
  <2>. QED BY ONLY <2>1, <2>2, <2>3, <2>4, <2>5 DEF Install
<1>3. \A i \in 1..7 : clean(Restart(c)[i])
  <2>. USE DEF When, Nothing, Step, Marks
  <2>1. /\ clean(install_and_start_node_exporter(c)) /\ clean(install_and_start_cadvisor(c))
        /\ clean(mount_storage_clusters(c)) /\ clean(mount_custom_fstab(c))
        /\ clean(mount_gluster(c))
    BY DEF install_and_start_node_exporter, install_and_start_cadvisor,
           mount_storage_clusters, mount_custom_fstab, mount_gluster
  <2>2. /\ clean(When(Plain(c), check_for_docker_host_engine))
        /\ clean(When(Plain(c), ensure_nvidia_driver_installed(c)))
    BY DEF check_for_docker_host_engine, ensure_nvidia_driver_installed
  <2>. HIDE DEF clean, When, Nothing, Step, Marks
  <2>3. \A i \in 1..7 : i \in {1, 2, 3, 4, 5, 6, 7}
    OBVIOUS
  <2>. QED BY ONLY <2>1, <2>2, <2>3 DEF Restart
<1>4. clean(Exit)
  BY DEF Exit, Step
<1>. HIDE DEF clean
<1>5. \A i \in DOMAIN Steps(c, boot) : clean(Steps(c, boot)[i])
  <2>1. ASSUME NEW n \in Nat, NEW i \in 1..(9 + n), i > 9 PROVE \E k \in 1..n : i = 9 + k
    <3>1. i - 9 \in 1..n /\ i = 9 + (i - 9)
      BY <2>1
    <3>. QED BY <3>1
  <2>2. ASSUME NEW i \in DOMAIN Steps(c, "first") PROVE clean(Steps(c, "first")[i])
    <3>1. i \in 1..27
      BY StepsListed
    <3>2. i \in 1..9 \/ \E k \in 1..18 : i = 9 + k
      BY <3>1, <2>1
    <3>. QED BY <3>2, <1>1, <1>2, StepsListed
  <2>3. ASSUME NEW i \in DOMAIN Steps(c, "again") PROVE clean(Steps(c, "again")[i])
    <3>1. i \in 1..16
      BY StepsListed
    <3>2. i \in 1..9 \/ \E k \in 1..7 : i = 9 + k
      BY <3>1, <2>1
    <3>. QED BY <3>2, <1>1, <1>3, StepsListed
  <2>4. ASSUME NEW i \in DOMAIN Steps(c, "broken") PROVE clean(Steps(c, "broken")[i])
    <3>1. i \in 1..9 \/ i = 10
      BY StepsListed
    <3>. QED BY <3>1, <1>1, <1>4, StepsListed
  <2>. QED BY <2>2, <2>3, <2>4 DEF Boots
<1>6. \A step \in steps : step.disk \cap Marks = {}
  BY <1>5 DEF Script, Place, clean
<1>. QED BY <1>6 DEF DiskAfter

\* A step that needs a mark the disk does not have, or a file that is not there, blocks.
LEMMA UnmetBlocks ==
  ASSUME NEW c, NEW boot \in Boots, NEW files, NEW disk,
         NEW i \in DOMAIN Steps(c, boot), NEW x,
         \/ x \in Steps(c, boot)[i].wants /\ x \in Marks /\ x \notin disk
         \/ x \in Steps(c, boot)[i].files /\ x \notin files
  PROVE  Blocked(Script(c, boot), files, disk) # {}
<1>. DEFINE step == Place(Steps(c, boot)[i], i)
<1>1. Steps(c, boot)[i] # Nothing
  BY DEF Nothing, Step
<1>2. step \in Script(c, boot)
  BY <1>1 DEF Script
<1>3. step.files = Steps(c, boot)[i].files /\ step.wants = Steps(c, boot)[i].wants
  BY DEF Place
<1>. HIDE DEF step
<1>4. Before(step, Script(c, boot)) \subseteq Script(c, boot)
  BY DEF Before
<1>5. DiskAfter(Before(step, Script(c, boot)), disk) \cap Marks = disk \cap Marks
  BY <1>4, StepsLeaveNoMarks
<1>6. \/ ~(step.files \subseteq files)
      \/ ~(step.wants \subseteq DiskAfter(Before(step, Script(c, boot)), disk))
  BY <1>3, <1>5
<1>. QED BY <1>2, <1>6 DEF Blocked

\* A configuration that cannot be prepared stops its first run, and a boot after a
\* cascade that failed stops at once.
LEMMA HopelessStops ==
  ASSUME NEW c, ~Windows(c), NEW files, files \subseteq Uploaded(c), NEW disk,
         "never" \notin disk, "ib" \in disk => "ib" \in Shipped(c)
  PROVE  /\ CannotPrepare(c) => Blocked(Script(c, "first"), files, disk) # {}
         /\ Blocked(Script(c, "broken"), files, disk) # {}
<1>. DEFINE s == Steps(c, "first")
<1>1. /\ 1 \in DOMAIN s /\ 3 \in DOMAIN s /\ 17 \in DOMAIN s /\ 25 \in DOMAIN s
      /\ s[1] = get_vm_size_from_imds(c) /\ s[3] = decrypt_encrypted_credentials(c)
      /\ s[17] = check_for_mellanox_card(c) /\ s[25] = install_beeond(c)
  BY StepsListed DEF EveryBoot, Install
<1>2. "first" \in Boots /\ "broken" \in Boots /\ "ib" \in Marks /\ "never" \in Marks
  BY DEF Boots, Marks
<1>3. Blocked(Script(c, "broken"), files, disk) # {}
  <2>1. 10 \in DOMAIN Steps(c, "broken") /\ "never" \in Steps(c, "broken")[10].wants
    BY StepsListed DEF Exit, Step
  <2>. QED BY <2>1, <1>2, UnmetBlocks
<1>. HIDE DEF s
<1>4. ASSUME NEW i \in DOMAIN s, \/ "never" \in s[i].wants
                                 \/ "ib" \in s[i].wants /\ "ib" \notin disk
                                 \/ "intel_mpi_rt.tar.gz" \in s[i].files
                                      /\ "intel_mpi_rt.tar.gz" \notin files
      PROVE  Blocked(Script(c, "first"), files, disk) # {}
  BY <1>2, <1>4, UnmetBlocks DEF s
<1>5. CASE Rdma(c) /\ "ib" \notin Shipped(c)
  <2>1. "ib" \in s[1].wants /\ "ib" \notin disk
    BY <1>1, <1>5 DEF get_vm_size_from_imds, When, Step
  <2>. QED BY <2>1, <1>1, <1>3, <1>4
<1>6. CASE NetworkDirect(c) /\ c.image \notin CustomImages
             \cup {"centoshpc", "centoscontainerrdma", "ubuntucontainerrdma"}
  <2>1. Rdma(c) /\ ~Custom(c) /\ "intelmpi" \notin Shipped(c) /\ ~intel_mpi_rt_pkg(c)
    BY <1>6, ShippedMeans DEF NetworkDirect, Rdma, Custom, intel_mpi_rt_pkg
  <2>2. "intel_mpi_rt.tar.gz" \notin files
    BY <2>1, FilesMean
  <2>3. "intel_mpi_rt.tar.gz" \in s[17].files
    BY <1>1, <1>6, <2>1, FlagsMean DEF check_for_mellanox_card, install_intel_mpi, When, Step
  <2>. QED BY <2>2, <2>3, <1>1, <1>3, <1>4
<1>7. CASE On(c, "encrypt") /\ ~Cascades(c)
  <2>1. "never" \in s[3].wants
    BY <1>1, <1>7, FlagsMean, EnvironmentMeans
       DEF decrypt_encrypted_credentials, When, Exit, Step
  <2>. QED BY <2>1, <1>1, <1>3, <1>4
<1>8. CASE On(c, "autoscratch") /\ c.image = "ubuntu18"
  <2>1. ~Custom(c)
    BY <1>8 DEF Custom, CustomImages
  <2>2. "never" \in s[25].wants
    BY <1>1, <1>8, <2>1, FlagsMean DEF install_beeond, DistribUbuntu18, When, Exit, Step
  <2>. QED BY <2>2, <1>1, <1>3, <1>4
<1>. QED BY <1>3, <1>5, <1>6, <1>7, <1>8 DEF CannotPrepare

\* What cascade uses is uploaded.
LEMMA CascadeFilesUploaded ==
  ASSUME NEW c, ~Windows(c), RunsCascade(c) PROVE CascadeFiles(c) \subseteq Uploaded(c)
<1>1. Cascades(c)
  BY FlagsMean DEF RunsCascade, Cascades
<1>. QED BY <1>1, FlagsMean, EnvironmentMeans, FilesMean DEF CascadeFiles, Opt

-----------------------------------------------------------------------------
(* The nodes of a pool (PoolOps)                                           *)

\* What is known of a node, whatever the state of its pool's storage.
Shipshape(c, node) ==
  /\ DOMAIN node = {"st", "disk", "live", "why"}
  /\ node.st # "absent" =>
       /\ Shipped(c) \subseteq node.disk
       /\ Native(c) /\ ~Delayed(c) => "images" \in node.disk
  /\ "never" \notin node.disk
  /\ "ib" \in node.disk => "ib" \in Shipped(c)
  /\ "cascade_failed" \in node.disk => RunsCascade(c)
  /\ node.why # "none" => node.st \in {"failed", "leaving"}
Marked(c, node) ==
  "node_prep_finished" \in node.disk /\ "cascade_failed" \notin node.disk =>
    /\ ~CannotPrepare(c) /\ Installed(c) \subseteq node.disk
    /\ RunsCascade(c) /\ Flag(c, "d") /\ On(c, "block") => "images" \in node.disk
Up(c, node) ==
  node.st \in {"cascade", "idle"} =>
    /\ ~CannotPrepare(c) /\ Installed(c) \subseteq node.disk /\ Alive(c) \subseteq node.live
    /\ "node_prep_finished" \in node.disk
    /\ node.st = "cascade" => RunsCascade(c)
    /\ node.st = "idle" => "cascade_failed" \notin node.disk
Good(c, node) == Shipshape(c, node) /\ Marked(c, node) /\ Up(c, node)

\* PrepEnds of one node.
Fine(c, node) ==
  /\ node.why # "cascade"
  /\ node.why = "script" =>
       \/ CannotPrepare(c)
       \/ "cascade_failed" \in node.disk
       \/ On(c, "gluster") /\ Custom(c) /\ "fstab_gluster" \notin node.disk

LEMMA NotThereIsGood ==
  ASSUME NEW c PROVE Good(c, NoNode) /\ Fine(c, NoNode)
BY DEF Good, Shipshape, Marked, Up, Fine, NoNode

\* A node that only changes its state, to one in which it is not up.
LEMMA DownIsGood ==
  ASSUME NEW c, NEW node, Good(c, node), node.st # "absent",
         NEW new, DOMAIN new = DOMAIN node, new.disk = node.disk,
         new.st \notin {"cascade", "idle"},
         new.why = "none" \/ new.st \in {"failed", "leaving"}
  PROVE  /\ Good(c, new)
         /\ new.why = "none" => Fine(c, new)
         /\ new.why = node.why /\ Fine(c, node) => Fine(c, new)
<1>1. Shipshape(c, new)
  BY DEF Good, Shipshape
<1>2. Marked(c, new) /\ Up(c, new)
  BY DEF Good, Marked, Up
<1>3. /\ new.why = "none" => Fine(c, new)
      /\ new.why = node.why /\ Fine(c, node) => Fine(c, new)
  BY DEF Fine
<1>. QED BY <1>1, <1>2, <1>3 DEF Good

\* What some steps of a script make of a node.
LEMMA AfterSteps ==
  ASSUME NEW c, NEW node, Good(c, node), node.st # "absent", NEW boot \in Boots,
         NEW steps, steps \subseteq Script(c, boot)
  PROVE  LET new == After(node, steps) IN
         /\ Good(c, new)
         /\ DOMAIN new = DOMAIN node /\ new.st = node.st /\ new.why = node.why
         /\ new.disk = DiskAfter(steps, node.disk) /\ new.live = LiveAfter(steps, node.live)
         /\ node.disk \subseteq new.disk /\ new.disk \cap Marks = node.disk \cap Marks
<1>. DEFINE new == After(node, steps)
<1>1. /\ DOMAIN new = DOMAIN node /\ new.st = node.st /\ new.why = node.why
      /\ new.disk = DiskAfter(steps, node.disk) /\ new.live = LiveAfter(steps, node.live)
  BY DEF After, Good, Shipshape
<1>2. node.disk \subseteq new.disk /\ node.live \subseteq new.live
  BY <1>1 DEF DiskAfter, LiveAfter
<1>3. new.disk \cap Marks = node.disk \cap Marks
  BY <1>1, StepsLeaveNoMarks
<1>. HIDE DEF new
<1>4. \A x \in Marks : x \in new.disk <=> x \in node.disk
  BY <1>3
<1>5. /\ "never" \in new.disk <=> "never" \in node.disk
      /\ "ib" \in new.disk <=> "ib" \in node.disk
      /\ "cascade_failed" \in new.disk <=> "cascade_failed" \in node.disk
      /\ "node_prep_finished" \in new.disk <=> "node_prep_finished" \in node.disk
  BY <1>4 DEF Marks
<1>6. Shipshape(c, new)
  BY <1>1, <1>2, <1>5 DEF Good, Shipshape
<1>7. Marked(c, new)
  BY <1>2, <1>5 DEF Good, Marked
<1>8. Up(c, new)
  BY <1>1, <1>2, <1>5 DEF Good, Up
<1>. QED BY <1>1, <1>2, <1>3, <1>6, <1>7, <1>8 DEF Good, new

\* A run that fails or is cut short.
LEMMA RunCut ==
  ASSUME NEW c, NEW node, Good(c, node), node.st = "starting", NEW boot \in Boots,
         NEW steps, steps \subseteq Script(c, boot)
  PROVE  /\ \A why : Good(c, Failed(After(node, steps), why))
         /\ Fine(c, Failed(After(node, steps), "fault"))
         /\ Good(c, DownAgain(After(node, steps))) /\ Fine(c, DownAgain(After(node, steps)))
<1>. DEFINE new == After(node, steps)
<1>1. Good(c, new) /\ new.st = "starting" /\ new.why = node.why
  BY AfterSteps
<1>2. DOMAIN new = {"st", "disk", "live", "why"} /\ new.why = "none"
  BY <1>1 DEF Good, Shipshape
<1>. HIDE DEF new
<1>3. ASSUME NEW why PROVE Good(c, Failed(new, why))
  <2>. DEFINE failed == Failed(new, why)
  <2>1. DOMAIN failed = DOMAIN new /\ failed.disk = new.disk /\ failed.st = "failed"
    BY <1>2 DEF Failed
  <2>. QED BY <2>1, <1>1, DownIsGood
<1>4. Fine(c, Failed(new, "fault"))
  BY <1>2 DEF Failed, Fine
<1>5. Good(c, DownAgain(new)) /\ Fine(c, DownAgain(new))
  <2>. DEFINE again == DownAgain(new)
  <2>1. /\ DOMAIN again = DOMAIN new /\ again.disk = new.disk /\ again.st = "rebooting"
        /\ again.why = "none"
    BY <1>2 DEF DownAgain
  <2>. QED BY <2>1, <1>1, DownIsGood
<1>. QED BY <1>3, <1>4, <1>5 DEF new

\* A run that stops by itself had a reason.
LEMMA RunStops ==
  ASSUME NEW c, ~Windows(c), NEW node, Good(c, node), node.st = "starting",
         NEW boot, boot = Boot(node.disk), NEW steps, steps \subseteq Script(c, boot),
         Blocked(Script(c, boot), Uploaded(c), node.disk) # {}
  PROVE  Fine(c, Failed(After(node, steps), "script"))
<1>. DEFINE new == Failed(After(node, steps), "script")
<1>1. boot \in Boots
  BY DEF Boot, Boots
<1>2. /\ DOMAIN After(node, steps) = {"st", "disk", "live", "why"}
      /\ After(node, steps).disk \cap Marks = node.disk \cap Marks
  BY <1>1, AfterSteps DEF Good, Shipshape
<1>3. new.disk \cap Marks = node.disk \cap Marks /\ new.why = "script"
  BY <1>2 DEF Failed
<1>. HIDE DEF new
<1>4. /\ "cascade_failed" \in new.disk <=> "cascade_failed" \in node.disk
      /\ "fstab_gluster" \in new.disk <=> "fstab_gluster" \in node.disk
  BY <1>3 DEF Marks
<1>5. CASE boot = "broken"
  <2>1. "cascade_failed" \in node.disk
    BY <1>5 DEF Boot
  <2>. QED BY <2>1, <1>3, <1>4 DEF Fine, new
<1>6. CASE boot = "first"
  <2>1. CannotPrepare(c)
    BY <1>6, FirstRunGoes DEF Good, Shipshape
  <2>. QED BY <2>1, <1>3 DEF Fine, new
<1>7. CASE boot = "again"
  <2>1. "node_prep_finished" \in node.disk /\ "cascade_failed" \notin node.disk
    BY <1>7 DEF Boot
  <2>2. ~CannotPrepare(c) /\ Installed(c) \subseteq node.disk
    BY <2>1 DEF Good, Marked
  <2>3. On(c, "gluster") /\ Custom(c) /\ "fstab_gluster" \notin node.disk
    BY <2>2, <1>7, LaterRunGoes
  <2>. QED BY <2>3, <1>3, <1>4 DEF Fine, new
<1>. QED BY <1>1, <1>5, <1>6, <1>7 DEF Boots

\* A run that goes through leaves what tasks, cascade and later boots need.
LEMMA RunEnds ==
  ASSUME NEW c, ~Windows(c), NEW node, Good(c, node), node.st = "starting",
         NEW boot, boot = Boot(node.disk), NEW files, files \subseteq Uploaded(c),
         Blocked(Script(c, boot), files, node.disk) = {}, NEW goesOn,
         goesOn <=> boot = "first" /\ RunsCascade(c), NEW new,
         new = [After(node, Script(c, boot)) EXCEPT
                  !.st = IF goesOn THEN "cascade" ELSE "idle",
                  !.disk = @ \cup {"node_prep_finished"}
                             \cup Opt(goesOn /\ Flag(c, "d"), "cascade_failed")]
  PROVE  Good(c, new) /\ Fine(c, new)
<1>. DEFINE done == After(node, Script(c, boot))
<1>1. boot \in Boots
  BY DEF Boot, Boots
<1>2. /\ Good(c, done) /\ DOMAIN done = {"st", "disk", "live", "why"} /\ done.why = "none"
      /\ done.st = "starting"
      /\ done.disk = DiskAfter(Script(c, boot), node.disk)
      /\ done.live = LiveAfter(Script(c, boot), node.live)
      /\ node.disk \subseteq done.disk /\ done.disk \cap Marks = node.disk \cap Marks
  BY <1>1, AfterSteps DEF Good, Shipshape
<1>. HIDE DEF done
<1>3. /\ DOMAIN new = {"st", "disk", "live", "why"} /\ new.why = "none"
      /\ new.st = (IF goesOn THEN "cascade" ELSE "idle") /\ new.live = done.live
      /\ new.disk = done.disk \cup {"node_prep_finished"}
                      \cup Opt(goesOn /\ Flag(c, "d"), "cascade_failed")
  BY <1>2 DEF done
<1>4. boot # "broken" /\ (boot = "first" => ~CannotPrepare(c))
  BY HopelessStops DEF Good, Shipshape
<1>5. Shipped(c) \subseteq node.disk
  BY DEF Good, Shipshape
<1>6. /\ ~CannotPrepare(c) /\ Installed(c) \subseteq done.disk /\ Alive(c) \subseteq done.live
      /\ "cascade_failed" \notin node.disk
      /\ boot = "again" /\ RunsCascade(c) /\ Flag(c, "d") /\ On(c, "block")
           => "images" \in node.disk
  <2>1. CASE boot = "first"
    <3>1. "cascade_failed" \notin node.disk
      BY <2>1 DEF Boot
    <3>. QED BY <2>1, <3>1, <1>2, <1>4, <1>5, FirstRunLeaves
  <2>2. CASE boot = "again"
    <3>1. "node_prep_finished" \in node.disk /\ "cascade_failed" \notin node.disk
      BY <2>2 DEF Boot
    <3>2. /\ ~CannotPrepare(c) /\ Installed(c) \subseteq node.disk
          /\ RunsCascade(c) /\ Flag(c, "d") /\ On(c, "block") => "images" \in node.disk
      BY <3>1 DEF Good, Marked
    <3>. QED BY <2>2, <3>1, <3>2, <1>2, LaterRunLeaves
  <2>. QED BY <1>1, <1>4, <2>1, <2>2 DEF Boots
<1>7. "cascade_failed" \in new.disk <=> goesOn /\ Flag(c, "d")
  BY <1>2, <1>3, <1>6 DEF Marks, Opt
<1>8. Shipshape(c, new)
  BY <1>2, <1>3, <1>7 DEF Good, Shipshape, Opt
<1>9. Marked(c, new)
  <2>1. Installed(c) \subseteq new.disk /\ node.disk \subseteq new.disk
    BY <1>2, <1>3, <1>6
  <2>2. boot = "first" \/ boot = "again"
    BY <1>1, <1>4 DEF Boots
  <2>. QED BY <2>1, <2>2, <1>6, <1>7 DEF Marked
<1>10. Up(c, new)
  <2>1. /\ Installed(c) \subseteq new.disk /\ Alive(c) \subseteq new.live
        /\ "node_prep_finished" \in new.disk
    BY <1>3, <1>6
  <2>. QED BY <2>1, <1>3, <1>6, <1>7 DEF Up
<1>11. Fine(c, new)
  BY <1>3 DEF Fine
<1>. QED BY <1>8, <1>9, <1>10, <1>11 DEF Good

\* The marks are not among what a first run installs.
LEMMA InstalledUnmarked ==
  ASSUME NEW c
  PROVE  "cascade_failed" \notin Installed(c) /\ "node_prep_finished" \notin Installed(c)
BY DEF Installed, Shipped, Opt

\* The end of cascade.
LEMMA CascadeEnds ==
  ASSUME NEW c, NEW node, Good(c, node), node.st = "cascade", NEW new,
         DOMAIN new = DOMAIN node, new.st = "idle", new.why = node.why, new.live = node.live,
         new.disk = (node.disk \ {"cascade_failed"}) \cup Opt(On(c, "block"), "images")
  PROVE  Good(c, new) /\ Fine(c, new)
<1>1. /\ ~CannotPrepare(c) /\ Installed(c) \subseteq node.disk /\ Alive(c) \subseteq node.live
      /\ "node_prep_finished" \in node.disk /\ RunsCascade(c)
  BY DEF Good, Up
<1>2. Installed(c) \subseteq new.disk /\ "cascade_failed" \notin new.disk
  BY <1>1, InstalledUnmarked DEF Opt
<1>3. Shipshape(c, new)
  <2>1. Shipped(c) \subseteq new.disk
    BY <1>2 DEF Installed
  <2>2. /\ "images" \in node.disk => "images" \in new.disk
        /\ "never" \in new.disk <=> "never" \in node.disk
        /\ "ib" \in new.disk <=> "ib" \in node.disk
    BY DEF Opt
  <2>. QED BY <1>2, <2>1, <2>2 DEF Good, Shipshape
<1>4. Marked(c, new)
  BY <1>1, <1>2 DEF Marked, Opt
<1>5. Up(c, new)
  BY <1>1, <1>2 DEF Up, Opt
<1>6. Fine(c, new)
  BY DEF Good, Shipshape, Fine
<1>. QED BY <1>3, <1>4, <1>5, <1>6 DEF Good

\* Cascade fails: the first boot's mark is taken back, and the next boot is a first one
\* again.
LEMMA CascadeFails ==
  ASSUME NEW c, NEW node, Good(c, node), node.st = "cascade", NEW new,
         DOMAIN new = DOMAIN node, new.st = "failed",
         new.disk \in {node.disk, node.disk \ {"node_prep_finished"}}
  PROVE  Good(c, new) /\ (new.why = "fault" => Fine(c, new))
<1>1. Installed(c) \subseteq new.disk
  BY InstalledUnmarked DEF Good, Up
<1>2. Shipshape(c, new)
  <2>1. Shipped(c) \subseteq new.disk
    BY <1>1 DEF Installed
  <2>2. \A x \in {"images", "never", "ib", "cascade_failed"} : x \in new.disk <=> x \in node.disk
    OBVIOUS
  <2>. QED BY <2>1, <2>2 DEF Good, Shipshape
<1>3. Marked(c, new)
  BY DEF Good, Marked, Up, Shipshape
<1>4. Up(c, new) /\ (new.why = "fault" => Fine(c, new))
  BY DEF Up, Fine
<1>. QED BY <1>2, <1>3, <1>4 DEF Good

\* Every node is as its configuration makes it.
NodesInv ==
  /\ cfg \in Settings /\ DOMAIN nodes = Nodes
  /\ \A n \in Nodes : Good(cfg, nodes[n])

\* What a step may do with a node; what it makes of one is fine when the pool is active
\* and its files are there.
Turns(n) ==
  \/ nodes'[n] \in {nodes[n], NoNode}
  \/ /\ nodes[n].st # "absent" \/ pool.st = "active"
     /\ Good(cfg, nodes'[n])
     /\ pool.st = "active" /\ "files" \in store.holds /\ Fine(cfg, nodes[n])
          => Fine(cfg, nodes'[n])
NodesTurn == DOMAIN nodes' = Nodes /\ \A n \in Nodes : Turns(n)

\* Only Linux pools; what is uploaded and run for them.
LEMMA SettingsMean ==
  ASSUME cfg \in Settings
  PROVE  /\ ~Windows(cfg) /\ Uploads[cfg] = Uploaded(cfg)
         /\ Files \subseteq Uploaded(cfg)
         /\ "files" \in store.holds => Files = Uploaded(cfg)
         /\ \A boot \in Boots : Scripts[cfg][boot] = Script(cfg, boot)
         /\ cfg \in Hopeless <=> CannotPrepare(cfg)
         /\ TasksNeed[cfg] = Needs(cfg)
<1>1. ~Windows(cfg)
  <2>1. PICK c \in PoolConfigs : cfg = Settled(c)
    BY DEF Settings
  <2>2. c.image # "windows" /\ Adjusted(c).image = c.image /\ "image" \in DOMAIN Adjusted(c)
    BY PoolAssumption DEF Windows, Adjusted, Configs
  <2>. QED BY <2>1, <2>2 DEF Settled, VmConfiguration, Windows
<1>. QED BY <1>1 DEF Uploads, Uploaded, Files, Scripts, Hopeless, TasksNeed

\* One node goes down, is rebooted, leaves or comes back from a reboot.
LEMMA OneGoesDown ==
  ASSUME NodesInv, NEW n \in Nodes, nodes[n].st # "absent", NEW new,
         DOMAIN new = DOMAIN nodes[n], new.disk = nodes[n].disk,
         new.st \notin {"cascade", "idle"},
         new.why = "none" \/ (new.why = nodes[n].why /\ new.st \in {"failed", "leaving"})
  PROVE  /\ Good(cfg, new)
         /\ Fine(cfg, nodes[n]) => Fine(cfg, new)
BY DownIsGood DEF NodesInv

\* A change of one node.
LEMMA OneTurns ==
  ASSUME NodesInv, NEW n \in Nodes, NEW new, nodes' = [nodes EXCEPT ![n] = new],
         nodes[n].st # "absent" \/ pool.st = "active", Good(cfg, new),
         pool.st = "active" /\ "files" \in store.holds /\ Fine(cfg, nodes[n]) => Fine(cfg, new)
  PROVE  NodesTurn
BY DEF NodesInv, NodesTurn, Turns

LEMMA StartTaskTurns ==
  ASSUME NodesInv, NEW n \in Nodes, StartTask(n) \/ StartTaskFault(n) PROVE NodesTurn
<1>. DEFINE node == nodes[n]
            boot == Boot(node.disk)
            script == Script(cfg, boot)
            blocked == Blocked(script, Files, node.disk)
            running == Running(script, blocked)
            goesOn == boot = "first" /\ RunsCascade(cfg)
            up == [After(node, script) EXCEPT
                     !.st = IF goesOn THEN "cascade" ELSE "idle",
                     !.disk = @ \cup {"node_prep_finished"}
                                \cup Opt(goesOn /\ Flag(cfg, "d"), "cascade_failed")]
<1>1. node.st = "starting" /\ Good(cfg, node)
  BY DEF NodesInv, StartTask, StartTaskFault
<1>2. boot \in Boots /\ Scripts[cfg][boot] = script
  <2>1. boot \in Boots
    BY DEF Boot, Boots
  <2>. QED BY <2>1, SettingsMean DEF NodesInv
<1>3. /\ ~Windows(cfg) /\ Files \subseteq Uploaded(cfg)
      /\ "files" \in store.holds => Files = Uploaded(cfg)
  BY SettingsMean DEF NodesInv
<1>4. running \subseteq script
  BY DEF Running
<1>5. \/ \E steps \in SUBSET running : nodes' = [nodes EXCEPT ![n] = DownAgain(After(node, steps))]
      \/ \E steps \in SUBSET running :
           nodes' = [nodes EXCEPT ![n] = Failed(After(node, steps), "fault")]
      \/ blocked # {} /\ nodes' = [nodes EXCEPT ![n] = Failed(After(node, running), "script")]
      \/ blocked = {} /\ nodes' = [nodes EXCEPT ![n] = up]
  <2>1. CASE StartTask(n)
    BY <2>1, <1>2 DEF StartTask, BatchStep
  <2>2. CASE StartTaskFault(n)
    BY <2>2, <1>2 DEF StartTaskFault, BatchStep
  <2>. QED BY <2>1, <2>2
<1>. HIDE DEF node, boot, script, blocked, running, goesOn, up
<1>6. ASSUME NEW steps \in SUBSET running
      PROVE  /\ Good(cfg, DownAgain(After(node, steps))) /\ Fine(cfg, DownAgain(After(node, steps)))
             /\ Good(cfg, Failed(After(node, steps), "fault"))
             /\ Fine(cfg, Failed(After(node, steps), "fault"))
             /\ Good(cfg, Failed(After(node, steps), "script"))
  <2>1. steps \subseteq Script(cfg, boot)
    BY <1>4 DEF script
  <2>. QED BY <2>1, <1>1, <1>2, RunCut
<1>7. ASSUME blocked # {}, "files" \in store.holds
      PROVE  Fine(cfg, Failed(After(node, running), "script"))
  BY <1>7, <1>1, <1>3, <1>4, RunStops DEF script, blocked, boot
<1>8. ASSUME blocked = {} PROVE Good(cfg, up) /\ Fine(cfg, up)
  BY <1>8, <1>1, <1>3, RunEnds DEF script, blocked, boot, goesOn, up
<1>9. nodes[n].st # "absent"
  BY <1>1 DEF node
<1>. QED BY <1>5, <1>6, <1>7, <1>8, <1>9, OneTurns DEF node

LEMMA CascadeTurns ==
  ASSUME NodesInv, NEW n \in Nodes, RunCascade(n) \/ CascadeFault(n) PROVE NodesTurn
<1>. DEFINE node == nodes[n]
            up == [node EXCEPT !.st = "idle",
                     !.disk = (@ \ {"cascade_failed"}) \cup Opt(On(cfg, "block"), "images")]
            back == Unfinished(node)
<1>1. node.st = "cascade" /\ Good(cfg, node) /\ DOMAIN node = {"st", "disk", "live", "why"}
  BY DEF NodesInv, RunCascade, CascadeFault, Good, Shipshape
<1>2. /\ Files \subseteq Uploaded(cfg) /\ ~Windows(cfg)
      /\ "files" \in store.holds => Files = Uploaded(cfg)
  BY SettingsMean DEF NodesInv
<1>3. \/ nodes' = [nodes EXCEPT ![n] = up]
      \/ /\ ~(CascadeFiles(cfg) \subseteq Files)
         /\ nodes' = [nodes EXCEPT ![n] = Failed(back, "cascade")]
      \/ \E old \in {node, back} : nodes' = [nodes EXCEPT ![n] = Failed(old, "fault")]
  <2>1. CASE RunCascade(n)
    BY <2>1 DEF RunCascade, BatchStep
  <2>2. CASE CascadeFault(n)
    BY <2>2 DEF CascadeFault, BatchStep
  <2>. QED BY <2>1, <2>2
<1>4. /\ DOMAIN up = DOMAIN node /\ up.st = "idle" /\ up.why = node.why /\ up.live = node.live
      /\ up.disk = (node.disk \ {"cascade_failed"}) \cup Opt(On(cfg, "block"), "images")
  BY <1>1
<1>5. ASSUME NEW old \in {node, back}, NEW why
      PROVE  /\ DOMAIN Failed(old, why) = DOMAIN node
             /\ Failed(old, why).st = "failed" /\ Failed(old, why).why = why
             /\ Failed(old, why).disk \in {node.disk, node.disk \ {"node_prep_finished"}}
  BY <1>1 DEF Failed, Unfinished
<1>6. nodes[n].st # "absent" /\ back \in {node, back}
  BY <1>1
<1>. HIDE DEF node, up, back
<1>7. Good(cfg, up) /\ Fine(cfg, up)
  BY <1>1, <1>4, CascadeEnds
<1>8. ASSUME NEW old \in {node, back}, NEW why
      PROVE  Good(cfg, Failed(old, why)) /\ (why = "fault" => Fine(cfg, Failed(old, why)))
  BY <1>1, <1>5, CascadeFails
<1>9. "files" \in store.holds => CascadeFiles(cfg) \subseteq Files
  <2>1. RunsCascade(cfg)
    BY <1>1 DEF Good, Up
  <2>. QED BY <2>1, <1>2, CascadeFilesUploaded
<1>. QED BY <1>3, <1>6, <1>7, <1>8, <1>9, OneTurns

\* Batch allocates, takes away and restarts nodes.
LEMMA BatchTurns ==
  ASSUME NodesInv, NEW n \in Nodes,
         \/ Allocate(n) \/ Release(n) \/ Leave(n) \/ RestartNode(n)
         \/ BecomeUnusable(n) \/ Preempt(n) \/ RebootByOthers(n)
  PROVE  NodesTurn
<1>. DEFINE node == nodes[n]
<1>1. Good(cfg, node) /\ DOMAIN nodes = Nodes
  BY DEF NodesInv
<1>2. DOMAIN node = {"st", "disk", "live", "why"}
  BY <1>1 DEF Good, Shipshape
<1>3. node.why # "none" => node.st \in {"failed", "leaving"}
  BY <1>1 DEF Good, Shipshape
<1>4. ASSUME Allocate(n) PROVE NodesTurn
  <2>. DEFINE new == [NoNode EXCEPT !.st = "starting",
                        !.disk = Shipped(cfg) \cup Opt(Native(cfg) /\ ~Delayed(cfg), "images")]
  <2>1. nodes' = [nodes EXCEPT ![n] = new] /\ pool.st = "active"
    BY <1>4 DEF Allocate, BatchStep
  <2>2. /\ DOMAIN new = {"st", "disk", "live", "why"} /\ new.st = "starting" /\ new.why = "none"
        /\ new.disk = Shipped(cfg) \cup Opt(Native(cfg) /\ ~Delayed(cfg), "images")
    BY DEF NoNode
  <2>. HIDE DEF new
  <2>3. /\ "never" \notin new.disk /\ "cascade_failed" \notin new.disk
        /\ "node_prep_finished" \notin new.disk /\ ("ib" \in new.disk => "ib" \in Shipped(cfg))
    BY <2>2 DEF Shipped, Opt
  <2>4. Shipshape(cfg, new)
    BY <2>2, <2>3 DEF Shipshape, Opt
  <2>5. Good(cfg, new) /\ Fine(cfg, new)
    BY <2>2, <2>3, <2>4 DEF Good, Marked, Up, Fine
  <2>. QED BY <2>1, <2>5, OneTurns
<1>5. ASSUME Leave(n) PROVE NodesTurn
  BY <1>5, <1>1 DEF Leave, BatchStep, NodesTurn, Turns
<1>6. ASSUME NEW new, nodes' = [nodes EXCEPT ![n] = new], node.st # "absent",
             DOMAIN new = DOMAIN node, new.disk = node.disk, new.st \notin {"cascade", "idle"},
             new.why = "none" \/ (new.why = node.why /\ new.st \in {"failed", "leaving"})
      PROVE  NodesTurn
  BY <1>6, OneGoesDown, OneTurns
<1>7. ASSUME NEW st, nodes' = To(n, st), node.st # "absent",
             st = "leaving" \/ (st \notin {"cascade", "idle"} /\ node.why = "none")
      PROVE  NodesTurn
  <2>. DEFINE new == [node EXCEPT !.st = st]
  <2>1. nodes' = [nodes EXCEPT ![n] = new]
    BY <1>7, <1>1 DEF To
  <2>2. DOMAIN new = DOMAIN node /\ new.disk = node.disk /\ new.st = st /\ new.why = node.why
    BY <1>2
  <2>. HIDE DEF new
  <2>. QED BY <2>1, <2>2, <1>6, <1>7
<1>8. ASSUME Release(n) PROVE NodesTurn
  BY <1>8, <1>7 DEF Release, BatchStep, Present, In
<1>9. ASSUME RestartNode(n) \/ BecomeUnusable(n) \/ Preempt(n) PROVE NodesTurn
  <2>1. node.st \in {"rebooting", "idle"} /\ node.why = "none"
    BY <1>3, <1>9 DEF RestartNode, BecomeUnusable, Preempt
  <2>. QED BY <2>1, <1>9, <1>7 DEF RestartNode, BecomeUnusable, Preempt, BatchStep
<1>10. ASSUME RebootByOthers(n) PROVE NodesTurn
  <2>1. /\ nodes' = [nodes EXCEPT ![n] = Rebooted(n)] /\ node.st # "absent"
    BY <1>10 DEF RebootByOthers, BatchStep
  <2>2. /\ DOMAIN Rebooted(n) = DOMAIN node /\ Rebooted(n).disk = node.disk
        /\ Rebooted(n).st = "rebooting" /\ Rebooted(n).why = "none"
    BY <1>2 DEF Rebooted
  <2>. QED BY <2>1, <2>2, <1>6
<1>. QED BY <1>4, <1>5, <1>8, <1>9, <1>10

\* The client deletes nodes, reboots them and sets up gluster.
LEMMA ClientTurns ==
  ASSUME NodesInv,
         \/ \E n \in Nodes : RebootFailed(n)
         \/ DeleteUnusable \/ RebootNodes \/ SetupGluster
         \/ \E command, st : DelNodes(command, st) /\ st # "absent"
  PROVE  NodesTurn
<1>1. /\ DOMAIN nodes = Nodes
      /\ \A n \in Nodes : /\ Good(cfg, nodes[n])
                          /\ DOMAIN nodes[n] = {"st", "disk", "live", "why"}
  BY DEF NodesInv, Good, Shipshape
<1>2. ASSUME NEW ns, \A n \in Nodes \cap ns : nodes[n].st # "absent",
             nodes' = [n \in Nodes |-> IF n \in ns THEN [nodes[n] EXCEPT !.st = "leaving"]
                                      ELSE nodes[n]]
      PROVE  NodesTurn
  <2> SUFFICES ASSUME NEW n \in Nodes, n \in ns PROVE Turns(n)
    BY <1>2 DEF NodesTurn, Turns
  <2>. DEFINE new == [nodes[n] EXCEPT !.st = "leaving"]
  <2>1. /\ DOMAIN new = DOMAIN nodes[n] /\ new.disk = nodes[n].disk /\ new.st = "leaving"
        /\ new.why = nodes[n].why
    BY <1>1
  <2>2. nodes'[n] = new /\ nodes[n].st # "absent"
    BY <1>2
  <2>. HIDE DEF new
  <2>3. Good(cfg, new) /\ (Fine(cfg, nodes[n]) => Fine(cfg, new))
    BY <2>1, <2>2, OneGoesDown
  <2>. QED BY <2>2, <2>3 DEF Turns
<1>3. ASSUME NEW ns, \A n \in Nodes \cap ns : nodes[n].st # "absent",
             nodes' = [n \in Nodes |-> IF n \in ns THEN Rebooted(n) ELSE nodes[n]]
      PROVE  NodesTurn
  <2> SUFFICES ASSUME NEW n \in Nodes, n \in ns PROVE Turns(n)
    BY <1>3 DEF NodesTurn, Turns
  <2>1. /\ DOMAIN Rebooted(n) = DOMAIN nodes[n] /\ Rebooted(n).disk = nodes[n].disk
        /\ Rebooted(n).st = "rebooting" /\ Rebooted(n).why = "none"
    BY <1>1 DEF Rebooted
  <2>2. nodes'[n] = Rebooted(n) /\ nodes[n].st # "absent"
    BY <1>3
  <2>3. Good(cfg, Rebooted(n)) /\ (Fine(cfg, nodes[n]) => Fine(cfg, Rebooted(n)))
    BY <2>1, <2>2, OneGoesDown
  <2>. QED BY <2>2, <2>3 DEF Turns
<1>4. ASSUME UNCHANGED nodes PROVE NodesTurn
  BY <1>1, <1>4 DEF NodesTurn, Turns
<1>5. ASSUME NEW n \in Nodes, RebootFailed(n) PROVE NodesTurn
  <2>1. CASE UNCHANGED nodes
    BY <2>1, <1>4
  <2>2. CASE nodes[n].st # "absent" /\ nodes' = [nodes EXCEPT ![n] = Rebooted(n)]
    <3>1. nodes' = [m \in Nodes |-> IF m \in {n} THEN Rebooted(m) ELSE nodes[m]]
      BY <1>1, <2>2
    <3>. QED BY <2>2, <3>1, <1>3
  <2>. QED BY <1>5, <2>1, <2>2 DEF RebootFailed
<1>6. ASSUME RebootNodes PROVE NodesTurn
  <2>. DEFINE ns == {n \in Nodes : nodes[n].st = "failed"}
  <2>1. nodes' = [n \in Nodes |-> IF n \in ns THEN Rebooted(n) ELSE nodes[n]]
    BY <1>6 DEF RebootNodes
  <2>. QED BY <2>1, <1>3
<1>7. ASSUME DeleteUnusable PROVE NodesTurn
  <2>1. \A n \in Nodes \cap In("unusable") : nodes[n].st # "absent"
    BY DEF In
  <2>2. UNCHANGED nodes \/ RemoveNodes(In("unusable"))
    BY <1>7 DEF DeleteUnusable
  <2>. QED BY <2>1, <2>2, <1>2, <1>4 DEF RemoveNodes
<1>8. ASSUME NEW command, NEW st, DelNodes(command, st), st # "absent" PROVE NodesTurn
  <2>1. \A n \in Nodes \cap In(st) : nodes[n].st # "absent"
    BY <1>8 DEF In
  <2>2. UNCHANGED nodes \/ RemoveNodes(In(st))
    BY <1>8 DEF DelNodes
  <2>. QED BY <2>1, <2>2, <1>2, <1>4 DEF RemoveNodes
<1>9. ASSUME SetupGluster PROVE NodesTurn
  <2>1. CASE UNCHANGED nodes
    BY <2>1, <1>4
  <2>. DEFINE set(n) == [nodes[n] EXCEPT !.live = @ \cup {"gluster"},
                                        !.disk = @ \cup {"fstab_gluster"}]
  <2>2. CASE nodes' = [n \in Nodes |-> IF n \in Present \ cli.old THEN set(n) ELSE nodes[n]]
    <3> SUFFICES ASSUME NEW n \in Nodes, n \in Present \ cli.old PROVE Turns(n)
      BY <2>2 DEF NodesTurn, Turns
    <3>. DEFINE node == nodes[n]
                new == set(n)
    <3>1. node.st = "idle" /\ node.st # "absent" /\ Good(cfg, node)
      BY <1>1, <1>9 DEF SetupGluster, Present, In
    <3>2. /\ DOMAIN new = DOMAIN node /\ new.st = node.st /\ new.why = node.why
          /\ new.live = node.live \cup {"gluster"}
          /\ new.disk = node.disk \cup {"fstab_gluster"}
      BY <1>1
    <3>3. nodes'[n] = new
      BY <2>2
    <3>. HIDE DEF new, node, set
    <3>4. /\ "never" \in new.disk <=> "never" \in node.disk
          /\ "ib" \in new.disk <=> "ib" \in node.disk
          /\ "cascade_failed" \in new.disk <=> "cascade_failed" \in node.disk
          /\ "node_prep_finished" \in new.disk <=> "node_prep_finished" \in node.disk
          /\ node.disk \subseteq new.disk /\ node.live \subseteq new.live
      BY <3>2
    <3>5. Shipshape(cfg, new)
      BY <3>1, <3>2, <3>4 DEF Good, Shipshape
    <3>6. Marked(cfg, new)
      BY <3>1, <3>4 DEF Good, Marked
    <3>7. Up(cfg, new)
      BY <3>1, <3>2, <3>4 DEF Good, Up
    <3>8. Fine(cfg, new)
      BY <3>1, <3>2 DEF Good, Shipshape, Fine
    <3>. QED BY <3>1, <3>3, <3>5, <3>6, <3>7, <3>8 DEF Turns, Good, node
  <2>. QED BY <1>9, <2>1, <2>2 DEF SetupGluster
<1>. QED BY <1>5, <1>6, <1>7, <1>8, <1>9

\* What a step may do with the pool and the configuration.
PoolTurns ==
  /\ cfg' = cfg
  /\ \/ pool'.st = pool.st \/ (pool.st = "active" /\ pool'.st = "deleting")
     \/ pool.st = "none" /\ UNCHANGED nodes
     \/ pool'.st = "none" /\ nodes' = [n \in Nodes |-> NoNode]

LEMMA NextTurns ==
  ASSUME NodesInv, DOMAIN pool = DOMAIN NoPool, [Next]_vars PROVE NodesTurn /\ PoolTurns
<1>1. DOMAIN nodes = Nodes /\ DOMAIN pool = {"st", "target", "alloc", "error"}
  BY DEF NodesInv, NoPool
<1>2. ASSUME UNCHANGED nodes PROVE NodesTurn
  BY <1>1, <1>2 DEF NodesTurn, Turns
<1>3. ASSUME pool' = Resized \/ \E ns : RemoveNodes(ns) PROVE pool'.st = pool.st
  BY <1>1, <1>3 DEF Resized, RemoveNodes
<1>4. CASE UNCHANGED vars
  BY <1>4, <1>2 DEF vars, PoolTurns
<1>5. CASE \E c \in Commands(cfg) : Issue(c)
  BY <1>5, <1>2 DEF Issue, PoolTurns
<1>6. CASE \/ CheckExists \/ Cleanup \/ AwaitGone \/ CreateContainers \/ ClearContainers
           \/ PopulateGlobals \/ ConstructPool \/ ReadPool \/ ReadNodes \/ PollReboot
           \/ Post \/ AwaitShrinking \/ Interrupt \/ ContainerDeleted
  BY <1>6, <1>2
     DEF CheckExists, Cleanup, AwaitGone, CreateContainers, ClearContainers, PopulateGlobals,
         ConstructPool, ReadPool, ReadNodes, PollReboot, Post, AwaitShrinking, Interrupt,
         ContainerDeleted, PoolTurns
<1>7. CASE DelPool
  BY <1>7, <1>1, <1>2 DEF DelPool, PoolTurns
<1>8. CASE AddPool
  BY <1>8, <1>2 DEF AddPool, PoolTurns
<1>9. CASE Check \/ ResizePool
  BY <1>9, <1>2, <1>3 DEF Check, ResizePool, PoolTurns
<1>10. CASE (\E n \in Nodes : RebootFailed(n)) \/ RebootNodes \/ SetupGluster
  BY <1>10, ClientTurns DEF RebootFailed, RebootNodes, SetupGluster, PoolTurns
<1>11. CASE DeleteUnusable
  BY <1>11, <1>3, ClientTurns DEF DeleteUnusable, PoolTurns
<1>12. ASSUME NEW command, NEW st, st # "absent", DelNodes(command, st)
       PROVE  NodesTurn /\ PoolTurns
  BY <1>12, <1>3, ClientTurns DEF DelNodes, PoolTurns
<1>13. CASE Steady \/ \E error \in {"cores", "lowpricores", "timeout"} : FallShort(error)
  BY <1>13, <1>1, <1>2 DEF Steady, FallShort, BatchStep, PoolTurns
<1>14. CASE PoolDeleted
  BY <1>14 DEF PoolDeleted, BatchStep, NoPool, PoolTurns, NodesTurn, Turns
<1>15. ASSUME NEW n \in Nodes,
              \/ Allocate(n) \/ Release(n) \/ Leave(n) \/ RestartNode(n)
              \/ BecomeUnusable(n) \/ Preempt(n) \/ RebootByOthers(n)
       PROVE  NodesTurn /\ PoolTurns
  BY <1>15, BatchTurns
     DEF Allocate, Release, Leave, RestartNode, BecomeUnusable, Preempt, RebootByOthers,
         BatchStep, PoolTurns
<1>16. ASSUME NEW n \in Nodes, StartTask(n) \/ StartTaskFault(n) PROVE NodesTurn /\ PoolTurns
  BY <1>16, StartTaskTurns DEF StartTask, StartTaskFault, BatchStep, PoolTurns
<1>17. ASSUME NEW n \in Nodes, RunCascade(n) \/ CascadeFault(n) PROVE NodesTurn /\ PoolTurns
  BY <1>17, CascadeTurns DEF RunCascade, CascadeFault, BatchStep, PoolTurns
<1>18. CASE Client
  BY <1>18, <1>6, <1>7, <1>8, <1>9, <1>10, <1>11, <1>12 DEF Client
<1>19. CASE BatchWorks
  BY <1>19, <1>6, <1>13, <1>14, <1>15 DEF BatchWorks
<1>20. CASE Faulty
  BY <1>20, <1>6, <1>13, <1>15, <1>16, <1>17 DEF Faulty
<1>21. CASE \E n \in Nodes : NodeWorks(n)
  BY <1>21, <1>16, <1>17 DEF NodeWorks
<1>. QED BY <1>4, <1>5, <1>18, <1>19, <1>20, <1>21 DEF Next

LEMMA NodesStay ==
  ASSUME NodesInv, NodesTurn, cfg' = cfg PROVE NodesInv'
<1>1. \A n \in Nodes : Good(cfg, nodes'[n])
  BY NotThereIsGood DEF NodesInv, NodesTurn, Turns
<1>. QED BY <1>1 DEF NodesInv, NodesTurn

\* The pool's fields stay what they are; they matter to the steps that set some of them.
PoolShape == DOMAIN pool = DOMAIN NoPool
LEMMA PoolShaped == ASSUME PoolShape, [Next]_vars PROVE PoolShape'
<1>. USE DEF PoolShape, NoPool
<1>1. ASSUME pool' \in {pool, NoPool, Resized} \/ \E ns : RemoveNodes(ns) PROVE PoolShape'
  BY <1>1 DEF Resized, RemoveNodes
<1>2. CASE UNCHANGED vars \/ \E c \in Commands(cfg) : Issue(c)
  BY <1>2 DEF vars, Issue
<1>3. CASE Client
  <2>1. CASE DelPool \/ AddPool
    BY <2>1 DEF DelPool, AddPool
  <2>2. CASE DeleteUnusable \/ Check \/ ResizePool \/ \E command, st : DelNodes(command, st)
    BY <2>2, <1>1 DEF DeleteUnusable, Check, ResizePool, DelNodes
  <2>3. CASE \/ CheckExists \/ Cleanup \/ AwaitGone \/ CreateContainers \/ ClearContainers
             \/ PopulateGlobals \/ ConstructPool \/ ReadPool \/ ReadNodes
             \/ (\E n \in Nodes : RebootFailed(n)) \/ PollReboot \/ Post \/ SetupGluster
             \/ AwaitShrinking \/ RebootNodes
    BY <2>3
       DEF CheckExists, Cleanup, AwaitGone, CreateContainers, ClearContainers,
           PopulateGlobals, ConstructPool, ReadPool, ReadNodes, RebootFailed, PollReboot, Post,
           SetupGluster, AwaitShrinking, RebootNodes
  <2>. QED BY <1>3, <2>1, <2>2, <2>3 DEF Client
<1>4. CASE BatchWorks \/ \E n \in Nodes : NodeWorks(n)
  BY <1>4
     DEF BatchWorks, NodeWorks, Steady, PoolDeleted, ContainerDeleted, Allocate, Release, Leave,
         RestartNode, StartTask, RunCascade, BatchStep
<1>5. CASE Faulty
  BY <1>5
     DEF Faulty, Interrupt, FallShort, BecomeUnusable, Preempt, RebootByOthers, StartTaskFault,
         CascadeFault, BatchStep
<1>. QED BY <1>2, <1>3, <1>4, <1>5 DEF Next

\* A node takes tasks only when it has all that an accepted task takes for granted, for
\* every Linux configuration, however often its start task was interrupted and rerun.
THEOREM IdleNodesAreReady == Spec => []NodesReady
<1>1. Init => NodesInv /\ PoolShape
  BY NotThereIsGood DEF Init, NodesInv, PoolShape
<1>2. NodesInv /\ PoolShape /\ [Next]_vars => (NodesInv /\ PoolShape)'
  BY NextTurns, NodesStay, PoolShaped DEF PoolShape, PoolTurns
<1>3. NodesInv => NodesReady
  <2> SUFFICES ASSUME NodesInv, NEW n \in Nodes, nodes[n].st = "idle"
               PROVE  /\ cfg \notin Hopeless
                      /\ TasksNeed[cfg] \subseteq nodes[n].live \cup nodes[n].disk \cup Uploads[cfg]
                      /\ Served(cfg) \subseteq nodes[n].live
                      /\ "node_prep_finished" \in nodes[n].disk
                      /\ On(cfg, "block") /\ (On(cfg, "container") \/ ~Cascades(cfg))
                           => /\ "images" \in nodes[n].disk
                              /\ "cascade_failed" \notin nodes[n].disk
    BY DEF NodesReady
  <2>1. Good(cfg, nodes[n])
    BY DEF NodesInv
  <2>2. /\ ~CannotPrepare(cfg) /\ Installed(cfg) \subseteq nodes[n].disk
        /\ Alive(cfg) \subseteq nodes[n].live
        /\ "node_prep_finished" \in nodes[n].disk /\ "cascade_failed" \notin nodes[n].disk
    BY <2>1 DEF Good, Up
  <2>3. /\ RunsCascade(cfg) /\ Flag(cfg, "d") /\ On(cfg, "block") => "images" \in nodes[n].disk
        /\ Native(cfg) /\ ~Delayed(cfg) => "images" \in nodes[n].disk
    BY <2>1, <2>2 DEF Good, Marked, Shipshape
  <2>4. (Cascades(cfg) <=> RunsCascade(cfg)) /\ (Flag(cfg, "d") <=> On(cfg, "container"))
    BY FlagsMean DEF Cascades, RunsCascade
  <2>5. /\ ~Windows(cfg) /\ Uploads[cfg] = Uploaded(cfg) /\ TasksNeed[cfg] = Needs(cfg)
        /\ cfg \notin Hopeless
    BY <2>2, SettingsMean DEF NodesInv
  <2>6. /\ Needs(cfg) \subseteq nodes[n].live \cup nodes[n].disk \cup Uploaded(cfg)
        /\ Served(cfg) \subseteq nodes[n].live
    BY <2>2, <2>5, TasksFindAll
  <2>7. On(cfg, "block") /\ (On(cfg, "container") \/ ~Cascades(cfg)) => "images" \in nodes[n].disk
    BY <2>3, <2>4 DEF Cascades
  <2>. QED BY <2>2, <2>5, <2>6, <2>7
<1>. QED BY <1>1, <1>2, <1>3, PTL DEF Spec

\* In a pool that is there, no start task fails by itself but where its configuration
\* cannot be prepared, after a cascade that failed, and on a custom image rebooted before
\* gluster was set up: on no boot of no Linux configuration is a file or program missing
\* that a step uses.
PrepInv ==
  /\ StoreInv /\ NodesInv
  /\ pool.st = "none" => \A n \in Nodes : nodes[n].st = "absent"
  /\ pool.st = "active" => \A n \in Nodes : Fine(cfg, nodes[n])

THEOREM StartTasksGoThrough ==
  ASSUME DeleteFaults = FALSE PROVE Spec => []PrepEnds
<1>1. Init => PrepInv
  <2> SUFFICES ASSUME Init PROVE PrepInv
    OBVIOUS
  <2>1. StoreInv
    BY DEF Init, StoreInv, StoreFits, Shapes, Idling, NoPool, Filling
  <2>2. NodesInv
    BY NotThereIsGood DEF Init, NodesInv
  <2>. QED BY <2>1, <2>2 DEF Init, PrepInv, NoPool, NoNode
<1>2. PrepInv /\ [Next]_vars => PrepInv'
  <2> SUFFICES ASSUME PrepInv, [Next]_vars PROVE PrepInv'
    OBVIOUS
  <2>1. StoreInv'
    BY StoreKept DEF PrepInv
  <2>2. NodesTurn /\ PoolTurns
    BY NextTurns DEF PrepInv, StoreInv, Shapes, NoPool
  <2>3. NodesInv'
    BY <2>2, NodesStay DEF PrepInv, PoolTurns
  <2>4. (pool.st = "none" => \A n \in Nodes : nodes[n].st = "absent")'
    BY <2>2 DEF PrepInv, NodesTurn, Turns, PoolTurns, NoNode
  <2>5. ASSUME pool'.st = "active" PROVE \A n \in Nodes : Fine(cfg, nodes'[n])
    <3>1. CASE pool.st = "active"
      BY <3>1, <2>2, NotThereIsGood DEF PrepInv, StoreInv, StoreFits, NodesTurn, Turns
    <3>2. CASE pool.st = "none" /\ UNCHANGED nodes
      BY <3>2 DEF PrepInv, NodesInv, Good, Shipshape, Fine
    <3>. QED BY <2>2, <2>5, <3>1, <3>2 DEF PoolTurns
  <2>. QED BY <2>1, <2>2, <2>3, <2>4, <2>5 DEF PrepInv, PoolTurns
<1>3. PrepInv => PrepEnds
  BY SettingsMean DEF PrepInv, NodesInv, Fine, PrepEnds
<1>. QED BY <1>1, <1>2, <1>3, PTL DEF Spec

=============================================================================
