---------------------------- MODULE FedPoolsProofs ----------------------------
(***************************************************************************)
(* Proofs about the choice of a pool, for every set of pools, constraints  *)
(* and node counts, any changes of the pools and any failed calls.         *)
(*                                                                         *)
(* The argument: counts from before the last submission are due to be read *)
(* (OldAreDue), so after a refresh only a pool that is not valid still has *)
(* them (OldNotKept).  For the choice: a set of pools has one with the most*)
(* room (MostIdleExists, MostAvailExists), hence a tier is empty only when *)
(* no candidate qualifies for it (PickInRoom).                             *)
(***************************************************************************)
EXTENDS FedPools, FiniteSetTheorems, TLAPS

\* A match knows its job, and from the choice on its pool.
Matching ==
  /\ pc \in {"again", "filter", "create", "schedule"} => con \in Constraints
  /\ pc \in {"create", "schedule"} => target \in Pool

\* Counts from before the last tasks are read again by the next refresh.
OldAreDue == old \ excused \subseteq due

\* The refresh of a match leaves them only to pools it cannot use.
OldNotKept == pc = "filter" => \A p \in kept : p \in old \ excused => ~Valid(p)

Inv == TypeOK /\ Matching /\ OldAreDue /\ OldNotKept /\ FreshCounts

USE PoolsAssumption

-----------------------------------------------------------------------------
(* The invariant *)

LEMMA InvInit == Init => Inv
<1> SUFFICES ASSUME Init PROVE Inv
  OBVIOUS
<1>1. batch \in [Pool -> Seen \cup {None}]
  BY DEF Init, Seen
<1>2. TypeOK
  BY <1>1 DEF Init, TypeOK
<1> QED
  BY <1>2 DEF Init, Inv, Matching, OldAreDue, OldNotKept, FreshCounts

\* A match that ends knows nothing any more.
LEMMA EndedMatch ==
  ASSUME TypeOK, NEW how \in {"idle", "blocked"}, EndMatch(how)
  PROVE  /\ pc' \in {"idle", "blocked"} /\ con' \in Constraints \cup {None}
         /\ black' \subseteq Pool /\ kept' \subseteq Pool
         /\ target' \in Pool \cup {None}
BY DEF TypeOK, EndMatch

LEMMA FailCounts ==
  ASSUME TypeOK, NEW n \in Nat, Fail(n)
  PROVE  faults' \in 0 .. MaxFaults
BY DEF TypeOK, Fail

\* The services and the commands leave the proxy alone.
LEMMA InvServices ==
  ASSUME Inv, NEW p \in Pool, BatchChanges(p) \/ AddPool(p) \/ RemovePool(p)
  PROVE  Inv'
<1>1. UNCHANGED <<cache, dark, match, old, excused, faults>>
  BY DEF BatchChanges, AddPool, RemovePool
<1>2. batch' \in [Pool -> Seen \cup {None}]
  <2>1. CASE UNCHANGED batch
    BY <2>1 DEF Inv, TypeOK
  <2>2. ASSUME NEW s \in Size, batch' = [batch EXCEPT ![p] = [size |-> s, active |-> TRUE]]
        PROVE  batch' \in [Pool -> Seen \cup {None}]
    BY <2>2 DEF Inv, TypeOK, Seen
  <2>3. CASE batch[p] # None /\ batch' = [batch EXCEPT ![p].active = FALSE]
    <3>1. batch[p] \in Seen
      BY <2>3 DEF Inv, TypeOK
    <3>2. [batch[p] EXCEPT !.active = FALSE] \in Seen
      BY <3>1 DEF Seen
    <3> QED
      BY <2>3, <3>2 DEF Inv, TypeOK
  <2>4. CASE batch' = [batch EXCEPT ![p] = None]
    BY <2>4 DEF Inv, TypeOK
  <2> QED
    BY <2>1, <2>2, <2>3, <2>4 DEF BatchChanges, AddPool, RemovePool
<1>3. listed' \subseteq Pool /\ changes' \in 0 .. MaxChanges
  BY DEF Inv, TypeOK, BatchChanges, AddPool, RemovePool, Change
<1> QED
  BY <1>1, <1>2, <1>3
     DEF Inv, TypeOK, Matching, OldAreDue, OldNotKept, FreshCounts, Valid, ValidAs, cache,
         match

\* A blackout that ends between refresh and filter excuses its pool.
LEMMA InvBlackout ==
  ASSUME Inv, NEW p \in Pool, BlackoutEnds(p)
  PROVE  Inv'
<1>1. /\ UNCHANGED <<service, faults, cache, match, old>> /\ dark' = dark \ {p}
      /\ excused \subseteq excused' /\ excused' \subseteq excused \cup {p}
      /\ pc = "filter" => p \in excused'
  BY DEF BlackoutEnds
<1>2. TypeOK'
  BY <1>1 DEF Inv, TypeOK, service, cache, match
<1>3. OldNotKept'
  <2> SUFFICES ASSUME pc = "filter", NEW q \in kept, q \in old \ excused', Valid(q)'
               PROVE  FALSE
    BY <1>1 DEF OldNotKept, match
  <2>1. q # p /\ q \in old \ excused
    BY <1>1
  <2>2. Valid(q)
    BY <1>1, <2>1 DEF Valid, ValidAs, cache
  <2> QED
    BY <2>1, <2>2 DEF Inv, OldNotKept
<1> QED
  BY <1>1, <1>2, <1>3 DEF Inv, Matching, OldAreDue, FreshCounts, match, cache

\* What the proxy reads of a pool is what the service has, or nothing.
LEMMA ReadTyped ==
  ASSUME TypeOK, NEW p \in Pool, NEW lost
  PROVE  /\ Read(p, lost) \in Seen \cup {None}
         /\ Read(p, lost) # None => Read(p, lost).size \in Size
<1>1. Read(p, lost) \in Seen \cup {None}
  BY DEF TypeOK, Read
<1> QED
  BY <1>1 DEF Seen

\* The number of failed calls is a number.
LEMMA CardNat ==
  ASSUME NEW S \in SUBSET Pool
  PROVE  Cardinality(S) \in Nat
BY FS_Subset, FS_CardinalityType

\* An entry that is built anew has no counts.
LEMMA InvUpdate ==
  ASSUME Inv, UpdateFederation
  PROVE  Inv'
<1> DEFINE open == {p \in listed : p \notin known \/ ~Valid(p)}
           found(raised) == listed \ raised
           keep(raised, lost) ==
             {p \in found(raised) \cap known : Valid(p) \/ Read(p, lost) # None}
           new(raised, lost) == found(raised) \ keep(raised, lost)
           reset(raised, lost) ==
             new(raised, lost) \cup (IF listed = {} THEN {} ELSE known \ found(raised))
           seen(raised, lost, p) == IF p \in new(raised, lost) THEN Read(p, lost) ELSE None
           size(raised, lost, p) ==
             IF seen(raised, lost, p) = None THEN None ELSE seen(raised, lost, p).size
           Built(raised, lost) ==
             /\ known' = IF listed = {} THEN known ELSE found(raised)
             /\ cp' = [p \in Pool |->
                         IF p \in keep(raised, lost) /\ ~Valid(p) THEN Read(p, lost)
                         ELSE IF p \in reset(raised, lost) THEN seen(raised, lost, p) ELSE cp[p]]
             /\ vm' = [p \in Pool |-> IF p \in reset(raised, lost) THEN size(raised, lost, p)
                                      ELSE vm[p]]
             /\ name' = [p \in Pool |->
                           IF p \notin reset(raised, lost) THEN name[p]
                           ELSE IF seen(raised, lost, p) # None /\ seen(raised, lost, p).active
                           THEN size(raised, lost, p) ELSE None]
             /\ cnt' = [p \in Pool |-> IF p \in reset(raised, lost) THEN None ELSE cnt[p]]
             /\ due' = due \cup reset(raised, lost)
             /\ dark' = dark \ reset(raised, lost)
             /\ old' = old \ reset(raised, lost)
             /\ excused' = excused \ reset(raised, lost)
<1>0. \E raised \in SUBSET open, lost \in SUBSET open :
        /\ raised \cap lost = {} /\ \A p \in lost : batch[p] # None
        /\ Fail(Cardinality(raised) + Cardinality(lost))
        /\ Built(raised, lost)
  BY DEF UpdateFederation
<1>1. PICK raised \in SUBSET open, lost \in SUBSET open :
        Fail(Cardinality(raised) + Cardinality(lost)) /\ Built(raised, lost)
  <2> HIDE DEF open, Built
  <2> QED
    BY <1>0
<1>2. TypeOK /\ Resting /\ UNCHANGED <<service, match>>
  BY DEF Inv, UpdateFederation
<1> DEFINE keepR == keep(raised, lost)
           resetR == reset(raised, lost)
           seenR(p) == seen(raised, lost, p)
           sizeR(p) == size(raised, lost, p)
<1>3. \A p \in Pool : /\ seenR(p) \in Seen \cup {None} /\ sizeR(p) \in Size \cup {None}
                      /\ Read(p, lost) \in Seen \cup {None}
  BY <1>2, ReadTyped
<1>4. faults' \in 0 .. MaxFaults
  <2>1. raised \in SUBSET Pool /\ lost \in SUBSET Pool
    BY <1>2 DEF TypeOK
  <2>2. Cardinality(raised) + Cardinality(lost) \in Nat
    BY <2>1, CardNat
  <2> QED
    BY <1>1, <1>2, <2>2, FailCounts
<1>5. found(raised) \subseteq Pool /\ resetR \subseteq Pool /\ known' \subseteq Pool
  BY <1>1, <1>2 DEF TypeOK
<1>6. /\ cp' = [p \in Pool |-> IF p \in keepR /\ ~Valid(p) THEN Read(p, lost)
                              ELSE IF p \in resetR THEN seenR(p) ELSE cp[p]]
      /\ vm' = [p \in Pool |-> IF p \in resetR THEN sizeR(p) ELSE vm[p]]
      /\ name' = [p \in Pool |-> IF p \notin resetR THEN name[p]
                                ELSE IF seenR(p) # None /\ seenR(p).active THEN sizeR(p)
                                ELSE None]
      /\ cnt' = [p \in Pool |-> IF p \in resetR THEN None ELSE cnt[p]]
      /\ due' = due \cup resetR /\ dark' = dark \ resetR
      /\ old' = old \ resetR /\ excused' = excused \ resetR
  BY <1>1
<1> HIDE DEF found, keep, new, reset, seen, size, keepR, resetR, seenR, sizeR
<1>7. /\ cp' \in [Pool -> Seen \cup {None}] /\ vm' \in [Pool -> Size \cup {None}]
      /\ name' \in [Pool -> Size \cup {None}] /\ cnt' \in [Pool -> Counts \cup {None}]
  BY <1>2, <1>3, <1>6 DEF TypeOK
<1>8. TypeOK'
  BY <1>2, <1>4, <1>5, <1>6, <1>7 DEF TypeOK, service, match
<1> QED
  BY <1>2, <1>6, <1>8
     DEF Inv, Matching, OldAreDue, OldNotKept, FreshCounts, Resting, match

\* After the refresh of a match, only a pool that is not valid kept its counts.
LEMMA InvRefresh ==
  ASSUME Inv, NEW c \in Constraints, NEW bl \in SUBSET Pool, Refresh(c, bl)
  PROVE  Inv'
<1> DEFINE pools == (known \cap listed) \ bl
           valid(lost) == {p \in pools : ValidAs(p, Read(p, lost))}
       Taken(lost, taken, blind, empty, counts) ==
         /\ Fail(Cardinality(lost) + Cardinality(blind) + Cardinality(empty))
         /\ cp' = [p \in Pool |-> IF p \in pools THEN Read(p, lost) ELSE cp[p]]
         /\ cnt' = [p \in Pool |-> IF p \in DOMAIN counts THEN counts[p]
                                   ELSE IF p \in blind THEN None ELSE cnt[p]]
         /\ due' = due \ (taken \ empty)
         /\ old' = old \ (taken \ empty)
         /\ excused' = excused \ (taken \ empty)
         /\ IF empty # {} THEN EndMatch("idle")
            ELSE /\ pc' = "filter" /\ con' = c /\ black' = bl
                 /\ kept' = pools /\ target' = None
         /\ UNCHANGED <<service, known, vm, name, dark>>
<1>0. \E lost \in SUBSET {p \in pools : batch[p] # None} :
        \E taken \in {S \in SUBSET valid(lost) : due \cap valid(lost) \subseteq S} :
          \E blind \in SUBSET taken : \E empty \in SUBSET (taken \ blind) :
            \E counts \in [taken \ (blind \cup empty) -> Counts] :
              Taken(lost, taken, blind, empty, counts)
  BY DEF Refresh
<1>1. PICK lost, taken, blind, empty, counts :
        /\ lost \subseteq pools /\ taken \subseteq valid(lost) /\ blind \subseteq taken
        /\ empty \subseteq taken \ blind /\ due \cap valid(lost) \subseteq taken
        /\ counts \in [taken \ (blind \cup empty) -> Counts]
        /\ Taken(lost, taken, blind, empty, counts)
  <2> HIDE DEF Taken, pools
  <2>1. PICK lost \in SUBSET {p \in pools : batch[p] # None} :
          \E taken \in {S \in SUBSET valid(lost) : due \cap valid(lost) \subseteq S} :
            \E blind \in SUBSET taken : \E empty \in SUBSET (taken \ blind) :
              \E counts \in [taken \ (blind \cup empty) -> Counts] :
                Taken(lost, taken, blind, empty, counts)
    BY <1>0
  <2> HIDE DEF valid
  <2>2. PICK taken \in SUBSET valid(lost) :
          /\ due \cap valid(lost) \subseteq taken
          /\ \E blind \in SUBSET taken : \E empty \in SUBSET (taken \ blind) :
               \E counts \in [taken \ (blind \cup empty) -> Counts] :
                 Taken(lost, taken, blind, empty, counts)
    BY <2>1
  <2>3. PICK blind \in SUBSET taken :
          \E empty \in SUBSET (taken \ blind) :
            \E counts \in [taken \ (blind \cup empty) -> Counts] :
              Taken(lost, taken, blind, empty, counts)
    BY <2>2
  <2>4. PICK empty \in SUBSET (taken \ blind) :
          \E counts \in [taken \ (blind \cup empty) -> Counts] :
            Taken(lost, taken, blind, empty, counts)
    BY <2>3
  <2>5. PICK counts \in [taken \ (blind \cup empty) -> Counts] :
          Taken(lost, taken, blind, empty, counts)
    BY <2>4
  <2> QED
    BY <2>1, <2>2, <2>3, <2>4, <2>5
<1>2. TypeOK /\ pools \subseteq Pool
  BY DEF Inv, TypeOK
<1>3. faults' \in 0 .. MaxFaults
  <2>1. lost \in SUBSET Pool /\ blind \in SUBSET Pool /\ empty \in SUBSET Pool
    BY <1>1, <1>2
  <2>2. Cardinality(lost) \in Nat /\ Cardinality(blind) \in Nat /\ Cardinality(empty) \in Nat
    BY <2>1, CardNat
  <2>3. Cardinality(lost) + Cardinality(blind) + Cardinality(empty) \in Nat
    BY <2>2
  <2> QED
    BY <1>1, <1>2, <2>3, FailCounts
<1>4. \A p \in Pool : Read(p, lost) \in Seen \cup {None}
  BY <1>2, ReadTyped
<1>5. cp' \in [Pool -> Seen \cup {None}] /\ cnt' \in [Pool -> Counts \cup {None}]
  BY <1>1, <1>2, <1>4 DEF TypeOK
<1>6. /\ pc' \in {"idle", "blocked", "filter"} /\ con' \in Constraints \cup {None}
      /\ black' \subseteq Pool /\ kept' \subseteq Pool
      /\ target' \in Pool \cup {None}
  BY <1>1, <1>2, EndedMatch
<1>7. TypeOK'
  BY <1>1, <1>2, <1>3, <1>5, <1>6 DEF TypeOK, service
<1>8. Matching'
  BY <1>1 DEF Matching, EndMatch
<1>9. OldAreDue'
  BY <1>1 DEF Inv, OldAreDue
<1>10. OldNotKept'
  <2> SUFFICES ASSUME pc' = "filter", NEW p \in kept', p \in old' \ excused', Valid(p)'
               PROVE  FALSE
    BY DEF OldNotKept
  <2>1. empty = {} /\ kept' = pools
    BY <1>1 DEF EndMatch
  <2>2. p \in due /\ p \notin taken
    BY <1>1, <2>1 DEF Inv, OldAreDue
  <2>3. ValidAs(p, Read(p, lost))
    BY <1>1, <1>2, <2>1 DEF Valid, ValidAs, TypeOK
  <2> QED
    BY <1>1, <2>1, <2>2, <2>3
<1> QED
  BY <1>6, <1>7, <1>8, <1>9, <1>10 DEF Inv, FreshCounts

-----------------------------------------------------------------------------
(* The choice of a pool *)

\* Of finitely many pools one has the most.
LEMMA LargestExists ==
  ASSUME NEW S, IsFiniteSet(S), S # {}, NEW f, \A p \in S : f[p] \in Nat
  PROVE  \E p \in S : \A q \in S : f[p] >= f[q]
<1> DEFINE Above(p) == {q \in S : f[q] > f[p]}
           T == {Above(p) : p \in S}
<1>1. T \subseteq FiniteSubsetsOf(S) /\ T # {}
  <2>1. ASSUME NEW p \in S
        PROVE  Above(p) \in SUBSET S /\ IsFiniteSet(Above(p))
    <3>1. Above(p) \in SUBSET S
      OBVIOUS
    <3> HIDE DEF Above
    <3> QED
      BY <3>1, FS_Subset
  <2>2. ASSUME NEW A \in T
        PROVE  A \in FiniteSubsetsOf(S)
    <3>1. PICK p \in S : A = Above(p)
      OBVIOUS
    <3> HIDE DEF Above
    <3> QED
      BY <2>1, <3>1 DEF FiniteSubsetsOf
  <2>3. T # {}
    <3>1. PICK p \in S : TRUE
      OBVIOUS
    <3>2. Above(p) \in T
      BY <3>1
    <3> QED
      BY <3>2
  <2> QED
    BY <2>2, <2>3
<1>2. PICK A \in T : \A B \in T : ~(<<B, A>> \in StrictSubsetOrdering(S))
  <2> HIDE DEF T
  <2> QED
    BY <1>1, FS_StrictSubsetOrderingWellFounded, WFMin
<1>3. PICK p \in S : A = Above(p)
  BY <1>2
<1>4. ASSUME NEW q \in S, f[q] > f[p]
      PROVE  FALSE
  <2>1. Above(q) \subseteq Above(p) /\ q \in Above(p) /\ q \notin Above(q)
    BY <1>4
  <2>2. Above(q) \in T /\ Above(q) \in SUBSET S /\ Above(p) \in SUBSET S
    OBVIOUS
  <2> HIDE DEF Above
  <2>3. <<Above(q), Above(p)>> \in StrictSubsetOrdering(S)
    BY <2>1, <2>2 DEF StrictSubsetOrdering
  <2> QED
    BY <1>2, <1>3, <2>2, <2>3
<1>5. \A q \in S : f[p] >= f[q]
  BY <1>4
<1> QED
  BY <1>5

Counted(P) == \A p \in P : p \in Pool /\ cnt[p] # None

LEMMA TimesKeepsOrder ==
  ASSUME NEW a \in Nat, NEW b \in Nat, NEW k \in Nat \ {0}, a <= b
  PROVE  a * k \in Nat /\ b * k \in Nat /\ a * k <= b * k /\ (a >= 1 <=> a * k >= 1)
OBVIOUS

\* How many tasks a counted pool takes: never fewer than its idle nodes do.
LEMMA Capacity ==
  ASSUME TypeOK, NEW p \in Pool, cnt[p] # None, NEW cl \in Class, NEW c \in Constraints
  PROVE  /\ cnt[p].idle[cl] \in Nat /\ Nodes(p, cl) \in Nat
         /\ IdleCap(p, cl, c) \in Nat /\ AvailCap(p, cl, c) \in Nat
         /\ IdleCap(p, cl, c) <= AvailCap(p, cl, c)
         /\ cnt[p].idle[cl] > 0 <=> IdleCap(p, cl, c) >= 1
         /\ Nodes(p, cl) > 0 <=> AvailCap(p, cl, c) >= 1
<1>1. cnt[p] \in [idle: [Class -> Nat], running: [Class -> Nat]]
  BY DEF TypeOK
<1>2. cnt[p].idle[cl] \in Nat /\ cnt[p].running[cl] \in Nat
  BY <1>1
<1>3. Nodes(p, cl) \in Nat /\ cnt[p].idle[cl] <= Nodes(p, cl)
  BY <1>2 DEF Nodes
<1>4. Unit(p, c) \in Nat \ {0}
  BY DEF Unit
<1> QED
  BY <1>2, <1>3, <1>4, TimesKeepsOrder DEF IdleCap, AvailCap

\* The pools with the most room are some of the pools, unless there are none.
LEMMA MostIdleExists ==
  ASSUME TypeOK, NEW P, Counted(P), NEW cl \in Class, NEW c \in Constraints
  PROVE  MostIdle(P, cl, c) \subseteq P /\ (P # {} => MostIdle(P, cl, c) # {})
<1>1. IsFiniteSet(P)
  <2>1. P \in SUBSET Pool
    BY DEF Counted
  <2> QED
    BY <2>1, FS_Subset
<1> DEFINE f == [p \in P |-> IdleCap(p, cl, c)]
<1>2. \A p \in P : f[p] \in Nat
  BY Capacity DEF Counted
<1>3. P # {} => \E p \in P : \A q \in P : f[p] >= f[q]
  <2> HIDE DEF f
  <2> QED
    BY <1>1, <1>2, LargestExists
<1> QED
  BY <1>3 DEF MostIdle

LEMMA MostAvailExists ==
  ASSUME TypeOK, NEW P, Counted(P), NEW cl \in Class, NEW c \in Constraints
  PROVE  MostAvail(P, cl, c) \subseteq P /\ (P # {} => MostAvail(P, cl, c) # {})
<1>1. IsFiniteSet(P)
  <2>1. P \in SUBSET Pool
    BY DEF Counted
  <2> QED
    BY <2>1, FS_Subset
<1> DEFINE f == [p \in P |-> AvailCap(p, cl, c)]
<1>2. \A p \in P : f[p] \in Nat
  BY Capacity DEF Counted
<1>3. P # {} => \E p \in P : \A q \in P : f[p] >= f[q]
  <2> HIDE DEF f
  <2> QED
    BY <1>1, <1>2, LargestExists
<1> QED
  BY <1>3 DEF MostAvail

\* _select_pool_for_target_required returns a candidate, and none only if no candidate
\* has room; what it returns has the room, or the idle room, if any candidate has.
LEMMA PickInRoom ==
  ASSUME TypeOK, NEW cand, Counted(cand), NEW cl \in Class, NEW c \in Constraints,
         NEW steady
  PROVE  /\ PickIn(cand, cl, c, steady) \subseteq cand
         /\ \A p \in cand :
              /\ AvailCap(p, cl, c) >= 1 /\ (c.multi => AvailCap(p, cl, c) >= c.need)
                   => PickIn(cand, cl, c, steady) # {}
              /\ AvailCap(p, cl, c) >= c.need
                   => \A t \in PickIn(cand, cl, c, steady) : AvailCap(t, cl, c) >= c.need
              /\ IdleCap(p, cl, c) >= c.need
                   => \A t \in PickIn(cand, cl, c, steady) : IdleCap(t, cl, c) >= c.need
<1> DEFINE idle == Idle(cand, cl)
           avail == Avail(cand, cl)
           fits == {p \in idle : IdleCap(p, cl, c) >= c.need}
           holds == {p \in avail : AvailCap(p, cl, c) >= c.need}
           some == {p \in avail : Nodes(p, cl) > 0}
           rest == OrElse(IdleScales(cand, cl, c, steady),
                   OrElse(AvailScales(cand, cl, c, steady),
                   OrElse(IdleQueues(cand, cl, c), AvailQueues(cand, cl, c))))
<1>1. PickIn(cand, cl, c, steady) =
        OrElse(MostIdle(fits, cl, c), OrElse(MostAvail(holds, cl, c), rest))
  BY DEF PickIn, IdleFits, AvailFits
<1>2. \A P \in SUBSET cand : Counted(P)
  BY DEF Counted
<1>3. /\ fits \in SUBSET cand /\ holds \in SUBSET cand /\ some \in SUBSET cand
      /\ idle \in SUBSET cand /\ avail \in SUBSET cand
      /\ idle \cap steady \in SUBSET cand /\ avail \cap steady \in SUBSET cand
  BY DEF Idle, Avail
<1>4. /\ MostIdle(fits, cl, c) \subseteq fits /\ (fits # {} => MostIdle(fits, cl, c) # {})
      /\ MostAvail(holds, cl, c) \subseteq holds
      /\ holds # {} => MostAvail(holds, cl, c) # {}
  BY <1>2, <1>3, MostIdleExists, MostAvailExists
<1>5. /\ rest \subseteq cand
      /\ ~c.multi /\ some # {} => rest # {}
  <2>1. /\ MostIdle(idle \cap steady, cl, c) \subseteq cand
        /\ MostAvail(avail \cap steady, cl, c) \subseteq cand
        /\ MostIdle(idle, cl, c) \subseteq cand
        /\ MostAvail(some, cl, c) \subseteq cand /\ (some # {} => MostAvail(some, cl, c) # {})
    BY <1>2, <1>3, MostIdleExists, MostAvailExists
  <2> QED
    BY <2>1 DEF OrElse, IdleScales, AvailScales, IdleQueues, AvailQueues
<1>6. \A p \in cand : /\ cnt[p].idle[cl] \in Nat /\ Nodes(p, cl) \in Nat
                      /\ IdleCap(p, cl, c) \in Nat /\ AvailCap(p, cl, c) \in Nat
                      /\ IdleCap(p, cl, c) <= AvailCap(p, cl, c)
                      /\ cnt[p].idle[cl] > 0 <=> IdleCap(p, cl, c) >= 1
                      /\ Nodes(p, cl) > 0 <=> AvailCap(p, cl, c) >= 1
  BY Capacity DEF Counted
<1>7. c.need \in Nat
  BY DEF Constraint
<1>8. \A p \in cand : /\ cnt[p].idle[cl] > 0 => p \in idle
                      /\ Nodes(p, cl) > 0 => p \in avail /\ p \in some
  BY DEF Idle, Avail
<1> HIDE DEF idle, avail, fits, holds, some, rest
<1>9. \A p \in cand : /\ p \in fits <=> p \in idle /\ IdleCap(p, cl, c) >= c.need
                      /\ p \in holds <=> p \in avail /\ AvailCap(p, cl, c) >= c.need
  BY DEF fits, holds
<1> DEFINE Q == PickIn(cand, cl, c, steady)
<1>10. /\ Q \subseteq cand
       /\ fits # {} => Q # {} /\ Q \subseteq fits
       /\ holds # {} => Q # {} /\ (Q \subseteq fits \/ Q \subseteq holds)
       /\ ~c.multi /\ some # {} => Q # {}
  BY <1>1, <1>3, <1>4, <1>5 DEF OrElse
<1> HIDE DEF Q
<1>11. ASSUME NEW p \in cand, AvailCap(p, cl, c) >= 1, c.multi => AvailCap(p, cl, c) >= c.need
       PROVE  Q # {}
  BY <1>6, <1>8, <1>9, <1>10, <1>11
<1>12. ASSUME NEW p \in cand, AvailCap(p, cl, c) >= c.need, NEW t \in Q
       PROVE  AvailCap(t, cl, c) >= c.need
  <2>1. CASE c.need = 0
    BY <1>6, <1>7, <1>10, <2>1
  <2>2. CASE c.need # 0
    <3>1. p \in holds
      BY <1>6, <1>7, <1>8, <1>9, <1>12, <2>2
    <3>2. t \in fits \/ t \in holds
      BY <1>10, <3>1
    <3> QED
      BY <1>3, <1>6, <1>7, <1>9, <1>10, <3>2
  <2> QED
    BY <2>1, <2>2
<1>13. ASSUME NEW p \in cand, IdleCap(p, cl, c) >= c.need, NEW t \in Q
       PROVE  IdleCap(t, cl, c) >= c.need
  <2>1. CASE c.need = 0
    BY <1>6, <1>7, <1>10, <2>1
  <2>2. CASE c.need # 0
    <3>1. p \in fits
      BY <1>6, <1>7, <1>8, <1>9, <1>13, <2>2
    <3>2. t \in fits /\ t \in cand
      BY <1>10, <3>1
    <3> QED
      BY <1>9, <3>2
  <2> QED
    BY <2>1, <2>2
<1> QED
  BY <1>10, <1>11, <1>12, <1>13 DEF Q

\* _greedy_best_fit_match_for_job: the class of nodes tried first decides, and a job that
\* may use any is only refused when both classes are full.
LEMMA PickFits ==
  ASSUME TypeOK, NEW cand, Counted(cand), con \in Constraints, NEW steady
  PROVE  /\ Pick(cand, con, steady) \subseteq cand
         /\ \A p \in cand :
              /\ \A cl \in Classes : Room(p, cl) >= 1 /\ (con.multi => Room(p, cl) >= con.need)
                   => Pick(cand, con, steady) # {}
              /\ Room(p, FirstClass) >= con.need
                   => \A t \in Pick(cand, con, steady) : Room(t, FirstClass) >= con.need
              /\ IdleRoom(p, FirstClass) >= con.need
                   => \A t \in Pick(cand, con, steady) : IdleRoom(t, FirstClass) >= con.need
<1>1. con.nodes \in {"any", "dedicated", "low"} /\ FirstClass \in Class
  BY DEF Constraint, Class, FirstClass
<1>2. \A p, cl : AvailCap(p, cl, con) = Room(p, cl) /\ IdleCap(p, cl, con) = IdleRoom(p, cl)
  BY DEF AvailCap, Room, IdleCap, IdleRoom, Unit
<1> DEFINE in(cl) == PickIn(cand, cl, con, steady)
           Q == Pick(cand, con, steady)
<1>3. ASSUME NEW cl \in Class
      PROVE  /\ in(cl) \subseteq cand
             /\ \A p \in cand :
                  /\ Room(p, cl) >= 1 /\ (con.multi => Room(p, cl) >= con.need) => in(cl) # {}
                  /\ Room(p, cl) >= con.need => \A t \in in(cl) : Room(t, cl) >= con.need
                  /\ IdleRoom(p, cl) >= con.need
                       => \A t \in in(cl) : IdleRoom(t, cl) >= con.need
  BY <1>2, PickInRoom
<1>4. \A p \in cand : /\ Room(p, FirstClass) \in Nat /\ IdleRoom(p, FirstClass) \in Nat
                      /\ IdleRoom(p, FirstClass) <= Room(p, FirstClass)
  BY <1>1, <1>2, Capacity DEF Counted
<1>5. con.need \in Nat
  BY DEF Constraint
<1>6. "low" \in Class /\ Q = IF in(FirstClass) = {} /\ con.nodes = "any" THEN in("low")
                             ELSE in(FirstClass)
  BY DEF Pick, FirstClass, Class
<1> HIDE DEF in, Q
<1>7. Q \subseteq cand
  BY <1>1, <1>3, <1>6
<1>8. ASSUME NEW p \in cand, NEW cl \in Classes, Room(p, cl) >= 1,
             con.multi => Room(p, cl) >= con.need
      PROVE  Q # {}
  <2>1. cl = FirstClass \/ (cl = "low" /\ con.nodes = "any")
    BY <1>1 DEF Classes, FirstClass, Class
  <2> QED
    BY <1>1, <1>3, <1>6, <1>8, <2>1
<1>9. ASSUME NEW p \in cand, Room(p, FirstClass) >= con.need, con.need # 0
      PROVE  Q = in(FirstClass)
  BY <1>1, <1>3, <1>4, <1>5, <1>6, <1>9
<1>10. ASSUME NEW p \in cand, Room(p, FirstClass) >= con.need, NEW t \in Q
       PROVE  Room(t, FirstClass) >= con.need
  BY <1>1, <1>3, <1>4, <1>5, <1>7, <1>9, <1>10
<1>11. ASSUME NEW p \in cand, IdleRoom(p, FirstClass) >= con.need, NEW t \in Q
       PROVE  IdleRoom(t, FirstClass) >= con.need
  BY <1>1, <1>3, <1>4, <1>5, <1>7, <1>9, <1>11
<1> QED
  BY <1>7, <1>8, <1>10, <1>11 DEF Q

-----------------------------------------------------------------------------
(* The steps of a match *)

\* The candidates of SelectPool.
Hard == {p \in Usable : HardFails(p, con)}
Cand(steady, full) == {p \in Usable \ Hard : ~NodesFail(p, con, steady, full)}

LEMMA UsableCounted ==
  ASSUME TypeOK
  PROVE  Counted(Usable) /\ \A steady, full : Counted(Cand(steady, full))
BY DEF TypeOK, Usable, Counted, Cand

\* What SelectPool may do.
LEMMA Selecting ==
  ASSUME SelectPool
  PROVE  /\ pc = "filter" /\ UNCHANGED <<service, faults, cache, dark, old, excused>>
         /\ \/ EndMatch("idle")
            \/ \E steady \in SUBSET Scales, full \in SUBSET Usable :
                 LET picks == Pick(Cand(steady, full), con, steady) IN
                 \/ picks = {} /\ EndMatch("blocked")
                 \/ /\ pc' = "create" /\ target' \in picks /\ black' = black \cup Hard
                    /\ UNCHANGED <<con, kept>>
BY DEF SelectPool, Cand, Hard

LEMMA InvSelect ==
  ASSUME Inv, SelectPool
  PROVE  Inv'
<1>1. TypeOK /\ pc = "filter" /\ con \in Constraints
      /\ UNCHANGED <<service, faults, cache, dark, old, excused>>
  BY Selecting DEF Inv, Matching
<1>2. CASE pc' # "create"
  <2>1. EndMatch("idle") \/ EndMatch("blocked")
    BY <1>2, Selecting
  <2>2. TypeOK'
    BY <1>1, <2>1, EndedMatch DEF TypeOK, service, cache
  <2> QED
    BY <1>1, <2>1, <2>2
       DEF Inv, EndMatch, Matching, OldAreDue, OldNotKept, FreshCounts, cache
<1>3. CASE pc' = "create"
  <2>1. PICK steady, full :
          /\ target' \in Pick(Cand(steady, full), con, steady)
          /\ black' = black \cup Hard /\ UNCHANGED <<con, kept>>
    BY <1>3, Selecting DEF EndMatch
  <2>2. Pick(Cand(steady, full), con, steady) \subseteq Cand(steady, full)
    BY <1>1, UsableCounted, PickFits
  <2>3. target' \in kept /\ Valid(target')
    BY <2>1, <2>2 DEF Cand, Usable
  <2>4. target' \in Pool /\ Hard \subseteq Pool
    BY <1>1, <2>3 DEF TypeOK, Hard, Usable
  <2>5. TypeOK'
    BY <1>1, <1>3, <2>1, <2>4 DEF TypeOK, service, cache
  <2>6. target' \notin old \ excused
    BY <1>1, <2>3 DEF Inv, OldNotKept
  <2> QED
    BY <1>1, <1>3, <2>1, <2>4, <2>5, <2>6
       DEF Inv, Matching, OldAreDue, OldNotKept, FreshCounts, cache
<1> QED
  BY <1>2, <1>3

LEMMA InvCreate ==
  ASSUME Inv, CreateJob
  PROVE  Inv'
<1>1. /\ TypeOK /\ target \in Pool /\ con \in Constraints
      /\ UNCHANGED <<service, cache, dark, old, excused>>
  BY DEF Inv, Matching, CreateJob
<1>2. CASE pc' = "schedule" /\ UNCHANGED <<con, black, kept, target, faults>>
  BY <1>1, <1>2 DEF Inv, TypeOK, Matching, OldAreDue, OldNotKept, FreshCounts, service, cache
<1>3. CASE /\ pc' = "again" /\ black' = black \cup {target}
           /\ kept' = {} /\ target' = None /\ UNCHANGED <<con, faults>>
  BY <1>1, <1>3 DEF Inv, TypeOK, Matching, OldAreDue, OldNotKept, FreshCounts, service, cache
<1>4. CASE Fail(1) /\ EndMatch("idle")
  <2>1. TypeOK'
    BY <1>1, <1>4, EndedMatch, FailCounts DEF TypeOK, service, cache
  <2> QED
    BY <1>1, <1>4, <2>1
       DEF Inv, EndMatch, Matching, OldAreDue, OldNotKept, FreshCounts, cache
<1> QED
  BY <1>2, <1>3, <1>4 DEF CreateJob

\* on_new_tasks_scheduled makes the counts due, or its absence excuses them.
LEMMA InvSchedule ==
  ASSUME Inv, ScheduleTasks
  PROVE  Inv'
<1>1. /\ TypeOK /\ target \in Pool /\ EndMatch("idle")
      /\ UNCHANGED <<service, known, cp, vm, name, cnt>>
  BY DEF Inv, Matching, ScheduleTasks
<1>2. /\ due' \subseteq Pool /\ dark' \subseteq Pool /\ old' \subseteq Pool
      /\ excused' \subseteq Pool /\ old' \ excused' \subseteq due'
  BY <1>1 DEF ScheduleTasks, Inv, TypeOK, OldAreDue
<1>3. faults' \in 0 .. MaxFaults
  BY <1>1, FailCounts DEF ScheduleTasks, TypeOK
<1>4. TypeOK'
  BY <1>1, <1>2, <1>3, EndedMatch DEF TypeOK, service
<1> QED
  BY <1>1, <1>2, <1>4 DEF Inv, EndMatch, Matching, OldAreDue, OldNotKept, FreshCounts

LEMMA InvNext == Inv /\ [Next]_vars => Inv'
<1> SUFFICES ASSUME Inv, [Next]_vars
             PROVE  Inv'
  OBVIOUS
<1>1. ASSUME MatchAgain
      PROVE  Inv'
  <2>1. con \in Constraints /\ black \in SUBSET Pool /\ Refresh(con, black)
    BY <1>1 DEF MatchAgain, Inv, Matching, TypeOK
  <2> QED
    BY <2>1, InvRefresh
<1>2. ASSUME NEW c \in Constraints, StartMatch(c)
      PROVE  Inv'
  BY <1>2, InvRefresh DEF StartMatch
<1>3. CASE UNCHANGED vars
  BY <1>3
     DEF vars, service, cache, match, Inv, TypeOK, Matching, OldAreDue, OldNotKept,
         FreshCounts, Valid, ValidAs
<1> QED
  BY <1>1, <1>2, <1>3, InvServices, InvBlackout, InvUpdate, InvSelect, InvCreate, InvSchedule
     DEF Next

LEMMA Invariance == Spec => []Inv
BY InvInit, InvNext, PTL DEF Spec

\* Every variable of the services, the cache and the match keeps its type.
THEOREM TypeCorrect == Spec => []TypeOK
<1>1. Inv => TypeOK
  BY DEF Inv
<1> QED
  BY Invariance, <1>1, PTL

\* No pool is chosen on node counts from before the last tasks were sent to it
\* (on_new_tasks_scheduled), for any pools and any failed calls, except when the blackout
\* ends within a match or an error skips on_new_tasks_scheduled.
THEOREM CountsAreFresh == Spec => []FreshCounts
<1>1. Inv => FreshCounts
  BY DEF Inv
<1> QED
  BY Invariance, <1>1, PTL

-----------------------------------------------------------------------------
(* Placement *)

\* A pool that suits the job and has room is a candidate.
LEMMA SuitsIsCandidate ==
  ASSUME Inv, pc = "filter", ~con.ratio, NEW p \in Pool, Suits(p), NEW cl \in Classes,
         Room(p, cl) >= 1, NEW steady, NEW full
  PROVE  p \in Cand(steady, full)
<1>1. TypeOK /\ con \in Constraints
  BY DEF Inv, Matching
<1>2. p \in Usable
  BY DEF Suits, Usable
<1>3. ~PoolFails(p, con)
  <2>1. Slots[p] \in Nat
    OBVIOUS
  <2> QED
    BY <2>1 DEF Suits, PoolFails
<1>4. ~HardFails(p, con)
  BY <1>3 DEF Suits, HardFails, Settled
<1>5. ~NodesFail(p, con, steady, full)
  <2>1. con.nodes # "any" => cl = con.nodes
    BY DEF Classes
  <2>2. Nodes(p, cl) # 0
    <3>1. cl \in Class
      BY <1>1 DEF Classes, Constraint
    <3>2. cnt[p] # None
      BY DEF Suits
    <3>3. AvailCap(p, cl, con) = Room(p, cl)
      BY DEF AvailCap, Room, Unit
    <3> QED
      BY <1>1, <3>1, <3>2, <3>3, Capacity
  <2> QED
    BY <2>1, <2>2 DEF NodesFail
<1> QED
  BY <1>2, <1>4, <1>5 DEF Cand, Hard

\* Every candidate meets the constraints of the job.
LEMMA CandidateSuits ==
  ASSUME Inv, pc = "filter", NEW steady, NEW full, NEW t \in Cand(steady, full), Settled(t)
  PROVE  Suits(t)
<1>1. con \in Constraints /\ t \in Usable /\ ~HardFails(t, con) /\ t \in Pool
  BY DEF Inv, Matching, TypeOK, Cand, Hard, Usable
<1>2. /\ Slots[t] \in Nat \ {0} /\ con.scale \in BOOLEAN /\ con.exclusive \in BOOLEAN
      /\ con.multi \in BOOLEAN /\ con.test \in {"props", "name", "family"}
  BY <1>1 DEF Constraint
<1>3. /\ con.feats \subseteq Feats[t] /\ (con.scale \/ t \notin Scales)
      /\ con.exclusive => Slots[t] = 1
      /\ con.nodes = "dedicated" => t \notin LowTarget
      /\ con.nodes = "low" => t \in LowTarget \cup Scales
  BY <1>1, <1>2 DEF HardFails, PoolFails
<1>4. cp[t].size \in con.sizes /\ (con.multi => t \in Talks)
  BY <1>1, <1>2 DEF HardFails, Settled
<1> QED
  BY <1>1, <1>3, <1>4 DEF Suits, Usable

\* A blocked job fits nowhere.
LEMMA BlockedFitsNowhere ==
  ASSUME Inv, SelectPool, pc' = "blocked", ~con.ratio,
         NEW p \in Pool, Suits(p), NEW cl \in Classes
  PROVE  Room(p, cl) < 1 \/ (con.multi /\ Room(p, cl) < con.need)
<1>1. TypeOK /\ pc = "filter" /\ con \in Constraints
  BY Selecting DEF Inv, Matching
<1>2. PICK steady, full : Pick(Cand(steady, full), con, steady) = {}
  BY Selecting DEF EndMatch
<1>3. Room(p, cl) \in Nat /\ con.need \in Nat
  <2>1. cl \in Class /\ cnt[p] # None
    BY <1>1 DEF Classes, Constraint, Suits
  <2>2. AvailCap(p, cl, con) = Room(p, cl)
    BY DEF AvailCap, Room, Unit
  <2> QED
    BY <1>1, <2>1, <2>2, Capacity DEF Constraint
<1>4. ASSUME Room(p, cl) >= 1, con.multi => Room(p, cl) >= con.need
      PROVE  FALSE
  <2>1. p \in Cand(steady, full)
    BY <1>1, <1>4, SuitsIsCandidate
  <2> QED
    BY <1>1, <1>2, <1>4, <2>1, UsableCounted, PickFits
<1> QED
  BY <1>3, <1>4

\* A job gets a pool with the room, or the idle room, if a suitable pool has it.
LEMMA CreatedFits ==
  ASSUME Inv, SelectPool, pc' = "create", ~con.ratio
  PROVE  /\ Settled(target') => Suits(target')
         /\ (\E p \in Pool : Suits(p) /\ Room(p, FirstClass) >= con.need)
                => Room(target', FirstClass) >= con.need
         /\ (\E p \in Pool : Suits(p) /\ IdleRoom(p, FirstClass) >= con.need)
                => IdleRoom(target', FirstClass) >= con.need
<1>1. TypeOK /\ pc = "filter" /\ con \in Constraints
  BY Selecting DEF Inv, Matching
<1>2. PICK steady, full : target' \in Pick(Cand(steady, full), con, steady)
  BY Selecting DEF EndMatch
<1> DEFINE cand == Cand(steady, full)
           t == target'
<1>3. t \in cand /\ Counted(cand)
  BY <1>1, <1>2, UsableCounted, PickFits
<1>4. Settled(t) => Suits(t)
  BY <1>1, <1>3, CandidateSuits
<1>5. FirstClass \in Class /\ FirstClass \in Classes /\ con.need \in Nat
  BY <1>1 DEF FirstClass, Class, Classes, Constraint
<1>6. \A p \in Pool : cnt[p] # None =>
        /\ Room(p, FirstClass) \in Nat /\ IdleRoom(p, FirstClass) \in Nat
        /\ IdleRoom(p, FirstClass) <= Room(p, FirstClass)
  <2>1. \A p : /\ AvailCap(p, FirstClass, con) = Room(p, FirstClass)
               /\ IdleCap(p, FirstClass, con) = IdleRoom(p, FirstClass)
    BY DEF AvailCap, Room, IdleCap, IdleRoom, Unit
  <2> QED
    BY <1>1, <1>5, <2>1, Capacity
<1>7. t \in Pool /\ cnt[t] # None
  BY <1>3 DEF Counted
<1>8. ASSUME NEW p \in Pool, Suits(p), Room(p, FirstClass) >= con.need, con.need # 0
      PROVE  p \in cand
  <2>1. Room(p, FirstClass) >= 1
    BY <1>5, <1>6, <1>8 DEF Suits
  <2> QED
    BY <1>1, <1>5, <1>8, <2>1, SuitsIsCandidate
<1>9. ASSUME NEW p \in Pool, Suits(p), Room(p, FirstClass) >= con.need
      PROVE  Room(t, FirstClass) >= con.need
  <2>1. CASE con.need = 0
    BY <1>5, <1>6, <1>7, <2>1
  <2>2. CASE con.need # 0
    BY <1>1, <1>2, <1>3, <1>8, <1>9, <2>2, PickFits
  <2> QED
    BY <2>1, <2>2
<1>10. ASSUME NEW p \in Pool, Suits(p), IdleRoom(p, FirstClass) >= con.need
       PROVE  IdleRoom(t, FirstClass) >= con.need
  <2>1. CASE con.need = 0
    BY <1>5, <1>6, <1>7, <2>1
  <2>2. CASE con.need # 0
    <3>1. cnt[p] # None
      BY <1>10 DEF Suits
    <3>2. Room(p, FirstClass) >= con.need
      BY <1>5, <1>6, <1>10, <3>1
    <3>3. p \in cand
      BY <1>8, <1>10, <2>2, <3>2
    <3> QED
      BY <1>1, <1>2, <1>3, <1>10, <3>3, PickFits
  <2> QED
    BY <2>1, <2>2
<1> QED
  BY <1>4, <1>9, <1>10

\* Only SelectPool leaves the filter for a pool or a blocked action.
LEMMA FilterSelects ==
  ASSUME Inv, [Next]_vars, pc = "filter", pc' \in {"blocked", "create"}
  PROVE  SelectPool
<1>1. ~(Resting \/ MatchAgain \/ CreateJob \/ ScheduleTasks)
  BY DEF Resting, MatchAgain, CreateJob, ScheduleTasks
<1>2. pc' # pc
  OBVIOUS
<1>3. \A p \in Pool : ~(BatchChanges(p) \/ AddPool(p) \/ RemovePool(p) \/ BlackoutEnds(p))
  BY <1>2 DEF BatchChanges, AddPool, RemovePool, BlackoutEnds, match
<1>4. ~UpdateFederation /\ \A c \in Constraints : ~StartMatch(c)
  BY <1>1 DEF UpdateFederation, StartMatch
<1> QED
  BY <1>1, <1>2, <1>3, <1>4 DEF Next, vars, match

\* find_target_pool_for_job blocks a job only when no suitable pool has room, and gives it
\* a suitable pool with room for the job, or idle room, when there is one: for every set of
\* pools, constraints and node counts.
THEOREM JobsArePlaced == Spec => Placement
<1> DEFINE A == /\ pc = "filter" /\ pc' = "blocked" /\ ~con.ratio =>
                     \A p \in Pool : Suits(p) => \A cl \in Classes :
                         Room(p, cl) < 1 \/ (con.multi /\ Room(p, cl) < con.need)
                /\ pc = "filter" /\ pc' = "create" /\ ~con.ratio =>
                     /\ Settled(target') => Suits(target')
                     /\ (\E p \in Pool : Suits(p) /\ Room(p, FirstClass) >= con.need)
                            => Room(target', FirstClass) >= con.need
                     /\ (\E p \in Pool : Suits(p) /\ IdleRoom(p, FirstClass) >= con.need)
                            => IdleRoom(target', FirstClass) >= con.need
<1>1. ASSUME Inv, [Next]_vars
      PROVE  A
  <2>1. ASSUME pc = "filter", pc' = "blocked", ~con.ratio, NEW p \in Pool, Suits(p),
               NEW cl \in Classes
        PROVE  Room(p, cl) < 1 \/ (con.multi /\ Room(p, cl) < con.need)
    BY <1>1, <2>1, FilterSelects, BlockedFitsNowhere
  <2>2. ASSUME pc = "filter", pc' = "create", ~con.ratio
        PROVE  /\ Settled(target') => Suits(target')
               /\ (\E p \in Pool : Suits(p) /\ Room(p, FirstClass) >= con.need)
                      => Room(target', FirstClass) >= con.need
               /\ (\E p \in Pool : Suits(p) /\ IdleRoom(p, FirstClass) >= con.need)
                      => IdleRoom(target', FirstClass) >= con.need
    BY <1>1, <2>2, FilterSelects, CreatedFits
  <2> QED
    BY <2>1, <2>2
<1>2. Inv /\ [Next]_vars => [A]_vars
  BY <1>1
<1> HIDE DEF A
<1>3. Spec => [][A]_vars
  BY Invariance, <1>2, PTL DEF Spec
<1> QED
  BY <1>3 DEF A, Placement

=============================================================================
