------------------------- MODULE ControlPlane_proofs -------------------------
(***************************************************************************)
(* Proofs about ControlPlane for every value of its constants.             *)
(*                                                                         *)
(* The control plane runs the router as MasterRouter describes it, so the  *)
(* router's invariant holds in it; ControlInv ties the tables of the       *)
(* worker managers, the queue of the lock, the heartbeats under way and    *)
(* the gateways to the router's, and is inductive with it.                 *)
(* R is the router as ControlPlane has it, RP the same module with its     *)
(* theorems.                                                               *)
(***************************************************************************)
EXTENDS ControlPlane, SequenceTheorems, TLAPS

RP == INSTANCE MasterRouter_proofs WITH Reading <- Nat \X Nat

-----------------------------------------------------------------------------
(* Queues of waiters.                                                      *)

Distinct(q) == \A i, j \in 1..Len(q) : q[i] = q[j] => i = j
In(w, q) == \E i \in 1..Len(q) : q[i] = w
Before(q, v, w) == \A i, j \in 1..Len(q) : q[i] = v /\ q[j] = w => i < j

(* A newcomer is last.                                                     *)
LEMMA Queues ==
    ASSUME NEW S, NEW q \in Seq(S), NEW w \in S, Distinct(q), ~In(w, q)
    PROVE  /\ Append(q, w) \in Seq(S)
           /\ Distinct(Append(q, w))
           /\ \A v : In(v, Append(q, w)) <=> In(v, q) \/ v = w
           /\ \A u, v : In(u, q) /\ Before(q, u, v) => Before(Append(q, w), u, v)
           /\ \A u : In(u, q) => Before(Append(q, w), u, w)
<1> DEFINE r == Append(q, w)
<1>1. Len(q) \in Nat
  BY LenProperties
<1>2. r \in Seq(S)
  BY AppendProperties
<1>3. Len(r) = Len(q) + 1
  BY AppendProperties
<1>4. \A i \in 1..Len(q) : r[i] = q[i]
  BY AppendProperties
<1>5. r[Len(q) + 1] = w
  BY AppendProperties
<1> HIDE DEF r
<1>6. \A i \in 1..Len(r) : (i \in 1..Len(q) /\ r[i] = q[i]) \/ (i = Len(q) + 1 /\ r[i] = w)
  BY <1>1, <1>3, <1>4, <1>5
<1>7. \A i \in 1..Len(q) : i \in 1..Len(r) /\ i < Len(q) + 1
  BY <1>1, <1>3
<1>8. Len(q) + 1 \in 1..Len(r)
  BY <1>1, <1>3
<1>9. Distinct(r)
  BY <1>6 DEF Distinct, In
<1>10. \A v : In(v, r) <=> In(v, q) \/ v = w
  BY <1>4, <1>5, <1>6, <1>7, <1>8 DEF In
<1>11. \A u, v : In(u, q) /\ Before(q, u, v) => Before(r, u, v)
  BY <1>6, <1>7 DEF In, Before
<1>12. \A u : In(u, q) => Before(r, u, w)
  BY <1>6, <1>7 DEF In, Before
<1>13. QED
  BY <1>2, <1>9, <1>10, <1>11, <1>12 DEF r

(* The queue without the waiter in place k.                                *)
Without(q, r, k) ==
    /\ Len(q) = Len(r) + 1
    /\ \A i \in 1..Len(r) : r[i] = IF i < k THEN q[i] ELSE q[i + 1]

LEMMA Leaves ==
    ASSUME NEW S, NEW q \in Seq(S), NEW r \in Seq(S), NEW k \in 1..Len(q),
           Distinct(q), Without(q, r, k)
    PROVE  /\ Distinct(r)
           /\ \A v : In(v, r) <=> In(v, q) /\ v # q[k]
           /\ \A u, v : Before(q, u, v) => Before(r, u, v)
<1> DEFINE At(i) == IF i < k THEN i ELSE i + 1
<1>1. Len(q) \in Nat /\ Len(r) \in Nat /\ Len(q) = Len(r) + 1 /\ k \in Nat
  BY LenProperties DEF Without
<1>2. \A i \in 1..Len(r) : At(i) \in 1..Len(q) /\ At(i) # k /\ r[i] = q[At(i)]
  BY <1>1 DEF Without
<1>3. \A i, j \in 1..Len(r) : (i = j <=> At(i) = At(j)) /\ (i < j <=> At(i) < At(j))
  BY <1>1
<1>4. \A j \in 1..Len(q) : j # k => \E i \in 1..Len(r) : At(i) = j
  <2> SUFFICES ASSUME NEW j \in 1..Len(q), j # k PROVE \E i \in 1..Len(r) : At(i) = j
    OBVIOUS
  <2>1. CASE j < k
    <3>1. j \in 1..Len(r) /\ At(j) = j
      BY <1>1, <2>1
    <3>2. QED
      BY <3>1
  <2>2. CASE j > k
    <3>1. j - 1 \in 1..Len(r) /\ At(j - 1) = j
      BY <1>1, <2>2
    <3>2. QED
      BY <3>1
  <2>3. QED
    BY <1>1, <2>1, <2>2
<1> HIDE DEF At
<1>5. Distinct(r)
  BY <1>2, <1>3 DEF Distinct
<1>6. ASSUME NEW v PROVE In(v, r) <=> In(v, q) /\ v # q[k]
  <2>1. In(v, r) => In(v, q) /\ v # q[k]
    BY <1>2 DEF In, Distinct
  <2>2. In(v, q) /\ v # q[k] => In(v, r)
    BY <1>2, <1>4 DEF In
  <2>3. QED
    BY <2>1, <2>2
<1>7. \A u, v : Before(q, u, v) => Before(r, u, v)
  BY <1>2, <1>3 DEF Before
<1>8. QED
  BY <1>5, <1>6, <1>7

LEMMA TailIsWithout ==
    ASSUME NEW S, NEW q \in Seq(S), q # <<>>
    PROVE  /\ Head(q) = q[1] /\ 1 \in 1..Len(q) /\ Head(q) \in S
           /\ Tail(q) \in Seq(S) /\ Without(q, Tail(q), 1)
<1>1. Head(q) = q[1] /\ Head(q) \in S
  BY HeadTailProperties
<1>2. Tail(q) \in Seq(S)
  BY HeadTailProperties
<1>3. Len(Tail(q)) = Len(q) - 1 /\ Len(q) \in Nat /\ Len(q) # 0
  BY HeadTailProperties, LenProperties, EmptySeq
<1>4. \A i \in 1..Len(Tail(q)) : Tail(q)[i] = q[i + 1]
  BY HeadTailProperties
<1>5. 1 \in 1..Len(q)
  BY <1>3
<1>6. Without(q, Tail(q), 1)
  <2>1. Len(q) = Len(Tail(q)) + 1
    BY <1>3
  <2>2. \A i \in 1..Len(Tail(q)) : ~(i < 1)
    OBVIOUS
  <2>3. QED
    BY <1>4, <2>1, <2>2 DEF Without
<1>7. QED
  BY <1>1, <1>2, <1>5, <1>6

LEMMA RemoveAtIsWithout ==
    ASSUME NEW S, NEW q \in Seq(S), NEW k \in 1..Len(q)
    PROVE  RemoveAt(q, k) \in Seq(S) /\ Without(q, RemoveAt(q, k), k)
<1> DEFINE f == SubSeq(q, 1, k - 1)
           b == SubSeq(q, k + 1, Len(q))
           r == RemoveAt(q, k)
<1>1. Len(q) \in Nat /\ \A i \in 1..Len(q) : q[i] \in S
  BY LenProperties, ElementOfSeq
<1>2. f \in Seq(S) /\ Len(f) = k - 1 /\ \A i \in 1..k - 1 : f[i] = q[i]
  <2>1. 1 \in Int /\ k - 1 \in Int /\ \A i \in 1..k - 1 : q[i] \in S
    BY <1>1
  <2>2. /\ f \in Seq(S) /\ Len(f) = IF 1 <= k - 1 THEN k - 1 - 1 + 1 ELSE 0
        /\ \A i \in 1..k - 1 - 1 + 1 : f[i] = q[1 + i - 1]
    BY <2>1, SubSeqProperties
  <2> HIDE DEF f
  <2>3. QED
    BY <2>2
<1>3. /\ b \in Seq(S) /\ Len(b) = Len(q) - k
      /\ \A i \in 1..Len(q) - k : b[i] = q[k + i]
  <2>1. k + 1 \in Int /\ Len(q) \in Int /\ \A i \in k + 1..Len(q) : q[i] \in S
    BY <1>1
  <2>2. /\ b \in Seq(S) /\ Len(b) = IF k + 1 <= Len(q) THEN Len(q) - (k + 1) + 1 ELSE 0
        /\ \A i \in 1..Len(q) - (k + 1) + 1 : b[i] = q[k + 1 + i - 1]
    BY <2>1, SubSeqProperties
  <2> HIDE DEF b
  <2>3. QED
    BY <1>1, <2>2
<1>4. r = f \o b
  BY DEF RemoveAt
<1> HIDE DEF f, b, r
<1>5. r \in Seq(S)
  BY <1>2, <1>3, <1>4, ConcatProperties
<1>6. Len(r) = Len(f) + Len(b)
  BY <1>2, <1>3, <1>4, ConcatProperties
<1>7. \A i \in 1..Len(f) + Len(b) : r[i] = IF i <= Len(f) THEN f[i] ELSE b[i - Len(f)]
  BY <1>2, <1>3, <1>4, ConcatProperties
<1>8. Len(q) = Len(r) + 1
  BY <1>1, <1>2, <1>3, <1>6
<1>9. ASSUME NEW i \in 1..Len(r) PROVE r[i] = IF i < k THEN q[i] ELSE q[i + 1]
  <2>1. CASE i < k
    BY <1>1, <1>2, <1>3, <1>6, <1>7, <2>1
  <2>2. CASE ~(i < k)
    <3>1. i - (k - 1) \in 1..Len(q) - k /\ k + (i - (k - 1)) = i + 1 /\ ~(i <= k - 1)
      BY <1>1, <1>2, <1>3, <1>6, <2>2
    <3>2. b[i - (k - 1)] = q[i + 1]
      BY <1>3, <3>1
    <3>3. r[i] = b[i - (k - 1)]
      BY <1>2, <1>6, <1>7, <3>1
    <3>4. QED
      BY <2>2, <3>2, <3>3
  <2>3. QED
    BY <2>1, <2>2
<1>10. Without(q, r, k)
  BY <1>8, <1>9 DEF Without
<1>11. QED
  BY <1>5, <1>10 DEF r

-----------------------------------------------------------------------------
(* R and RP define the same router.                                        *)

LEMMA SameInit == R!Init <=> RP!Init
  BY DEF R!Init, RP!Init

LEMMA SameNext == R!Next <=> RP!Next
<1>1. ASSUME NEW s, NEW m PROVE R!AcquireSession(s, m) <=> RP!AcquireSession(s, m)
  BY
     DEF R!AcquireSession, RP!AcquireSession, R!nodeTables, RP!nodeTables,
         R!actorTables, RP!actorTables, R!locals, RP!locals
<1>2. ASSUME NEW s PROVE R!FetchReturns(s) <=> RP!FetchReturns(s)
  BY
     DEF R!FetchReturns, RP!FetchReturns, R!nodeTables, RP!nodeTables, R!actorTables,
         RP!actorTables, R!locals, RP!locals
<1>3. ASSUME NEW s PROVE R!FetchRaises(s) <=> RP!FetchRaises(s)
  BY
     DEF R!FetchRaises, RP!FetchRaises, R!Fails, RP!Fails, R!nodeTables,
         RP!nodeTables, R!actorTables, RP!actorTables, R!locals, RP!locals
<1>4. ASSUME NEW s, NEW a PROVE R!Reuse(s, a) <=> RP!Reuse(s, a)
  BY
     DEF R!Reuse, RP!Reuse, R!LockFree, RP!LockFree, R!Reusable, RP!Reusable,
         R!Recorded, RP!Recorded, R!Touch, RP!Touch, R!nodeTables, RP!nodeTables,
         R!actorTables, RP!actorTables, R!locals, RP!locals
<1>5. ASSUME NEW s, NEW n PROVE R!BeginSpawn(s, n) <=> RP!BeginSpawn(s, n)
  BY
     DEF R!BeginSpawn, RP!BeginSpawn, R!LockFree, RP!LockFree, R!Reusable,
         RP!Reusable, R!Recorded, RP!Recorded, R!BestNode, RP!BestNode, R!Candidates,
         RP!Candidates, R!Fits, RP!Fits, R!Free, RP!Free, R!nodeTables, RP!nodeTables,
         R!actorTables, RP!actorTables, R!locals, RP!locals
<1>6. ASSUME NEW s, NEW n, NEW v PROVE R!BeginEvict(s, n, v) <=> RP!BeginEvict(s, n, v)
  BY
     DEF R!BeginEvict, RP!BeginEvict, R!LockFree, RP!LockFree, R!Reusable,
         RP!Reusable, R!Recorded, RP!Recorded, R!Candidates, RP!Candidates, R!Fits,
         RP!Fits, R!Free, RP!Free, R!Oldest, RP!Oldest, R!Idle, RP!Idle, R!RecordedOn,
         RP!RecordedOn, R!nodeTables, RP!nodeTables, R!actorTables, RP!actorTables,
         R!locals, RP!locals
<1>7. ASSUME NEW s PROVE R!NoRoom(s) <=> RP!NoRoom(s)
  BY
     DEF R!NoRoom, RP!NoRoom, R!LockFree, RP!LockFree, R!Reusable, RP!Reusable,
         R!Recorded, RP!Recorded, R!Candidates, RP!Candidates, R!Fits, RP!Fits,
         R!Free, RP!Free, R!Idle, RP!Idle, R!RecordedOn, RP!RecordedOn, R!Fails,
         RP!Fails, R!nodeTables, RP!nodeTables, R!actorTables, RP!actorTables,
         R!locals, RP!locals
<1>8. ASSUME NEW s PROVE R!EvictMakesRoom(s) <=> RP!EvictMakesRoom(s)
  BY
     DEF R!EvictMakesRoom, RP!EvictMakesRoom, R!FreeVictim, RP!FreeVictim, R!Forget,
         RP!Forget, R!MadeRoom, RP!MadeRoom, R!nodeTables, RP!nodeTables,
         R!actorTables, RP!actorTables, R!locals, RP!locals
<1>9. ASSUME NEW s PROVE R!EvictReturns(s) <=> RP!EvictReturns(s)
  BY
     DEF R!EvictReturns, RP!EvictReturns, R!FreeVictim, RP!FreeVictim, R!Forget,
         RP!Forget, R!MadeRoom, RP!MadeRoom, R!NextVictim, RP!NextVictim,
         R!SweepNodes, RP!SweepNodes, R!Remaining, RP!Remaining, R!Idle, RP!Idle,
         R!RecordedOn, RP!RecordedOn, R!Recorded, RP!Recorded, R!Oldest, RP!Oldest,
         R!SweepEnds, RP!SweepEnds, R!Unlock, RP!Unlock, R!Fails, RP!Fails,
         R!nodeTables, RP!nodeTables, R!actorTables, RP!actorTables, R!locals,
         RP!locals
<1>10. ASSUME NEW s PROVE R!EvictRaises(s) <=> RP!EvictRaises(s)
  BY
     DEF R!EvictRaises, RP!EvictRaises, R!NextVictim, RP!NextVictim, R!SweepNodes,
         RP!SweepNodes, R!Remaining, RP!Remaining, R!Idle, RP!Idle, R!RecordedOn,
         RP!RecordedOn, R!Recorded, RP!Recorded, R!Oldest, RP!Oldest, R!SweepEnds,
         RP!SweepEnds, R!Unlock, RP!Unlock, R!Fails, RP!Fails, R!nodeTables,
         RP!nodeTables, R!actorTables, RP!actorTables, R!locals, RP!locals
<1>11. ASSUME NEW s PROVE R!EvictLookupRaises(s) <=> RP!EvictLookupRaises(s)
  BY
     DEF R!EvictLookupRaises, RP!EvictLookupRaises, R!Unlock, RP!Unlock, R!Fails,
         RP!Fails, R!nodeTables, RP!nodeTables, R!actorTables, RP!actorTables,
         R!locals, RP!locals
<1>12. ASSUME NEW s, NEW a PROVE R!SpawnReturns(s, a) <=> RP!SpawnReturns(s, a)
  BY
     DEF R!SpawnReturns, RP!SpawnReturns, R!Touch, RP!Touch, R!Recorded, RP!Recorded,
         R!Unlock, RP!Unlock, R!nodeTables, RP!nodeTables, R!actorTables,
         RP!actorTables, R!locals, RP!locals
<1>13. ASSUME NEW s PROVE R!SpawnRaises(s) <=> RP!SpawnRaises(s)
  BY
     DEF R!SpawnRaises, RP!SpawnRaises, R!Unlock, RP!Unlock, R!Fails, RP!Fails,
         R!nodeTables, RP!nodeTables, R!actorTables, RP!actorTables, R!locals,
         RP!locals
<1>14. ASSUME NEW s PROVE R!ReleaseSession(s) <=> RP!ReleaseSession(s)
  BY
     DEF R!ReleaseSession, RP!ReleaseSession, R!LockFree, RP!LockFree, R!Recorded,
         RP!Recorded, R!Touch, RP!Touch, R!nodeTables, RP!nodeTables, R!actorTables,
         RP!actorTables, R!locals, RP!locals
<1>15. ASSUME NEW s PROVE R!DetachedRelease(s) <=> RP!DetachedRelease(s)
  BY
     DEF R!DetachedRelease, RP!DetachedRelease, R!nodeTables, RP!nodeTables,
         R!actorTables, RP!actorTables, R!locals, RP!locals
<1>16. ASSUME NEW a PROVE R!Age(a) <=> RP!Age(a)
  BY
     DEF R!Age, RP!Age, R!Oldest, RP!Oldest, R!nodeTables, RP!nodeTables,
         R!actorTables, RP!actorTables, R!locals, RP!locals
<1>17. ASSUME NEW n, NEW r, NEW A PROVE R!Heartbeat(n, r, A) <=> RP!Heartbeat(n, r, A)
  BY
     DEF R!Heartbeat, RP!Heartbeat, R!LockFree, RP!LockFree, R!Dropped, RP!Dropped,
         R!Forget, RP!Forget, R!RecordedOn, RP!RecordedOn, R!Recorded, RP!Recorded,
         R!nodeTables, RP!nodeTables, R!actorTables, RP!actorTables, R!locals,
         RP!locals
<1>18. R!ReplaceRouter <=> RP!ReplaceRouter
  BY DEF R!ReplaceRouter, RP!ReplaceRouter, R!Forget, RP!Forget, R!Unlock, RP!Unlock
<1>19. \A n : R!RecordedOn(n) = RP!RecordedOn(n)
  BY DEF R!RecordedOn, RP!RecordedOn, R!Recorded, RP!Recorded
<1>20. QED
  BY <1>1, <1>2, <1>3, <1>4, <1>5, <1>6, <1>7, <1>8, <1>9, <1>10, <1>11, <1>12, <1>13,
     <1>14, <1>15, <1>16, <1>17, <1>18, <1>19
     DEF R!Next, RP!Next, R!Enter, RP!Enter, R!FetchAnswers, RP!FetchAnswers,
         R!EvictAnswers, RP!EvictAnswers, R!SpawnAnswers, RP!SpawnAnswers

LEMMA SameRouterInv == R!RouterInv <=> RP!RouterInv
<1>1. R!TypeOK <=> RP!TypeOK
  BY DEF R!TypeOK, RP!TypeOK, R!ActorRecord, RP!ActorRecord, R!Point, RP!Point
<1>2. R!LockHolder <=> RP!LockHolder
  BY DEF R!LockHolder, RP!LockHolder
<1>3. R!CallsNameModels <=> RP!CallsNameModels
  BY DEF R!CallsNameModels, RP!CallsNameModels, R!Pending, RP!Pending
<1>4. R!PlacedAreHeld <=> RP!PlacedAreHeld
  BY DEF R!PlacedAreHeld, RP!PlacedAreHeld
<1>5. R!HeldIsPlaced <=> RP!HeldIsPlaced
  BY DEF R!HeldIsPlaced, RP!HeldIsPlaced, R!Recorded, RP!Recorded
<1>6. R!SessionAccounting <=> RP!SessionAccounting
  BY
     DEF R!SessionAccounting, RP!SessionAccounting, R!Recorded, RP!Recorded,
         R!PlacedOn, RP!PlacedOn, R!Cardinality, RP!Cardinality
<1>7. R!ActiveWithinCapacity <=> RP!ActiveWithinCapacity
  BY
     DEF R!ActiveWithinCapacity, RP!ActiveWithinCapacity, R!Recorded, RP!Recorded,
         R!Capacity, RP!Capacity
<1>8. R!SectionInv <=> RP!SectionInv
  BY
     DEF R!SectionInv, RP!SectionInv, R!Reusable, RP!Reusable, R!Recorded,
         RP!Recorded, R!Idle, RP!Idle, R!RecordedOn, RP!RecordedOn, R!Fits, RP!Fits,
         R!Free, RP!Free
<1>9. QED
  BY <1>1, <1>2, <1>3, <1>4, <1>5, <1>6, <1>7, <1>8 DEF R!RouterInv, RP!RouterInv

LEMMA RouterAssumptions ==
    /\ RP!IsFiniteSet(Session)
    /\ MinVram \in [Model -> Nat] /\ MaxSessions \in [Model -> Int]
    /\ Nat \X Nat \subseteq Nat \X Nat
    /\ NoSession \notin Session /\ NoModel \notin Model /\ NoNode \notin Node
    /\ NoActor \notin Actor /\ NoRecord \notin RP!ActorRecord
  BY RouterConstants DEF R!ActorRecord, RP!ActorRecord, IsFiniteSet, RP!IsFiniteSet

LEMMA RouterInit == R!Init => R!RouterInv
<1>1. RP!Init => RP!RouterInv
  BY RouterAssumptions, RP!InitRouterInv
<1>2. QED
  BY <1>1, SameInit, SameRouterInv

LEMMA SamePoolNext == RP!AbstractPool!Next => R!AbstractPool!Next
<1>1. RP!PoolServes = R!PoolServes /\ RP!PoolServes' = R!PoolServes'
  BY DEF RP!PoolServes, R!PoolServes
<1>2. \A a : RP!AbstractPool!HoldersOf(a) = R!AbstractPool!HoldersOf(a)
  BY DEF RP!AbstractPool!HoldersOf, R!AbstractPool!HoldersOf
<1>3. RP!AbstractPool!Pool = R!AbstractPool!Pool
  BY <1>1 DEF RP!AbstractPool!Pool, R!AbstractPool!Pool
<1>4. ASSUME NEW s, NEW a PROVE RP!AbstractPool!Join(s, a) => R!AbstractPool!Join(s, a)
  <2>1. \A S : RP!AbstractPool!Cardinality(S) = R!AbstractPool!Cardinality(S)
    BY DEF RP!AbstractPool!Cardinality, R!AbstractPool!Cardinality
  <2>2. RP!Capacity = R!Capacity
    BY DEF RP!Capacity, R!Capacity
  <2>3. QED
    BY <1>1, <1>2, <1>3, <2>1, <2>2 DEF RP!AbstractPool!Join, R!AbstractPool!Join
<1>5. ASSUME NEW s, NEW a, NEW m
      PROVE  RP!AbstractPool!Provide(s, a, m) => R!AbstractPool!Provide(s, a, m)
  BY <1>1, <1>2, <1>3 DEF RP!AbstractPool!Provide, R!AbstractPool!Provide
<1>6. ASSUME NEW s PROVE RP!AbstractPool!Leave(s) => R!AbstractPool!Leave(s)
  BY <1>1 DEF RP!AbstractPool!Leave, R!AbstractPool!Leave
<1>7. ASSUME NEW A PROVE RP!AbstractPool!Retire(A) => R!AbstractPool!Retire(A)
  BY <1>1, <1>2 DEF RP!AbstractPool!Retire, R!AbstractPool!Retire
<1>8. RP!AbstractPool!Restart => R!AbstractPool!Restart
  BY <1>1 DEF RP!AbstractPool!Restart, R!AbstractPool!Restart
<1>9. QED
  BY <1>3, <1>4, <1>5, <1>6, <1>7, <1>8 DEF RP!AbstractPool!Next, R!AbstractPool!Next

LEMMA RouterStays == R!RouterInv /\ [R!Next]_(R!vars) => R!RouterInv'
<1>1. RP!RouterInv /\ [RP!Next]_(RP!vars) => RP!RouterInv'
  BY RouterAssumptions, RP!RouterInvPreserved
<1>2. R!RouterInv' <=> RP!RouterInv'
  BY SameRouterInv, PTL
<1>3. [R!Next]_(R!vars) => [RP!Next]_(RP!vars)
  BY SameNext DEF R!vars, RP!vars
<1>4. QED
  BY <1>1, <1>2, <1>3, SameRouterInv

-----------------------------------------------------------------------------
(* The queue of the router's lock.                                         *)

Waiter == Session \cup Node
QueueOK ==
    /\ queue \in Seq(Waiter)
    /\ beat \in [Node -> Payload \cup {NoBeat}]
    /\ \A n \in Node : beat[n] # NoBeat <=> Waits(n)
    /\ QueueInv

LEMMA WaitsIsIn ==
    ASSUME queue \in Seq(Waiter)
    PROVE  /\ \A w : Waits(w) <=> In(w, queue)
           /\ \A n, s : Ahead(n, s) <=> Before(queue, n, s)
           /\ QueueInv => Distinct(queue)
<1>1. DOMAIN queue = 1..Len(queue)
  BY LenProperties
<1>2. QED
  BY <1>1 DEF Waits, In, Ahead, Before, QueueInv, Distinct

LEMMA WaitsIsInNext ==
    ASSUME queue' \in Seq(Waiter)
    PROVE  /\ \A w : Waits(w)' <=> In(w, queue')
           /\ \A n, s : Ahead(n, s)' <=> Before(queue', n, s)
           /\ (\A i, j \in DOMAIN queue' : queue'[i] = queue'[j] => i = j) <=> Distinct(queue')
<1>1. DOMAIN queue' = 1..Len(queue')
  BY LenProperties
<1>2. QED
  BY <1>1 DEF Waits, In, Ahead, Before, Distinct

(* What a newcomer, a waiter that is served, and one that is taken out do  *)
(* to the others.                                                          *)
LEMMA QueueGrows ==
    ASSUME QueueOK, NEW w \in Waiter, ~Waits(w), Enqueue(w)
    PROVE  /\ queue' \in Seq(Waiter)
           /\ \A i, j \in DOMAIN queue' : queue'[i] = queue'[j] => i = j
           /\ \A v : Waits(v)' <=> Waits(v) \/ v = w
           /\ \A n, s : Waits(n) /\ Ahead(n, s) => Ahead(n, s)'
           /\ \A n : Waits(n) => Ahead(n, w)'
<1>1. queue \in Seq(Waiter) /\ QueueInv /\ queue' = Append(queue, w)
  BY DEF QueueOK, Enqueue
<1>2. ~In(w, queue) /\ Distinct(queue)
  BY <1>1, WaitsIsIn
<1>3. /\ queue' \in Seq(Waiter) /\ Distinct(queue')
      /\ \A v : In(v, queue') <=> In(v, queue) \/ v = w
      /\ \A u, v : In(u, queue) /\ Before(queue, u, v) => Before(queue', u, v)
      /\ \A u : In(u, queue) => Before(queue', u, w)
  BY <1>1, <1>2, Queues
<1>4. QED
  BY <1>1, <1>3, WaitsIsIn, WaitsIsInNext

LEMMA QueueLoses ==
    ASSUME QueueOK, queue' \in Seq(Waiter), NEW k \in 1..Len(queue), Without(queue, queue', k)
    PROVE  /\ \A i, j \in DOMAIN queue' : queue'[i] = queue'[j] => i = j
           /\ \A v : Waits(v)' <=> Waits(v) /\ v # queue[k]
           /\ \A n, s : Ahead(n, s) => Ahead(n, s)'
<1>1. queue \in Seq(Waiter) /\ QueueInv
  BY DEF QueueOK
<1>2. /\ Distinct(queue')
      /\ \A v : In(v, queue') <=> In(v, queue) /\ v # queue[k]
      /\ \A u, v : Before(queue, u, v) => Before(queue', u, v)
  BY <1>1, WaitsIsIn, Leaves
<1>3. QED
  BY <1>1, <1>2, WaitsIsIn, WaitsIsInNext

LEMMA QueueShrinks ==
    ASSUME QueueOK, NEW w, First(w), Dequeue
    PROVE  /\ queue' \in Seq(Waiter)
           /\ \A i, j \in DOMAIN queue' : queue'[i] = queue'[j] => i = j
           /\ \A v : Waits(v)' <=> Waits(v) /\ v # w
           /\ \A n, s : Ahead(n, s) => Ahead(n, s)'
           /\ Waits(w) /\ lock = NoSession
           /\ \A n : Waits(n) => ~Ahead(n, w)
<1>1. queue \in Seq(Waiter) /\ queue # <<>> /\ queue' = Tail(queue) /\ Head(queue) = w
      /\ lock = NoSession
  BY DEF QueueOK, First, Dequeue
<1>2. /\ Head(queue) = queue[1] /\ 1 \in 1..Len(queue)
      /\ queue' \in Seq(Waiter) /\ Without(queue, queue', 1)
  BY <1>1, TailIsWithout
<1>3. /\ \A i, j \in DOMAIN queue' : queue'[i] = queue'[j] => i = j
      /\ \A v : Waits(v)' <=> Waits(v) /\ v # queue[1]
      /\ \A n, s : Ahead(n, s) => Ahead(n, s)'
  BY <1>2, QueueLoses
<1>4. In(w, queue) /\ \A n : In(n, queue) => ~Before(queue, n, w)
  <2>1. In(w, queue)
    BY <1>1, <1>2 DEF In
  <2>2. ASSUME NEW n, In(n, queue), Before(queue, n, w) PROVE FALSE
    <3>1. PICK i \in 1..Len(queue) : queue[i] = n
      BY <2>2 DEF In
    <3>2. i < 1
      BY <1>1, <1>2, <2>2, <3>1 DEF Before
    <3>3. QED
      BY <3>1, <3>2
  <2>3. QED
    BY <2>1, <2>2
<1>5. Waits(w) /\ \A n : Waits(n) => ~Ahead(n, w)
  BY <1>1, <1>4, WaitsIsIn
<1>6. QED
  BY <1>1, <1>2, <1>3, <1>5

(* A heartbeat reports figures and what its worker manager tracks.         *)
LEMMA PayloadsAreTyped ==
    ASSUME NEW n \in Node, NEW p \in W!Payloads(n), tracked \in [Node -> SUBSET Actor]
    PROVE  p \in Payload /\ p.alive = tracked[n]
<1>1. Gpu[n] \in Nat
  BY LinkConstants
<1>2. W!UsedVram(n) \in Nat
  BY <1>1 DEF W!UsedVram
<1>3. QED
  BY <1>1, <1>2 DEF W!Payloads, Payload

-----------------------------------------------------------------------------
(* Every step of the control plane is a step of the router, or leaves the  *)
(* router alone.                                                           *)

LEMMA ReadingsAreFigures ==
    ASSUME QueueOK, NEW n \in Node, First(n)
    PROVE  <<beat[n].total, beat[n].used>> \in Nat \X Nat
<1>1. Waits(n)
  <2>1. queue \in Seq(Waiter) /\ queue # <<>> /\ Head(queue) = n
    BY DEF QueueOK, First
  <2>2. In(n, queue)
    BY <2>1, TailIsWithout DEF In
  <2>3. QED
    BY <2>1, <2>2, WaitsIsIn
<1>2. beat[n] \in Payload
  BY <1>1 DEF QueueOK
<1>3. QED
  BY <1>2 DEF Payload

(* Names on the list that are not on record change nothing.                *)
LEMMA ListedIsRecorded ==
    ASSUME NEW n, NEW r, NEW A, R!Heartbeat(n, r, A)
    PROVE  R!Heartbeat(n, r, A \cap R!RecordedOn(n))
<1>1. R!RecordedOn(n) \ A = R!RecordedOn(n) \ (A \cap R!RecordedOn(n))
  OBVIOUS
<1>2. R!Dropped(n, A) = R!Dropped(n, A \cap R!RecordedOn(n))
  BY <1>1 DEF R!Dropped
<1>3. QED
  BY <1>2 DEF R!Heartbeat

LEMMA RouterMoves ==
    QueueOK /\ awaited \in Actor \cup {NoActor} /\ [Next]_vars => [R!Next]_(R!vars)
<1> SUFFICES ASSUME QueueOK, awaited \in Actor \cup {NoActor}, [Next]_vars
             PROVE  R!Next \/ UNCHANGED routerVars
  BY DEF R!vars, routerVars
<1>1. ASSUME NEW s \in Session, NEW m \in Model, AcquireSession(s, m)
      PROVE  R!Next
  BY <1>1 DEF AcquireSession, R!Next
<1>2. ASSUME NEW s \in Session, CallRelease(s) PROVE UNCHANGED routerVars
  BY <1>2 DEF CallRelease
<1>3. ASSUME NEW s \in Session, DetachedRelease(s) PROVE R!Next
  BY <1>3 DEF DetachedRelease, R!Next
<1>4. ASSUME NEW s \in Session, RouterStep(s) PROVE R!Next \/ UNCHANGED routerVars
  <2>1. CASE FetchReturns(s) \/ FetchRaises(s)
    BY <2>1 DEF FetchReturns, FetchRaises, R!Next, R!FetchAnswers
  <2>2. CASE \E a \in Actor : Reuse(s, a)
    BY <2>2 DEF Reuse, R!Next, R!Enter
  <2>3. CASE EnterSection(s)
    BY <2>3 DEF EnterSection, R!Next, R!Enter
  <2>4. CASE ReleaseSession(s)
    BY <2>4 DEF ReleaseSession, R!Next
  <2>5. CASE (\E a \in Actor : CallSpawn(s, a)) \/ CallEvict(s)
    BY <2>5 DEF CallSpawn, CallEvict
  <2>6. CASE SpawnRefused(s) \/ SpawnRaises(s)
    BY <2>6 DEF SpawnRefused, SpawnRaises, R!Next, R!SpawnAnswers
  <2>7. CASE SpawnReturns(s)
    BY <2>7 DEF SpawnReturns, R!Next, R!SpawnAnswers
  <2>8. CASE EvictRefused(s) \/ EvictReturns(s) \/ EvictRaises(s)
    BY <2>8 DEF EvictRefused, EvictReturns, EvictRaises, R!Next, R!EvictAnswers
  <2>9. QED
    BY <1>4, <2>1, <2>2, <2>3, <2>4, <2>5, <2>6, <2>7, <2>8 DEF RouterStep
<1>5. ASSUME NEW n \in Node, SendHeartbeat(n) \/ WorkerRestarts(n) PROVE UNCHANGED routerVars
  BY <1>5 DEF SendHeartbeat, WorkerRestarts
<1>6. ASSUME NEW n \in Node, Heartbeat(n) PROVE R!Next
  <2>1. <<beat[n].total, beat[n].used>> \in Nat \X Nat
    BY <1>6, ReadingsAreFigures DEF Heartbeat
  <2>2. R!Heartbeat(n, <<beat[n].total, beat[n].used>>, beat[n].alive \cap R!RecordedOn(n))
    BY <1>6, ListedIsRecorded DEF Heartbeat
  <2>3. beat[n].alive \cap R!RecordedOn(n) \in SUBSET R!RecordedOn(n)
    OBVIOUS
  <2> DEFINE r == <<beat[n].total, beat[n].used>>
             A == beat[n].alive \cap R!RecordedOn(n)
  <2> HIDE DEF r, A
  <2>4. r \in Nat \X Nat /\ A \in SUBSET R!RecordedOn(n) /\ R!Heartbeat(n, r, A)
    BY <2>1, <2>2, <2>3 DEF r, A
  <2>5. QED
    BY <2>4 DEF R!Next
<1>7. ASSUME NEW a \in Actor, WorkerStep(a) \/ ReplyLost(a) PROVE UNCHANGED routerVars
  BY <1>7 DEF WorkerStep, ReplyLost
<1>8. ASSUME NEW a \in Actor, Age(a) PROVE R!Next
  BY <1>8 DEF Age, R!Next
<1>9. CASE ReplaceRouter
  BY <1>9 DEF ReplaceRouter, R!Next
<1>10. CASE UNCHANGED vars
  BY <1>10 DEF vars
<1>11. QED
  BY <1>1, <1>2, <1>3, <1>4, <1>5, <1>6, <1>7, <1>8, <1>9, <1>10 DEF Next

LEMMA ControlHasQueue == ControlInv => QueueOK
  BY DEF ControlInv, TypeOK, QueueOK, Waiter

-----------------------------------------------------------------------------
(* What the router's steps do to the set of records.                       *)

LEMMA RecordSame ==
    ASSUME record' = record
    PROVE  R!Recorded' = R!Recorded
  BY DEF R!Recorded

LEMMA RecordCounts ==
    ASSUME R!TypeOK, NEW a \in R!Recorded, NEW k \in Nat,
           record' = [record EXCEPT ![a].active = k]
    PROVE  /\ R!Recorded' = R!Recorded
           /\ \A b \in R!Recorded : record'[b].node = record[b].node
<1>1. record \in [Actor -> R!ActorRecord \cup {NoRecord}] /\ NoRecord \notin R!ActorRecord
  BY RouterConstants DEF R!TypeOK
<1>2. a \in Actor /\ record[a] \in R!ActorRecord
  BY <1>1 DEF R!Recorded
<1>3. record'[a] = [record[a] EXCEPT !.active = k]
  BY <1>1, <1>2
<1>4. record'[a] \in R!ActorRecord /\ record'[a].node = record[a].node
  BY <1>2, <1>3 DEF R!ActorRecord
<1>5. \A b \in Actor : b # a => record'[b] = record[b]
  BY <1>1
<1>6. QED
  BY <1>1, <1>2, <1>4, <1>5 DEF R!Recorded

LEMMA RecordForgets ==
    ASSUME NEW A, R!Forget(A)
    PROVE  /\ R!Recorded' = R!Recorded \ A
           /\ \A b \in R!Recorded' : record'[b] = record[b]
  BY DEF R!Forget, R!Recorded

LEMMA RecordSpawns ==
    ASSUME R!RouterInv, NEW s \in Session, NEW a \in Actor, R!SpawnReturns(s, a)
    PROVE  /\ R!Recorded' = R!Recorded \cup {a}
           /\ record'[a].node = target
           /\ \A b \in R!Recorded : record'[b] = record[b]
<1>1. record \in [Actor -> R!ActorRecord \cup {NoRecord}] /\ NoRecord \notin R!ActorRecord
  BY RouterConstants DEF R!RouterInv, R!TypeOK
<1>2. target \in Node /\ want[s] \in Model
  BY RouterConstants
     DEF R!RouterInv, R!SpawnReturns, R!LockHolder, R!SectionInv, R!CallsNameModels,
         R!Pending
<1>3. [model |-> want[s], node |-> target, active |-> 1] \in R!ActorRecord
  BY <1>2 DEF R!ActorRecord
<1>4. \A b \in Actor : record'[b] =
          IF b = a THEN [model |-> want[s], node |-> target, active |-> 1] ELSE record[b]
  BY <1>1 DEF R!SpawnReturns
<1>5. record[a] = NoRecord
  BY DEF R!SpawnReturns
<1>6. QED
  BY <1>1, <1>3, <1>4, <1>5 DEF R!Recorded

-----------------------------------------------------------------------------
(* What ControlInv says of the router, in the terms used below.            *)

LEMMA Facts ==
    ASSUME ControlInv
    PROVE  /\ pc \in [Session -> R!Point]
           /\ placement \in [Session -> Actor \cup {NoActor}]
           /\ lock \in Session \cup {NoSession} /\ NoSession \notin Session
           /\ target \in Node \cup {NoNode} /\ victim \in Actor \cup {NoActor}
           /\ NoActor \notin Actor /\ NoNode \notin Node
           /\ R!Recorded \subseteq Actor
           /\ \A s \in Session : pc[s] \in {"evicting", "spawning"} <=> lock = s
           /\ \A s \in Session : placement[s] # NoActor => pc[s] = "held"
           /\ \A s \in Session : pc[s] = "held" => placement[s] \in R!Recorded
           /\ \A s \in Session : pc[s] \in {"evicting", "spawning"} =>
                  target \in Node /\ want[s] \in Model
<1> USE RouterConstants DEF ControlInv, R!RouterInv
<1>1. /\ pc \in [Session -> R!Point]
      /\ placement \in [Session -> Actor \cup {NoActor}]
      /\ lock \in Session \cup {NoSession}
      /\ target \in Node \cup {NoNode} /\ victim \in Actor \cup {NoActor}
  BY DEF R!TypeOK
<1>2. \A s \in Session : pc[s] \in {"evicting", "spawning"} <=> lock = s
  BY DEF R!LockHolder
<1>3. /\ \A s \in Session : placement[s] # NoActor => pc[s] = "held"
      /\ \A s \in Session : pc[s] = "held" => placement[s] \in R!Recorded
  BY DEF R!PlacedAreHeld, R!HeldIsPlaced
<1>4. \A s \in Session : pc[s] \in {"evicting", "spawning"} =>
          target \in Node /\ want[s] \in Model
  BY <1>2 DEF R!SectionInv, R!CallsNameModels, R!Pending
<1>5. QED
  BY <1>1, <1>2, <1>3, <1>4 DEF R!Recorded

(* Nobody is placed on an actor that counts no session, nor on the victim. *)
LEMMA Unplaced ==
    ASSUME ControlInv, NEW a \in R!Recorded, record[a].active = 0, NEW s \in Session
    PROVE  placement[s] # a
<1>1. RP!SessionAccounting /\ a \in RP!Recorded
  BY SameRouterInv DEF ControlInv, RP!RouterInv, R!Recorded, RP!Recorded
<1>2. RP!PlacedOn(a) = {}
  BY <1>1, RouterAssumptions, RP!ZeroMeansEmpty
<1>3. QED
  BY <1>2 DEF RP!PlacedOn

LEMMA Victim ==
    ASSUME ControlInv, NEW s \in Session, pc[s] = "evicting"
    PROVE  /\ victim \in R!Recorded /\ record[victim].node = target
           /\ \A t \in Session : placement[t] # victim
<1>1. lock = s /\ lock # NoSession
  BY Facts
<1>2. victim \in R!Idle(target)
  BY <1>1 DEF ControlInv, R!RouterInv, R!SectionInv
<1>3. victim \in R!Recorded /\ record[victim].node = target /\ record[victim].active = 0
  BY <1>2 DEF R!Idle, R!RecordedOn
<1>4. QED
  BY <1>3, Unplaced

-----------------------------------------------------------------------------
(* The parts of ControlInv are preserved, with one step per action.        *)

(* Each waiter stays in the queue until it is served or lost.              *)
LEMMA QueuePreserved == ControlInv /\ [Next]_vars => QueueOK'
<1> SUFFICES ASSUME ControlInv, [Next]_vars PROVE QueueOK'
  OBVIOUS
<1>q. QueueOK /\ pc \in [Session -> R!Point]
  BY ControlHasQueue, Facts
<1>f. /\ queue \in Seq(Waiter) /\ \A i, j \in DOMAIN queue : queue[i] = queue[j] => i = j
      /\ \A n \in Node : beat[n] # NoBeat <=> Waits(n)
      /\ \A s \in Session : Waits(s) => pc[s] \in {"ready", "held"}
      /\ beat \in [Node -> Payload \cup {NoBeat}]
      /\ Session \subseteq Waiter /\ Node \subseteq Waiter /\ Session \cap Node = {}
  BY <1>q, LinkConstants DEF QueueOK, QueueInv, Waiter
<1> DEFINE Fits == /\ \A n \in Node : beat'[n] # NoBeat <=> Waits(n)'
                   /\ \A s \in Session : Waits(s)' => pc'[s] \in {"ready", "held"}
                   /\ beat' \in [Node -> Payload \cup {NoBeat}]
<1>g. ASSUME queue' \in Seq(Waiter), \A i, j \in DOMAIN queue' : queue'[i] = queue'[j] => i = j,
             Fits
      PROVE  QueueOK'
  BY <1>g DEF QueueOK, QueueInv
(* Nothing joins or leaves the queue.                                      *)
<1>s. ASSUME UNCHANGED <<queue, beat>>, \A s \in Session : Waits(s) => pc'[s] \in {"ready", "held"}
      PROVE  QueueOK'
  <2>1. \A v : Waits(v)' <=> Waits(v)
    BY <1>s DEF Waits
  <2>2. Fits
    BY <1>f, <1>s, <2>1
  <2>3. QED
    BY <1>f, <1>g, <1>s, <2>2
<1>p. ASSUME UNCHANGED <<queue, beat>>, NEW s \in Session, pc[s] \notin {"ready", "held"},
             NEW x, pc' = pc \/ pc' = [pc EXCEPT ![s] = x]
      PROVE  QueueOK'
  <2>1. \A t \in Session : Waits(t) => pc'[t] = pc[t]
    BY <1>f, <1>p, <1>q
  <2>2. QED
    BY <1>f, <1>p, <1>s, <2>1
<1>e. ASSUME NEW w \in Waiter, ~Waits(w), Enqueue(w),
             (\A v : Waits(v)' <=> Waits(v) \/ v = w) => Fits
      PROVE  QueueOK'
  BY <1>e, <1>g, <1>q, QueueGrows
<1>d. ASSUME NEW w, First(w), Dequeue,
             (\A v : Waits(v)' <=> Waits(v) /\ v # w) /\ Waits(w) => Fits
      PROVE  QueueOK'
  BY <1>d, <1>g, <1>q, QueueShrinks
<1> HIDE DEF Fits
<1>1. ASSUME NEW s \in Session, NEW m \in Model, AcquireSession(s, m) PROVE QueueOK'
  <2>1. pc[s] = "idle" /\ ~Waits(s) /\ beat' = beat
    BY <1>1, <1>f DEF AcquireSession, R!AcquireSession
  <2>2. CASE m \in cached
    <3>1. pc' = [pc EXCEPT ![s] = "ready"] /\ Enqueue(s)
      BY <1>1, <2>2 DEF AcquireSession, R!AcquireSession
    <3>2. (\A v : Waits(v)' <=> Waits(v) \/ v = s) => Fits
      BY <1>q, <1>f, <2>1, <3>1 DEF Fits
    <3>3. QED
      BY <1>e, <1>f, <2>1, <3>1, <3>2
  <2>3. CASE m \notin cached
    <3>1. pc' = [pc EXCEPT ![s] = "fetching"] /\ queue' = queue
      BY <1>1, <2>3 DEF AcquireSession, R!AcquireSession
    <3>2. QED
      BY <1>p, <2>1, <3>1
  <2>4. QED
    BY <2>2, <2>3
<1>2. ASSUME NEW s \in Session, FetchReturns(s) PROVE QueueOK'
  <2>1. /\ pc[s] = "fetching" /\ ~Waits(s) /\ beat' = beat
        /\ pc' = [pc EXCEPT ![s] = "ready"] /\ Enqueue(s)
    BY <1>2, <1>f DEF FetchReturns, R!FetchReturns
  <2>2. (\A v : Waits(v)' <=> Waits(v) \/ v = s) => Fits
    BY <1>q, <1>f, <2>1 DEF Fits
  <2>3. QED
    BY <1>e, <1>f, <2>1, <2>2
<1>3. ASSUME NEW s \in Session, FetchRaises(s) PROVE QueueOK'
  <2>1. pc[s] = "fetching" /\ UNCHANGED <<queue, beat>>
        /\ (pc' = [pc EXCEPT ![s] = "idle"])
    BY <1>3 DEF FetchRaises, R!FetchRaises, R!Fails, linkVars
  <2>2. QED
    BY <1>p, <2>1
<1>4. ASSUME NEW s \in Session, NEW a \in Actor, Reuse(s, a) PROVE QueueOK'
  <2>1. /\ First(s) /\ Dequeue /\ beat' = beat
        /\ pc' = [pc EXCEPT ![s] = "held"]
    BY <1>4 DEF Reuse, R!Reuse
  <2>2. (\A v : Waits(v)' <=> Waits(v) /\ v # s) /\ Waits(s) => Fits
    BY <1>q, <1>f, <2>1 DEF Fits
  <2>3. QED
    BY <1>d, <2>1, <2>2
<1>5. ASSUME NEW s \in Session, EnterSection(s) PROVE QueueOK'
  <2>1. /\ First(s) /\ Dequeue /\ beat' = beat
        /\ \E x : pc' = [pc EXCEPT ![s] = x]
    BY <1>5 DEF EnterSection, R!BeginSpawn, R!BeginEvict, R!NoRoom, R!Fails
  <2>2. (\A v : Waits(v)' <=> Waits(v) /\ v # s) /\ Waits(s) => Fits
    BY <1>q, <1>f, <2>1 DEF Fits
  <2>3. QED
    BY <1>d, <2>1, <2>2
<1>6. ASSUME NEW s \in Session, CallRelease(s) PROVE QueueOK'
  <2>1. pc[s] = "held" /\ ~Waits(s) /\ UNCHANGED <<beat, pc>> /\ Enqueue(s)
    BY <1>6 DEF CallRelease, routerVars
  <2>2. (\A v : Waits(v)' <=> Waits(v) \/ v = s) => Fits
    BY <1>q, <1>f, <2>1 DEF Fits
  <2>3. QED
    BY <1>e, <1>f, <2>1, <2>2
<1>7. ASSUME NEW s \in Session, ReleaseSession(s) PROVE QueueOK'
  <2>1. /\ First(s) /\ Dequeue /\ beat' = beat
        /\ pc' = [pc EXCEPT ![s] = "idle"]
    BY <1>7 DEF ReleaseSession, R!ReleaseSession
  <2>2. (\A v : Waits(v)' <=> Waits(v) /\ v # s) /\ Waits(s) => Fits
    BY <1>q, <1>f, <2>1 DEF Fits
  <2>3. QED
    BY <1>d, <2>1, <2>2
<1>8. ASSUME NEW s \in Session, DetachedRelease(s) PROVE QueueOK'
  <2>1. pc[s] = "detached" /\ UNCHANGED <<queue, beat>>
        /\ (pc' = [pc EXCEPT ![s] = "idle"])
    BY <1>8 DEF DetachedRelease, R!DetachedRelease
  <2>2. QED
    BY <1>p, <2>1
<1>9. ASSUME NEW s \in Session, (\E a \in Actor : CallSpawn(s, a)) \/ CallEvict(s)
      PROVE  QueueOK'
  <2>1. UNCHANGED <<queue, beat, pc>>
    BY <1>9 DEF CallSpawn, CallEvict, routerVars
  <2>2. QED
    BY <1>f, <1>s, <2>1
<1>10. ASSUME NEW s \in Session, SpawnRefused(s) \/ SpawnRaises(s) PROVE QueueOK'
  <2>1. pc[s] = "spawning" /\ UNCHANGED <<queue, beat>>
        /\ (pc' = [pc EXCEPT ![s] = "idle"])
    BY <1>10 DEF SpawnRefused, R!SpawnRaises, R!Fails, SpawnRaises, linkVars
  <2>2. QED
    BY <1>p, <2>1
<1>11. ASSUME NEW s \in Session, SpawnReturns(s) PROVE QueueOK'
  <2>1. pc[s] = "spawning" /\ UNCHANGED <<queue, beat>>
        /\ (pc' = [pc EXCEPT ![s] = "held"])
    BY <1>11 DEF SpawnReturns, R!SpawnReturns
  <2>2. QED
    BY <1>p, <2>1
<1>12. ASSUME NEW s \in Session, EvictRefused(s) PROVE QueueOK'
  <2>1. pc[s] = "evicting" /\ UNCHANGED <<queue, beat>>
        /\ (pc' = [pc EXCEPT ![s] = "idle"])
    BY <1>12 DEF EvictRefused, R!EvictLookupRaises, R!Fails, linkVars
  <2>2. QED
    BY <1>p, <2>1
<1>13. ASSUME NEW s \in Session, EvictReturns(s) PROVE QueueOK'
  <2>1. pc[s] = "evicting" /\ UNCHANGED <<queue, beat>>
        /\ (pc' = pc \/ pc' = [pc EXCEPT ![s] = "idle"] \/ pc' = [pc EXCEPT ![s] = "spawning"])
    BY <1>13
       DEF EvictReturns, R!EvictMakesRoom, R!EvictReturns, R!NextVictim, R!SweepEnds,
           R!Fails
  <2>2. QED
    BY <1>p, <2>1
<1>14. ASSUME NEW s \in Session, EvictRaises(s) PROVE QueueOK'
  <2>1. pc[s] = "evicting" /\ UNCHANGED <<queue, beat>>
        /\ (pc' = pc \/ pc' = [pc EXCEPT ![s] = "idle"])
    BY <1>14 DEF EvictRaises, R!EvictRaises, R!NextVictim, R!SweepEnds, R!Fails
  <2>2. QED
    BY <1>p, <2>1
<1>15. ASSUME NEW n \in Node, SendHeartbeat(n) PROVE QueueOK'
  <2>1. PICK p \in W!Payloads(n) : beat' = [beat EXCEPT ![n] = p]
    BY <1>15 DEF SendHeartbeat
  <2>2. p \in Payload /\ p # NoBeat
    <3>1. tracked \in [Node -> SUBSET Actor]
      BY DEF ControlInv, TypeOK
    <3>2. QED
      BY <2>1, <3>1, PayloadsAreTyped, LinkConstants
  <2>3. beat[n] = NoBeat /\ pc' = pc /\ Enqueue(n) /\ ~Waits(n)
    BY <1>15, <1>f DEF SendHeartbeat, routerVars
  <2>4. (\A v : Waits(v)' <=> Waits(v) \/ v = n) => Fits
    BY <1>q, <1>f, <2>1, <2>2, <2>3 DEF Fits
  <2>5. QED
    BY <1>e, <1>f, <2>3, <2>4
<1>16. ASSUME NEW n \in Node, Heartbeat(n) PROVE QueueOK'
  <2>1. First(n) /\ Dequeue /\ pc' = pc /\ beat' = [beat EXCEPT ![n] = NoBeat]
    BY <1>16 DEF Heartbeat, R!Heartbeat
  <2>3. (\A v : Waits(v)' <=> Waits(v) /\ v # n) /\ Waits(n) => Fits
    BY <1>q, <1>f, <2>1 DEF Fits
  <2>4. QED
    BY <1>d, <2>1, <2>3
<1>17. ASSUME NEW n \in Node, WorkerRestarts(n) PROVE QueueOK'
  <2>1. pc' = pc /\ beat' = [beat EXCEPT ![n] = NoBeat]
    BY <1>17 DEF WorkerRestarts, routerVars
  <2>2. CASE \E k \in DOMAIN queue : queue[k] = n /\ queue' = RemoveAt(queue, k)
    <3>1. DOMAIN queue = 1..Len(queue)
      BY <1>f, LenProperties
    <3>2. PICK k \in 1..Len(queue) : queue[k] = n /\ queue' = RemoveAt(queue, k)
      BY <2>2, <3>1
    <3>3. queue' \in Seq(Waiter) /\ Without(queue, queue', k)
      BY <1>f, <3>2, RemoveAtIsWithout
    <3>4. /\ \A i, j \in DOMAIN queue' : queue'[i] = queue'[j] => i = j
          /\ \A v : Waits(v)' <=> Waits(v) /\ v # n
      BY <1>q, <3>2, <3>3, QueueLoses
    <3>5. Fits
      BY <1>f, <2>1, <3>4 DEF Fits
    <3>6. QED
      BY <1>g, <3>3, <3>4, <3>5
  <2>3. CASE ~Waits(n) /\ queue' = queue
    <3>1. beat' = beat
      <4>1. beat[n] = NoBeat
        BY <1>f, <2>3
      <4>2. QED
        BY <1>f, <2>1, <4>1
    <3>2. QED
      BY <1>f, <1>s, <2>1, <2>3, <3>1
  <2>4. QED
    BY <1>17, <2>2, <2>3 DEF WorkerRestarts
<1>18. ASSUME NEW a \in Actor, WorkerStep(a) \/ ReplyLost(a) \/ Age(a) PROVE QueueOK'
  <2>1. UNCHANGED <<queue, beat, pc>>
    BY <1>18 DEF WorkerStep, ReplyLost, Age, R!Age, routerVars, linkVars
  <2>2. QED
    BY <1>f, <1>s, <2>1
<1>19. ASSUME ReplaceRouter PROVE QueueOK'
  <2>1. queue' = <<>> /\ beat' = [n \in Node |-> NoBeat]
    BY <1>19 DEF ReplaceRouter
  <2>2. queue' \in Seq(Waiter) /\ DOMAIN queue' = {} /\ \A v : ~Waits(v)'
    BY <2>1 DEF Waits
  <2>3. Fits
    BY <2>1, <2>2 DEF Fits
  <2>4. QED
    BY <1>g, <2>2, <2>3
<1>20. ASSUME UNCHANGED vars PROVE QueueOK'
  <2>1. UNCHANGED <<queue, beat, pc>>
    BY <1>20 DEF vars, routerVars, linkVars
  <2>2. QED
    BY <1>f, <1>s, <2>1
<1>21. QED
  BY <1>1, <1>2, <1>3, <1>4, <1>5, <1>6, <1>7, <1>8, <1>9, <1>10, <1>11, <1>12, <1>13,
     <1>14, <1>15, <1>16, <1>17, <1>18, <1>19, <1>20
     DEF Next, RouterStep

(* Records are made by SpawnReturns only, and keep their node.             *)
Kept == \A a \in R!Recorded' : a \in R!Recorded /\ record'[a].node = record[a].node

LEMMA RecordsKept == ControlInv /\ [Next]_vars => Kept \/ (\E t \in Session : SpawnReturns(t))
<1> SUFFICES ASSUME ControlInv, [Next]_vars PROVE Kept \/ (\E t \in Session : SpawnReturns(t))
  OBVIOUS
<1>t. R!RouterInv /\ R!TypeOK
  BY DEF ControlInv, R!RouterInv
<1>s. ASSUME record' = record PROVE Kept
  BY <1>s, RecordSame DEF Kept
<1>g. ASSUME NEW A, R!Forget(A) PROVE Kept
  BY <1>g, RecordForgets DEF Kept
<1>c. ASSUME NEW a \in R!Recorded, NEW k \in Nat, record' = [record EXCEPT ![a].active = k]
      PROVE  Kept
  BY <1>c, <1>t, RecordCounts DEF Kept
<1>1. ASSUME NEW s \in Session, (\E m \in Model : AcquireSession(s, m))
             \/ FetchReturns(s) \/ FetchRaises(s) \/ EnterSection(s) \/ CallRelease(s)
             \/ DetachedRelease(s) \/ (\E a \in Actor : CallSpawn(s, a))
             \/ SpawnRefused(s) \/ SpawnRaises(s) \/ CallEvict(s) \/ EvictRefused(s)
             \/ EvictRaises(s)
      PROVE  Kept \/ (\E t \in Session : SpawnReturns(t))
  <2>1. record' = record
    BY <1>1
       DEF AcquireSession, R!AcquireSession, FetchReturns, R!FetchReturns,
           FetchRaises, R!FetchRaises, EnterSection, R!BeginSpawn, R!BeginEvict,
           R!NoRoom, CallRelease, DetachedRelease, R!DetachedRelease, CallSpawn,
           SpawnRefused, R!SpawnRaises, SpawnRaises, CallEvict, EvictRefused,
           R!EvictLookupRaises, EvictRaises, R!EvictRaises, R!NextVictim, R!SweepEnds,
           routerVars, R!actorTables
  <2>2. QED
    BY <1>s, <2>1
<1>2. ASSUME NEW s \in Session, NEW a \in Actor, Reuse(s, a)
      PROVE  Kept \/ (\E t \in Session : SpawnReturns(t))
  <2>1. a \in R!Recorded /\ record' = [record EXCEPT ![a].active = record[a].active + 1]
    BY <1>2 DEF Reuse, R!Reuse, R!Reusable
  <2>2. record[a].active + 1 \in Nat
    BY <1>t, <2>1, RouterConstants DEF R!TypeOK, R!Recorded, R!ActorRecord
  <2>3. QED
    BY <1>c, <2>1, <2>2
<1>3. ASSUME NEW s \in Session, ReleaseSession(s)
      PROVE  Kept \/ (\E t \in Session : SpawnReturns(t))
  <2> DEFINE b == placement[s]
  <2>1. b \in R!Recorded
    BY <1>3, Facts DEF ReleaseSession, R!ReleaseSession
  <2>2. record' = [record EXCEPT ![b].active =
                      IF record[b].active > 1 THEN record[b].active - 1 ELSE 0]
    BY <1>3, <2>1 DEF ReleaseSession, R!ReleaseSession
  <2>3. record[b].active \in Nat
    BY <1>t, <2>1, RouterConstants DEF R!TypeOK, R!Recorded, R!ActorRecord
  <2> HIDE DEF b
  <2>4. (IF record[b].active > 1 THEN record[b].active - 1 ELSE 0) \in Nat
    BY <2>3
  <2>5. QED
    BY <1>c, <2>1, <2>2, <2>4
<1>4. ASSUME NEW s \in Session, SpawnReturns(s)
      PROVE  Kept \/ (\E t \in Session : SpawnReturns(t))
  BY <1>4
<1>5. ASSUME NEW s \in Session, EvictReturns(s)
      PROVE  Kept \/ (\E t \in Session : SpawnReturns(t))
  <2>1. R!Forget({victim})
    BY <1>5 DEF EvictReturns, R!EvictMakesRoom, R!EvictReturns, R!FreeVictim
  <2>2. QED
    BY <1>g, <2>1
<1>6. ASSUME NEW n \in Node, SendHeartbeat(n) \/ WorkerRestarts(n)
      PROVE  Kept \/ (\E t \in Session : SpawnReturns(t))
  <2>1. record' = record
    BY <1>6 DEF SendHeartbeat, WorkerRestarts, routerVars
  <2>2. QED
    BY <1>s, <2>1
<1>7. ASSUME NEW n \in Node, Heartbeat(n)
      PROVE  Kept \/ (\E t \in Session : SpawnReturns(t))
  <2>1. R!Forget(R!Dropped(n, beat[n].alive))
    BY <1>7 DEF Heartbeat, R!Heartbeat
  <2>2. QED
    BY <1>g, <2>1
<1>8. ASSUME NEW a \in Actor, WorkerStep(a) \/ ReplyLost(a) \/ Age(a)
      PROVE  Kept \/ (\E t \in Session : SpawnReturns(t))
  <2>1. record' = record
    BY <1>8 DEF WorkerStep, ReplyLost, Age, R!Age, routerVars
  <2>2. QED
    BY <1>s, <2>1
<1>9. ASSUME ReplaceRouter PROVE Kept \/ (\E t \in Session : SpawnReturns(t))
  <2>1. R!Forget(Actor)
    BY <1>9 DEF ReplaceRouter, R!ReplaceRouter
  <2>2. QED
    BY <1>g, <2>1
<1>10. ASSUME UNCHANGED vars PROVE Kept \/ (\E t \in Session : SpawnReturns(t))
  <2>1. record' = record
    BY <1>10 DEF vars, routerVars
  <2>2. QED
    BY <1>s, <2>1
<1>11. QED
  BY <1>1, <1>2, <1>3, <1>4, <1>5, <1>6, <1>7, <1>8, <1>9, <1>10 DEF Next, RouterStep

LEMMA RecordsAreKept ==
    ASSUME ControlInv, [Next]_vars,
           awaited' = awaited \/ awaited' # NoActor \/ job[awaited] # "spawned"
    PROVE  Kept
<1>1. ASSUME NEW s \in Session, SpawnReturns(s) PROVE FALSE
  BY <1>1 DEF SpawnReturns
<1>2. QED
  BY <1>1, RecordsKept

(* SpawnReturns is about the actor awaited.                                *)
LEMMA SpawnAwaited ==
    ASSUME ControlInv, NEW s \in Session, SpawnReturns(s)
    PROVE  /\ awaited \in Actor /\ awaited \notin R!Recorded /\ ~InUse(awaited)
           /\ host[awaited] = target /\ lock = s /\ pc[s] = "spawning"
           /\ R!Recorded' = R!Recorded \cup {awaited}
           /\ record'[awaited].node = target
           /\ \A b \in R!Recorded : record'[b] = record[b]
<1>1. awaited \in Actor /\ R!SpawnReturns(s, awaited)
  BY DEF SpawnReturns, ControlInv, TypeOK
<1>2. pc[s] = "spawning" /\ lock = s
  BY <1>1, Facts DEF R!SpawnReturns
<1>3. awaited \notin R!Recorded /\ ~InUse(awaited) /\ host[awaited] = target
  BY <1>1, <1>2, RouterConstants DEF ControlInv, CallInv
<1>4. R!RouterInv
  BY DEF ControlInv
<1>5. QED
  BY <1>1, <1>2, <1>3, <1>4, RecordSpawns

(* What the worker managers' and the gateways' tables are.                 *)
LEMMA Tables ==
    ASSUME ControlInv
    PROVE  /\ tracked \in [Node -> SUBSET Actor]
           /\ ctr \in [Actor -> W!CtrState]
           /\ host \in [Actor -> Node \cup {NoNode}]
           /\ image \in [Actor -> Model \cup {NoModel}]
           /\ job \in [Actor -> W!JobState]
           /\ awaited \in Actor \cup {NoActor}
           /\ user \in [Session -> Actor \cup {NoActor}]
           /\ \A a \in Actor : ctr[a] # "unused" => host[a] \in Node
           /\ \A a \in Actor : job[a] # "none" => ctr[a] # "unused"
BY DEF ControlInv, TypeOK, NameInv

(* The types are kept.                                                     *)
LEMMA TypePreserved == ControlInv /\ [Next]_vars => TypeOK'
<1> SUFFICES ASSUME ControlInv, [Next]_vars PROVE TypeOK'
  OBVIOUS
<1> DEFINE WmTypes ==
              /\ tracked \in [Node -> SUBSET Actor]
              /\ ctr \in [Actor -> W!CtrState]
              /\ host \in [Actor -> Node \cup {NoNode}]
              /\ image \in [Actor -> Model \cup {NoModel}]
              /\ job \in [Actor -> W!JobState]
              /\ awaited \in Actor \cup {NoActor}
              /\ user \in [Session -> Actor \cup {NoActor}]
<1>r. R!TypeOK'
  <2>1. R!RouterInv'
    BY ControlHasQueue, RouterMoves, RouterStays DEF ControlInv, TypeOK
  <2>2. QED
    BY <2>1 DEF R!RouterInv
<1>q. QueueOK'
  BY QueuePreserved
<1>w. ASSUME WmTypes' PROVE TypeOK'
  BY <1>q, <1>r, <1>w DEF TypeOK, QueueOK, Waiter
<1>t. WmTypes
  BY Tables
<1>u. ASSUME UNCHANGED <<tracked, ctr, host, image, job>>,
             awaited' \in Actor \cup {NoActor}, user' \in [Session -> Actor \cup {NoActor}]
      PROVE  TypeOK'
  BY <1>t, <1>u, <1>w
<1> USE DEF W!CtrState, W!JobState
<1>1. ASSUME NEW s \in Session, (\E m \in Model : AcquireSession(s, m))
             \/ FetchReturns(s) \/ FetchRaises(s) \/ EnterSection(s) \/ CallRelease(s)
             \/ SpawnRefused(s) \/ EvictRefused(s)
      PROVE  TypeOK'
  <2>1. UNCHANGED <<tracked, ctr, host, image, job, awaited, user>>
    BY <1>1
       DEF AcquireSession, FetchReturns, FetchRaises, EnterSection, CallRelease,
           SpawnRefused, EvictRefused, wmVars, linkVars
  <2>2. QED
    BY <1>t, <1>u, <2>1
<1>2. ASSUME NEW s \in Session, NEW a \in Actor, Reuse(s, a) PROVE TypeOK'
  <2>1. UNCHANGED <<tracked, ctr, host, image, job, awaited>> /\ user' = [user EXCEPT ![s] = a]
    BY <1>2 DEF Reuse, wmVars
  <2>2. QED
    BY <1>t, <1>u, <2>1
<1>3. ASSUME NEW s \in Session, ReleaseSession(s) \/ DetachedRelease(s) PROVE TypeOK'
  <2>1. UNCHANGED <<tracked, ctr, host, image, job, awaited>> /\ user' = [user EXCEPT ![s] = NoActor]
    BY <1>3 DEF ReleaseSession, DetachedRelease, wmVars
  <2>2. QED
    BY <1>t, <1>u, <2>1
<1>4. ASSUME NEW s \in Session, NEW a \in Actor, CallSpawn(s, a) PROVE TypeOK'
  <2>1. /\ ctr' = [ctr EXCEPT ![a] = "booting"] /\ host' = [host EXCEPT ![a] = target]
        /\ image' = [image EXCEPT ![a] = want[s]] /\ job' = [job EXCEPT ![a] = "spawning"]
        /\ awaited' = a /\ UNCHANGED <<tracked, user>> /\ pc[s] = "spawning"
    BY <1>4 DEF CallSpawn, W!SpawnRuns
  <2>2. target \in Node /\ want[s] \in Model
    BY <2>1, Facts
  <2>3. WmTypes'
    BY <1>t, <2>1, <2>2
  <2>4. QED
    BY <1>w, <2>3
<1>5. ASSUME NEW s \in Session, SpawnReturns(s) PROVE TypeOK'
  <2>1. /\ awaited' = NoActor /\ user' = [user EXCEPT ![s] = awaited]
        /\ UNCHANGED <<tracked, ctr, host, image>> /\ job' = [job EXCEPT ![awaited] = "none"]
    BY <1>5 DEF SpawnReturns, W!Reply
  <2>2. WmTypes'
    BY <1>t, <2>1
  <2>3. QED
    BY <1>w, <2>2
<1>6. ASSUME NEW s \in Session, SpawnRaises(s) PROVE TypeOK'
  <2>1. /\ awaited' = NoActor /\ user' = user /\ UNCHANGED <<tracked, ctr, host, image>>
        /\ (job' = job \/ job' = [job EXCEPT ![awaited] = "none"])
    BY <1>6 DEF SpawnRaises, W!Reply, wmVars
  <2>2. WmTypes'
    BY <1>t, <2>1
  <2>3. QED
    BY <1>w, <2>2
<1>7. ASSUME NEW s \in Session, CallEvict(s) PROVE TypeOK'
  <2>1. /\ awaited' = victim /\ UNCHANGED <<ctr, host, image, user>>
        /\ tracked' = [tracked EXCEPT ![target] = tracked[target] \ {victim}]
        /\ job' = [job EXCEPT ![victim] =
                      IF victim \in tracked[target] THEN "evicting" ELSE "evicted"]
        /\ pc[s] = "evicting"
    BY <1>7 DEF CallEvict, W!EvictCall, W!Track
  <2>2. victim \in Actor \cup {NoActor} /\ target \in Node
    BY <2>1, Facts
  <2>3. WmTypes'
    BY <1>t, <2>1, <2>2
  <2>4. QED
    BY <1>w, <2>3
<1>8. ASSUME NEW s \in Session, EvictReturns(s) PROVE TypeOK'
  <2>1. /\ awaited' = NoActor /\ user' = user /\ UNCHANGED <<tracked, ctr, host, image>>
        /\ (job' = job \/ job' = [job EXCEPT ![awaited] = "none"])
    BY <1>8 DEF EvictReturns, W!Reply
  <2>2. WmTypes'
    BY <1>t, <2>1
  <2>3. QED
    BY <1>w, <2>2
<1>9. ASSUME NEW s \in Session, EvictRaises(s) PROVE TypeOK'
  <2>1. UNCHANGED <<tracked, ctr, host, image, job, user>> /\ awaited' = NoActor
    BY <1>9 DEF EvictRaises, wmVars
  <2>2. QED
    BY <1>t, <1>u, <2>1
<1>10. ASSUME NEW n \in Node, SendHeartbeat(n) \/ Heartbeat(n) PROVE TypeOK'
  <2>1. UNCHANGED <<tracked, ctr, host, image, job, awaited, user>>
    BY <1>10 DEF SendHeartbeat, Heartbeat, wmVars
  <2>2. QED
    BY <1>t, <1>u, <2>1
<1>11. ASSUME NEW n \in Node, WorkerRestarts(n) PROVE TypeOK'
  <2>1. /\ UNCHANGED <<ctr, host, image, awaited, user>>
        /\ tracked' = [tracked EXCEPT ![n] = {}]
        /\ job' = [b \in Actor |-> IF host[b] = n THEN "none" ELSE job[b]]
    BY <1>11 DEF WorkerRestarts, W!WorkerRestarts, W!Track
  <2>2. WmTypes'
    BY <1>t, <2>1
  <2>3. QED
    BY <1>w, <2>2
<1>12. ASSUME NEW a \in Actor, WorkerStep(a) PROVE TypeOK'
  <2>1. UNCHANGED <<host, image, awaited, user>>
    BY <1>12
       DEF WorkerStep, W!ContainerRegisters, W!ContainerLoads, W!ContainerDies,
           W!SpawnSeesName, W!SpawnTimesOut, W!EvictStops, linkVars
  <2>2. ctr' = ctr \/ \E c \in {"registered", "serving", "dead", "removed"} :
                          ctr' = [ctr EXCEPT ![a] = c]
    BY <1>12
       DEF WorkerStep, W!ContainerRegisters, W!ContainerLoads, W!ContainerDies,
           W!SpawnSeesName, W!SpawnTimesOut, W!EvictStops
  <2>3. job' = job \/ \E c \in {"spawned", "failed", "evicted"} :
                          job' = [job EXCEPT ![a] = c]
    BY <1>12
       DEF WorkerStep, W!ContainerRegisters, W!ContainerLoads, W!ContainerDies,
           W!SpawnSeesName, W!SpawnTimesOut, W!EvictStops
  <2>4. tracked' \in [Node -> SUBSET Actor]
    <3>1. tracked' = tracked \/ (job[a] = "spawning" /\
              tracked' = [tracked EXCEPT ![host[a]] = tracked[host[a]] \cup {a}])
      BY <1>12
         DEF WorkerStep, W!ContainerRegisters, W!ContainerLoads, W!ContainerDies,
             W!SpawnSeesName, W!SpawnTimesOut, W!EvictStops, W!Track
    <3>2. job[a] = "spawning" => host[a] \in Node
      BY Tables
    <3>3. QED
      BY <1>t, <3>1, <3>2
  <2>5. ctr' \in [Actor -> W!CtrState] /\ job' \in [Actor -> W!JobState]
    BY <1>t, <2>2, <2>3
  <2>6. WmTypes'
    BY <1>t, <2>1, <2>4, <2>5
  <2>7. QED
    BY <1>w, <2>6
<1>13. ASSUME NEW a \in Actor, ReplyLost(a) PROVE TypeOK'
  <2>1. UNCHANGED <<tracked, ctr, host, image, awaited, user>> /\ job' = [job EXCEPT ![a] = "none"]
    BY <1>13 DEF ReplyLost, W!Reply, linkVars
  <2>2. WmTypes'
    BY <1>t, <2>1
  <2>3. QED
    BY <1>w, <2>2
<1>14. ASSUME NEW a \in Actor, Age(a) PROVE TypeOK'
  <2>1. UNCHANGED <<tracked, ctr, host, image, job, awaited, user>>
    BY <1>14 DEF Age, wmVars, linkVars
  <2>2. QED
    BY <1>t, <1>u, <2>1
<1>15. ASSUME ReplaceRouter PROVE TypeOK'
  <2>1. UNCHANGED <<tracked, ctr, host, image, job, user>> /\ awaited' = NoActor
    BY <1>15 DEF ReplaceRouter, wmVars
  <2>2. QED
    BY <1>t, <1>u, <2>1
<1>16. ASSUME UNCHANGED vars PROVE TypeOK'
  <2>1. UNCHANGED <<tracked, ctr, host, image, job, awaited, user>>
    BY <1>16 DEF vars, wmVars, linkVars
  <2>2. QED
    BY <1>t, <1>u, <2>1
<1>17. QED
  BY <1>1, <1>2, <1>3, <1>4, <1>5, <1>6, <1>7, <1>8, <1>9, <1>10, <1>11, <1>12, <1>13,
     <1>14, <1>15, <1>16
     DEF Next, RouterStep

(* A name that no container has had stays out of every table.               *)
LEMMA NamePreserved == ControlInv /\ [Next]_vars => NameInv'
<1> SUFFICES ASSUME ControlInv, [Next]_vars PROVE NameInv'
  OBVIOUS
<1>n. /\ NameInv /\ NoActor \notin Actor
  BY RouterConstants DEF ControlInv
<1>k. \A a \in R!Recorded' : a \in R!Recorded \/ a = awaited
  <2>1. CASE Kept
    BY <2>1 DEF Kept
  <2>2. CASE \E t \in Session : SpawnReturns(t)
    BY <2>2, SpawnAwaited
  <2>3. QED
    BY <2>1, <2>2, RecordsKept
<1>t. /\ ctr \in [Actor -> W!CtrState] /\ host \in [Actor -> Node \cup {NoNode}]
      /\ job \in [Actor -> W!JobState] /\ user \in [Session -> Actor \cup {NoActor}]
  BY Tables
(* No container starts, and no name turns up that was not there.           *)
<1> DEFINE Fresh(a) == /\ job'[a] = "none" /\ host'[a] = NoNode
                       /\ a # awaited' /\ \A t \in Session : user'[t] # a
<1>w. ASSUME \A a \in Actor : ctr[a] # "unused" => ctr'[a] # "unused" /\ host'[a] = host[a],
             \A a \in Actor : ctr[a] = "unused" => ctr'[a] = "unused" /\ Fresh(a)
      PROVE  NameInv'
  <2> SUFFICES ASSUME NEW a \in Actor
               PROVE  IF ctr'[a] = "unused"
                      THEN /\ job'[a] = "none" /\ host'[a] = NoNode
                           /\ a \notin R!Recorded' /\ a # awaited'
                           /\ \A t \in Session : user'[t] # a
                      ELSE host'[a] \in Node
    BY DEF NameInv, InUse
  <2>1. CASE ctr[a] = "unused"
    BY <1>k, <1>n, <1>w, <2>1 DEF NameInv
  <2>2. CASE ctr[a] # "unused"
    BY <1>n, <1>w, <2>2 DEF NameInv
  <2>3. QED
    BY <2>1, <2>2
<1>h. ASSUME NEW a \in Actor, ctr[a] = "unused"
      PROVE  /\ job[a] = "none" /\ host[a] = NoNode /\ a \notin R!Recorded /\ a # awaited
             /\ \A t \in Session : user[t] # a
  BY <1>h, <1>n DEF NameInv, InUse
<1>s. ASSUME UNCHANGED <<ctr, host, job>>, awaited' \in {awaited, NoActor},
             user' = user \/ \E t \in Session : user' = [user EXCEPT ![t] = NoActor]
      PROVE  NameInv'
  <2>1. \A a \in Actor : ctr[a] = "unused" => Fresh(a)
    BY <1>h, <1>n, <1>s, <1>t
  <2>2. QED
    BY <1>s, <1>w, <2>1
<1>1. ASSUME NEW s \in Session, (\E m \in Model : AcquireSession(s, m))
             \/ FetchReturns(s) \/ FetchRaises(s) \/ EnterSection(s) \/ CallRelease(s)
             \/ SpawnRefused(s) \/ EvictRefused(s)
      PROVE  NameInv'
  <2>1. UNCHANGED <<ctr, host, job, awaited, user>>
    BY <1>1
       DEF AcquireSession, FetchReturns, FetchRaises, EnterSection, CallRelease,
           SpawnRefused, EvictRefused, wmVars, linkVars
  <2>2. QED
    BY <1>s, <2>1
<1>2. ASSUME NEW s \in Session, NEW a \in Actor, Reuse(s, a) PROVE NameInv'
  <2>1. UNCHANGED <<ctr, host, job, awaited>> /\ user' = [user EXCEPT ![s] = a]
        /\ a \in R!Recorded
    BY <1>2 DEF Reuse, R!Reuse, wmVars, R!Reusable
  <2>2. \A b \in Actor : ctr[b] = "unused" => Fresh(b)
    BY <1>h, <1>n, <1>t, <2>1
  <2>3. QED
    BY <1>w, <2>1, <2>2
<1>3. ASSUME NEW s \in Session, ReleaseSession(s) \/ DetachedRelease(s) PROVE NameInv'
  <2>1. UNCHANGED <<ctr, host, job, awaited>> /\ user' = [user EXCEPT ![s] = NoActor]
    BY <1>3 DEF ReleaseSession, DetachedRelease, wmVars
  <2>2. QED
    BY <1>s, <2>1
<1>4. ASSUME NEW s \in Session, NEW a \in Actor, CallSpawn(s, a) PROVE NameInv'
  <2>1. /\ ctr' = [ctr EXCEPT ![a] = "booting"] /\ host' = [host EXCEPT ![a] = target]
        /\ job' = [job EXCEPT ![a] = "spawning"] /\ awaited' = a /\ user' = user
        /\ pc[s] = "spawning" /\ record' = record
    BY <1>4 DEF CallSpawn, W!SpawnRuns, routerVars
  <2>2. target \in Node /\ R!Recorded' = R!Recorded
    BY <2>1, Facts, RecordSame
  <2> SUFFICES ASSUME NEW b \in Actor
               PROVE  IF ctr'[b] = "unused"
                      THEN /\ job'[b] = "none" /\ host'[b] = NoNode
                           /\ b \notin R!Recorded' /\ b # awaited'
                           /\ \A t \in Session : user'[t] # b
                      ELSE host'[b] \in Node
    BY DEF NameInv, InUse
  <2>3. CASE b = a
    BY <1>t, <2>1, <2>2, <2>3
  <2>4. CASE b # a
    BY <1>n, <1>h, <1>t, <2>1, <2>2, <2>4 DEF NameInv
  <2>5. QED
    BY <2>3, <2>4
<1>5. ASSUME NEW s \in Session, SpawnReturns(s) PROVE NameInv'
  <2>1. /\ UNCHANGED <<ctr, host>> /\ job' = [job EXCEPT ![awaited] = "none"]
        /\ awaited' = NoActor /\ user' = [user EXCEPT ![s] = awaited]
    BY <1>5 DEF SpawnReturns, W!Reply
  <2>2. \A b \in Actor : ctr[b] = "unused" => Fresh(b)
    BY <1>h, <1>n, <1>t, <2>1
  <2>3. QED
    BY <1>w, <2>1, <2>2
<1>6. ASSUME NEW s \in Session, SpawnRaises(s) PROVE NameInv'
  <2>1. UNCHANGED <<ctr, host, user>> /\ awaited' = NoActor
        /\ (job' = job \/ job' = [job EXCEPT ![awaited] = "none"])
    BY <1>6 DEF SpawnRaises, W!Reply, wmVars
  <2>2. \A b \in Actor : ctr[b] = "unused" => Fresh(b)
    BY <1>h, <1>n, <1>t, <2>1
  <2>3. QED
    BY <1>w, <2>1, <2>2
<1>7. ASSUME NEW s \in Session, CallEvict(s) PROVE NameInv'
  <2>1. /\ UNCHANGED <<ctr, host, user>> /\ awaited' = victim /\ pc[s] = "evicting"
        /\ \E x : job' = [job EXCEPT ![victim] = x]
    BY <1>7 DEF CallEvict, W!EvictCall
  <2>2. victim \in R!Recorded
    BY <2>1, Victim
  <2>3. \A b \in Actor : ctr[b] = "unused" => Fresh(b)
    BY <1>h, <1>n, <1>t, <2>1, <2>2
  <2>4. QED
    BY <1>w, <2>1, <2>3
<1>8. ASSUME NEW s \in Session, EvictReturns(s) PROVE NameInv'
  <2>1. UNCHANGED <<ctr, host, user>> /\ awaited' = NoActor
        /\ (job' = job \/ job' = [job EXCEPT ![awaited] = "none"])
    BY <1>8 DEF EvictReturns, W!Reply
  <2>2. \A b \in Actor : ctr[b] = "unused" => Fresh(b)
    BY <1>h, <1>n, <1>t, <2>1
  <2>3. QED
    BY <1>w, <2>1, <2>2
<1>9. ASSUME NEW s \in Session, EvictRaises(s) PROVE NameInv'
  <2>1. UNCHANGED <<ctr, host, job, user>> /\ awaited' = NoActor
    BY <1>9 DEF EvictRaises, wmVars
  <2>2. QED
    BY <1>s, <2>1
<1>10. ASSUME NEW n \in Node, SendHeartbeat(n) \/ Heartbeat(n) PROVE NameInv'
  <2>1. UNCHANGED <<ctr, host, job, awaited, user>>
    BY <1>10 DEF SendHeartbeat, Heartbeat, wmVars
  <2>2. QED
    BY <1>s, <2>1
<1>11. ASSUME NEW n \in Node, WorkerRestarts(n) PROVE NameInv'
  <2>1. UNCHANGED <<ctr, host, awaited, user>>
        /\ job' = [b \in Actor |-> IF host[b] = n THEN "none" ELSE job[b]]
    BY <1>11 DEF WorkerRestarts, W!WorkerRestarts
  <2>2. \A b \in Actor : ctr[b] = "unused" => Fresh(b)
    BY <1>h, <1>n, <1>t, <2>1
  <2>3. QED
    BY <1>w, <2>1, <2>2
<1>12. ASSUME NEW a \in Actor, WorkerStep(a) PROVE NameInv'
  <2>1. /\ UNCHANGED <<host, awaited, user>> /\ ctr[a] # "unused"
        /\ ctr' = ctr \/ \E c \in {"registered", "serving", "dead", "removed"} :
                             ctr' = [ctr EXCEPT ![a] = c]
        /\ job' = job \/ \E c : job' = [job EXCEPT ![a] = c]
    <3>1. UNCHANGED <<host, awaited, user>>
      BY <1>12
         DEF WorkerStep, W!ContainerRegisters, W!ContainerLoads, W!ContainerDies,
             W!SpawnSeesName, W!SpawnTimesOut, W!EvictStops, linkVars
    <3>2. ctr' = ctr \/ \E c \in {"registered", "serving", "dead", "removed"} :
                             ctr' = [ctr EXCEPT ![a] = c]
      BY <1>12
         DEF WorkerStep, W!ContainerRegisters, W!ContainerLoads, W!ContainerDies,
             W!SpawnSeesName, W!SpawnTimesOut, W!EvictStops
    <3>3. job' = job \/ \E c : job' = [job EXCEPT ![a] = c]
      BY <1>12
         DEF WorkerStep, W!ContainerRegisters, W!ContainerLoads, W!ContainerDies,
             W!SpawnSeesName, W!SpawnTimesOut, W!EvictStops
    <3>4. ctr[a] # "unused"
      <4>1. job[a] # "none" => ctr[a] # "unused"
        BY Tables
      <4>2. QED
        BY <1>12, <4>1
           DEF WorkerStep, W!ContainerRegisters, W!ContainerLoads, W!ContainerDies,
               W!SpawnSeesName, W!SpawnTimesOut, W!EvictStops, W!Running
    <3>5. QED
      BY <3>1, <3>2, <3>3, <3>4
  <2>2. \A b \in Actor : /\ ctr'[b] = "unused" <=> ctr[b] = "unused"
                         /\ ctr[b] = "unused" => job'[b] = job[b]
    BY <1>t, <2>1 DEF W!CtrState
  <2>3. \A b \in Actor : ctr[b] = "unused" => Fresh(b)
    BY <1>h, <2>1, <2>2
  <2>4. QED
    BY <1>w, <2>1, <2>2, <2>3
<1>13. ASSUME NEW a \in Actor, ReplyLost(a) PROVE NameInv'
  <2>1. UNCHANGED <<ctr, host, awaited, user>> /\ job' = [job EXCEPT ![a] = "none"]
    BY <1>13 DEF ReplyLost, W!Reply, linkVars
  <2>2. \A b \in Actor : ctr[b] = "unused" => Fresh(b)
    BY <1>h, <1>n, <1>t, <2>1
  <2>3. QED
    BY <1>w, <2>1, <2>2
<1>14. ASSUME NEW a \in Actor, Age(a) PROVE NameInv'
  <2>1. UNCHANGED <<ctr, host, job, awaited, user>>
    BY <1>14 DEF Age, wmVars, linkVars
  <2>2. QED
    BY <1>s, <2>1
<1>15. ASSUME ReplaceRouter PROVE NameInv'
  <2>1. UNCHANGED <<ctr, host, job, user>> /\ awaited' = NoActor
    BY <1>15 DEF ReplaceRouter, wmVars
  <2>2. QED
    BY <1>s, <2>1
<1>16. ASSUME UNCHANGED vars PROVE NameInv'
  <2>1. UNCHANGED <<ctr, host, job, awaited, user>>
    BY <1>16 DEF vars, wmVars, linkVars
  <2>2. QED
    BY <1>s, <2>1
<1>17. QED
  BY <1>1, <1>2, <1>3, <1>4, <1>5, <1>6, <1>7, <1>8, <1>9, <1>10, <1>11, <1>12, <1>13,
     <1>14, <1>15, <1>16
     DEF Next, RouterStep

(* What a gateway has been given is what the router has placed it on.      *)
LEMMA UserPreserved == ControlInv /\ [Next]_vars => UserInv'
<1> SUFFICES ASSUME ControlInv, [Next]_vars PROVE UserInv'
  OBVIOUS
<1>u. UserInv /\ NoActor \notin Actor
  BY RouterConstants DEF ControlInv
<1>t. /\ user \in [Session -> Actor \cup {NoActor}] /\ pc \in [Session -> R!Point]
      /\ placement \in [Session -> Actor \cup {NoActor}]
  BY Facts, Tables
<1>s. ASSUME Kept, UNCHANGED <<user, placement>>,
             \A t \in Session : pc'[t] = pc[t]
                 \/ {pc[t], pc'[t]} \cap {"held", "detached"} = {}
      PROVE  UserInv'
  BY <1>s, <1>u DEF UserInv, Kept
<1>p. ASSUME Kept, UNCHANGED <<user, placement>>, NEW s \in Session,
             pc[s] \notin {"held", "detached"},
             pc' = pc \/ \E x : x \notin {"held", "detached"} /\ pc' = [pc EXCEPT ![s] = x]
      PROVE  UserInv'
  BY <1>p, <1>s, <1>t
<1>1. ASSUME NEW s \in Session, NEW m \in Model, AcquireSession(s, m) PROVE UserInv'
  <2>k. Kept
    BY <1>1, RecordsAreKept DEF AcquireSession, wmVars
  <2>1. UNCHANGED <<user, placement>> /\ pc[s] = "idle"
    BY <1>1 DEF AcquireSession, R!AcquireSession
  <2>2. pc' = [pc EXCEPT ![s] = IF m \in cached THEN "ready" ELSE "fetching"]
    BY <1>1 DEF AcquireSession, R!AcquireSession
  <2>3. QED
    BY <1>p, <2>k, <2>1, <2>2
<1>2. ASSUME NEW s \in Session, FetchReturns(s) PROVE UserInv'
  <2>k. Kept
    BY <1>2, RecordsAreKept DEF FetchReturns, wmVars
  <2>1. UNCHANGED <<user, placement>> /\ pc[s] = "fetching"
    BY <1>2 DEF FetchReturns, R!FetchReturns
  <2>2. pc' = [pc EXCEPT ![s] = "ready"]
    BY <1>2 DEF FetchReturns, R!FetchReturns
  <2>3. QED
    BY <1>p, <2>k, <2>1, <2>2
<1>3. ASSUME NEW s \in Session, FetchRaises(s) PROVE UserInv'
  <2>k. Kept
    BY <1>3, RecordsAreKept DEF FetchRaises, wmVars, linkVars
  <2>1. UNCHANGED <<user, placement>> /\ pc[s] = "fetching"
    BY <1>3 DEF FetchRaises, R!FetchRaises, R!Fails, linkVars
  <2>2. pc' = [pc EXCEPT ![s] = "idle"]
    BY <1>3 DEF FetchRaises, R!FetchRaises, R!Fails
  <2>3. QED
    BY <1>p, <2>k, <2>1, <2>2
<1>4. ASSUME NEW s \in Session, NEW a \in Actor, Reuse(s, a) PROVE UserInv'
  <2>k. Kept
    BY <1>4, RecordsAreKept DEF Reuse, wmVars
  <2>1. /\ user' = [user EXCEPT ![s] = a] /\ placement' = [placement EXCEPT ![s] = a]
        /\ pc' = [pc EXCEPT ![s] = "held"]
    BY <1>4 DEF Reuse, R!Reuse
  <2>2. QED
    BY <1>t, <1>u, <2>k, <2>1 DEF UserInv, Kept
<1>5. ASSUME NEW s \in Session, EnterSection(s) PROVE UserInv'
  <2>k. Kept
    BY <1>5, RecordsAreKept DEF EnterSection, wmVars
  <2>1. UNCHANGED <<user, placement>> /\ pc[s] = "ready"
    BY <1>5 DEF EnterSection, R!BeginSpawn, R!BeginEvict, R!NoRoom, R!Fails
  <2>2. pc' = [pc EXCEPT ![s] = "spawning"] \/ pc' = [pc EXCEPT ![s] = "evicting"] \/ pc' = [pc EXCEPT ![s] = "idle"]
    BY <1>5 DEF EnterSection, R!BeginSpawn, R!BeginEvict, R!NoRoom, R!Fails
  <2>3. QED
    BY <1>p, <2>k, <2>1, <2>2
<1>6. ASSUME NEW s \in Session, CallRelease(s) \/ (\E a \in Actor : CallSpawn(s, a))
             \/ CallEvict(s)
      PROVE  UserInv'
  <2>k. Kept
    BY <1>6, RecordsAreKept
       DEF CallRelease, CallSpawn, W!SpawnRuns, CallEvict, W!EvictCall, wmVars
  <2>1. UNCHANGED <<user, placement, pc>>
    BY <1>6 DEF CallRelease, CallSpawn, CallEvict, routerVars
  <2>2. QED
    BY <1>s, <2>k, <2>1
<1>7. ASSUME NEW s \in Session, ReleaseSession(s) PROVE UserInv'
  <2>k. Kept
    BY <1>7, RecordsAreKept DEF ReleaseSession, wmVars
  <2>1. /\ user' = [user EXCEPT ![s] = NoActor]
        /\ placement' = [placement EXCEPT ![s] = NoActor] /\ pc' = [pc EXCEPT ![s] = "idle"]
    BY <1>7 DEF ReleaseSession, R!ReleaseSession
  <2>2. QED
    BY <1>t, <1>u, <2>k, <2>1 DEF UserInv, Kept
<1>8. ASSUME NEW s \in Session, DetachedRelease(s) PROVE UserInv'
  <2>k. Kept
    BY <1>8, RecordsAreKept DEF DetachedRelease, wmVars
  <2>1. /\ user' = [user EXCEPT ![s] = NoActor] /\ placement' = placement
        /\ pc' = [pc EXCEPT ![s] = "idle"]
    BY <1>8 DEF DetachedRelease, R!DetachedRelease
  <2>2. QED
    BY <1>t, <1>u, <2>k, <2>1 DEF UserInv, Kept
<1>9. ASSUME NEW s \in Session, SpawnRefused(s) \/ SpawnRaises(s) PROVE UserInv'
  <2>k. Kept
    BY <1>9, RecordsAreKept DEF SpawnRefused, SpawnRaises, W!Reply, wmVars, linkVars
  <2>1. UNCHANGED <<user, placement>> /\ pc[s] = "spawning"
    BY <1>9 DEF SpawnRefused, R!SpawnRaises, R!Fails, SpawnRaises, linkVars
  <2>2. pc' = [pc EXCEPT ![s] = "idle"]
    BY <1>9 DEF SpawnRefused, R!SpawnRaises, R!Fails, SpawnRaises
  <2>3. QED
    BY <1>p, <2>k, <2>1, <2>2
<1>10. ASSUME NEW s \in Session, SpawnReturns(s) PROVE UserInv'
  <2>1. /\ user' = [user EXCEPT ![s] = awaited]
        /\ placement' = [placement EXCEPT ![s] = awaited] /\ pc' = [pc EXCEPT ![s] = "held"]
    BY <1>10 DEF SpawnReturns, R!SpawnReturns
  <2>2. /\ awaited \in Actor /\ R!Recorded' = R!Recorded \cup {awaited}
        /\ \A t \in Session : user[t] # awaited
    BY <1>10, SpawnAwaited DEF InUse
  <2>3. QED
    BY <1>t, <1>u, <2>1, <2>2 DEF UserInv
<1>11. ASSUME NEW s \in Session, EvictRefused(s) PROVE UserInv'
  <2>k. Kept
    BY <1>11, RecordsAreKept DEF EvictRefused, wmVars, linkVars
  <2>1. UNCHANGED <<user, placement>> /\ pc[s] = "evicting"
    BY <1>11 DEF EvictRefused, R!EvictLookupRaises, R!Fails, linkVars
  <2>2. pc' = [pc EXCEPT ![s] = "idle"]
    BY <1>11 DEF EvictRefused, R!EvictLookupRaises, R!Fails
  <2>3. QED
    BY <1>p, <2>k, <2>1, <2>2
<1>12. ASSUME NEW s \in Session, EvictReturns(s) PROVE UserInv'
  <2>k. Kept
    BY <1>12, RecordsAreKept DEF EvictReturns, W!Reply
  <2>1. UNCHANGED <<user, placement>> /\ pc[s] = "evicting"
    BY <1>12
       DEF EvictReturns, R!EvictMakesRoom, R!EvictReturns, R!NextVictim, R!SweepEnds,
           R!Fails
  <2>2. pc' = pc \/ pc' = [pc EXCEPT ![s] = "idle"] \/ pc' = [pc EXCEPT ![s] = "spawning"]
    BY <1>12
       DEF EvictReturns, R!EvictMakesRoom, R!EvictReturns, R!NextVictim, R!SweepEnds,
           R!Fails
  <2>3. QED
    BY <1>p, <2>k, <2>1, <2>2
<1>13. ASSUME NEW s \in Session, EvictRaises(s) PROVE UserInv'
  <2>k. Kept
    BY <1>13, RecordsAreKept DEF EvictRaises, wmVars
  <2>1. UNCHANGED <<user, placement>> /\ pc[s] = "evicting"
    BY <1>13 DEF EvictRaises, R!EvictRaises, R!NextVictim, R!SweepEnds, R!Fails
  <2>2. pc' = pc \/ pc' = [pc EXCEPT ![s] = "idle"]
    BY <1>13 DEF EvictRaises, R!EvictRaises, R!NextVictim, R!SweepEnds, R!Fails
  <2>3. QED
    BY <1>p, <2>k, <2>1, <2>2
<1>14. ASSUME NEW n \in Node, SendHeartbeat(n) \/ Heartbeat(n) \/ WorkerRestarts(n)
       PROVE  UserInv'
  <2>k. Kept
    BY <1>14, RecordsAreKept
       DEF SendHeartbeat, Heartbeat, WorkerRestarts, W!WorkerRestarts, wmVars
  <2>1. UNCHANGED <<user, placement, pc>>
    BY <1>14 DEF SendHeartbeat, Heartbeat, R!Heartbeat, WorkerRestarts, routerVars
  <2>2. QED
    BY <1>s, <2>k, <2>1
<1>15. ASSUME NEW a \in Actor, WorkerStep(a) \/ ReplyLost(a) \/ Age(a) PROVE UserInv'
  <2>k. Kept
    BY <1>15, RecordsAreKept
       DEF WorkerStep, W!ContainerRegisters, W!ContainerLoads, W!ContainerDies,
           W!SpawnSeesName, W!SpawnTimesOut, W!EvictStops, ReplyLost, W!Reply, Age,
           wmVars, linkVars
  <2>1. UNCHANGED <<user, placement, pc>>
    BY <1>15 DEF WorkerStep, ReplyLost, Age, R!Age, routerVars, linkVars
  <2>2. QED
    BY <1>s, <2>k, <2>1
<1>16. ASSUME ReplaceRouter PROVE UserInv'
  <2>1. /\ user' = user /\ record' = [a \in Actor |-> NoRecord]
        /\ pc' = [t \in Session |-> IF pc[t] \in {"held", "detached"} THEN "detached" ELSE "idle"]
    BY <1>16 DEF ReplaceRouter, R!ReplaceRouter, R!Forget
  <2>2. R!Recorded' = {}
    BY <2>1 DEF R!Recorded
  <2>3. QED
    BY <1>t, <1>u, <2>1, <2>2 DEF UserInv
<1>17. ASSUME UNCHANGED vars PROVE UserInv'
  <2>k. Kept
    BY <1>17, RecordsAreKept DEF vars, wmVars, linkVars
  <2>1. UNCHANGED <<user, placement, pc>>
    BY <1>17 DEF vars, routerVars, linkVars
  <2>2. QED
    BY <1>s, <2>k, <2>1
<1>18. QED
  BY <1>1, <1>2, <1>3, <1>4, <1>5, <1>6, <1>7, <1>8, <1>9, <1>10, <1>11, <1>12, <1>13,
     <1>14, <1>15, <1>16, <1>17
     DEF Next, RouterStep

(* An actor that is being started or stopped is used by nobody.            *)
LEMMA CallPreserved == ControlInv /\ [Next]_vars => CallInv'
<1> SUFFICES ASSUME ControlInv, [Next]_vars PROVE CallInv'
  OBVIOUS
<1>c. /\ CallInv /\ UserInv /\ NoActor \notin Actor /\ NoSession \notin Session
      /\ lock \in Session \cup {NoSession}
      /\ \A t \in Session : pc[t] \in {"evicting", "spawning"} <=> lock = t
  BY Facts DEF ControlInv
<1>t. /\ user \in [Session -> Actor \cup {NoActor}] /\ job \in [Actor -> W!JobState]
      /\ awaited \in Actor \cup {NoActor} /\ pc \in [Session -> R!Point]
      /\ host \in [Actor -> Node \cup {NoNode}] /\ R!Recorded \subseteq Actor
  BY Tables, Facts
<1> DEFINE Busy(a) == job[a] \in {"spawning", "evicting"}
           Calling == awaited # NoActor =>
               /\ lock # NoSession
               /\ \/ /\ pc[lock] = "spawning" /\ host[awaited] = target
                     /\ awaited \notin R!Recorded /\ \A t \in Session : user[t] # awaited
                     /\ job[awaited] \in {"none", "spawning", "spawned", "failed"}
                  \/ /\ pc[lock] = "evicting" /\ awaited = victim
                     /\ job[awaited] \in {"none", "evicting", "evicted"}
           Quiet == \A a \in Actor : Busy(a) =>
               /\ \A t \in Session : user[t] # a
               /\ a \in R!Recorded => a = awaited
<1>i. CallInv = (Calling /\ Quiet) /\ CallInv' = (Calling' /\ Quiet')
  BY DEF CallInv, InUse
<1>j. Calling /\ Quiet
  BY <1>c, <1>i
(* A call that has ended, or none.                                         *)
<1>e. ASSUME awaited' = NoActor, Quiet' PROVE CallInv'
  BY <1>e, <1>i
(* Nobody gets an actor that is being started or stopped.                  *)
<1>q. ASSUME \A a \in Actor : Busy(a)' => Busy(a),
             \A a \in Actor : Busy(a)' => \A t \in Session : user'[t] # a,
             \A a \in Actor : Busy(a)' /\ a \in R!Recorded' =>
                 a \in R!Recorded /\ (a = awaited => a = awaited')
      PROVE  Quiet'
  BY <1>j, <1>q
<1>s. ASSUME Kept, UNCHANGED <<awaited, lock, target, victim, host, job, user>>,
             lock # NoSession => pc'[lock] = pc[lock]
      PROVE  CallInv'
  <2>1. Quiet'
    BY <1>j, <1>s DEF Kept
  <2>2. Calling'
    BY <1>j, <1>s DEF Kept
  <2>3. QED
    BY <1>i, <2>1, <2>2
<1>p. ASSUME Kept, UNCHANGED <<awaited, lock, target, victim, host, job, user>>,
             NEW s \in Session, pc[s] \notin {"evicting", "spawning"},
             pc' = pc \/ \E x : pc' = [pc EXCEPT ![s] = x]
      PROVE  CallInv'
  BY <1>c, <1>p, <1>s, <1>t
(* The lock is free, so no call is under way.                              *)
<1>f. ASSUME Kept, lock = NoSession, UNCHANGED <<awaited, job>>,
             \A a \in Actor : Busy(a) => \A t \in Session : user'[t] # a
      PROVE  CallInv'
  <2>1. awaited = NoActor
    BY <1>f, <1>j
  <2>2. Quiet'
    BY <1>f, <1>q DEF Kept
  <2>3. QED
    BY <1>e, <1>f, <2>1, <2>2
<1> HIDE DEF Calling, Quiet
<1>1. ASSUME NEW s \in Session, NEW m \in Model, AcquireSession(s, m) PROVE CallInv'
  <2>k. Kept
    BY <1>1, RecordsAreKept DEF AcquireSession, wmVars
  <2>1. UNCHANGED <<awaited, lock, target, victim, host, job, user>> /\ pc[s] = "idle"
    BY <1>1 DEF AcquireSession, R!AcquireSession, wmVars, R!locals
  <2>2. pc' = [pc EXCEPT ![s] = IF m \in cached THEN "ready" ELSE "fetching"]
    BY <1>1 DEF AcquireSession, R!AcquireSession
  <2>3. QED
    BY <1>p, <2>k, <2>1, <2>2
<1>2. ASSUME NEW s \in Session, FetchReturns(s) PROVE CallInv'
  <2>k. Kept
    BY <1>2, RecordsAreKept DEF FetchReturns, wmVars
  <2>1. UNCHANGED <<awaited, lock, target, victim, host, job, user>> /\ pc[s] = "fetching"
    BY <1>2 DEF FetchReturns, R!FetchReturns, wmVars, R!locals
  <2>2. pc' = [pc EXCEPT ![s] = "ready"]
    BY <1>2 DEF FetchReturns, R!FetchReturns
  <2>3. QED
    BY <1>p, <2>k, <2>1, <2>2
<1>3. ASSUME NEW s \in Session, FetchRaises(s) PROVE CallInv'
  <2>k. Kept
    BY <1>3, RecordsAreKept DEF FetchRaises, wmVars, linkVars
  <2>1. UNCHANGED <<awaited, lock, target, victim, host, job, user>> /\ pc[s] = "fetching"
    BY <1>3 DEF FetchRaises, R!FetchRaises, R!Fails, wmVars, linkVars, R!locals
  <2>2. pc' = [pc EXCEPT ![s] = "idle"]
    BY <1>3 DEF FetchRaises, R!FetchRaises, R!Fails
  <2>3. QED
    BY <1>p, <2>k, <2>1, <2>2
<1>4. ASSUME NEW s \in Session, NEW a \in Actor, Reuse(s, a) PROVE CallInv'
  <2>k. Kept
    BY <1>4, RecordsAreKept DEF Reuse, wmVars
  <2>1. lock = NoSession /\ UNCHANGED <<awaited, job>>
        /\ user' = [user EXCEPT ![s] = a] /\ a \in R!Recorded
    BY <1>4 DEF Reuse, R!Reuse, First, wmVars, R!Reusable
  <2>2. \A b \in Actor : Busy(b) => \A t \in Session : user'[t] # b
    BY <1>c, <1>j, <1>t, <2>1 DEF Calling, Quiet
  <2>3. QED
    BY <1>f, <2>k, <2>1, <2>2
<1>5. ASSUME NEW s \in Session, EnterSection(s) PROVE CallInv'
  <2>k. Kept
    BY <1>5, RecordsAreKept DEF EnterSection, wmVars
  <2>1. lock = NoSession /\ UNCHANGED <<awaited, job>>
        /\ user' = user
    BY <1>5 DEF EnterSection, R!BeginSpawn, R!BeginEvict, R!NoRoom, First, wmVars
  <2>2. \A b \in Actor : Busy(b) => \A t \in Session : user'[t] # b
    BY <1>c, <1>j, <1>t, <2>1 DEF Calling, Quiet
  <2>3. QED
    BY <1>f, <2>k, <2>1, <2>2
<1>6. ASSUME NEW s \in Session, CallRelease(s) PROVE CallInv'
  <2>k. Kept
    BY <1>6, RecordsAreKept DEF CallRelease, wmVars
  <2>1. UNCHANGED <<awaited, lock, target, victim, host, job, user>> /\ pc' = pc
    BY <1>6 DEF CallRelease, routerVars, wmVars
  <2>2. QED
    BY <1>s, <2>k, <2>1
<1>7. ASSUME NEW s \in Session, ReleaseSession(s) PROVE CallInv'
  <2>k. Kept
    BY <1>7, RecordsAreKept DEF ReleaseSession, wmVars
  <2>1. lock = NoSession /\ UNCHANGED <<awaited, job>>
        /\ user' = [user EXCEPT ![s] = NoActor]
    BY <1>7 DEF ReleaseSession, R!ReleaseSession, First, wmVars
  <2>2. \A b \in Actor : Busy(b) => \A t \in Session : user'[t] # b
    BY <1>c, <1>j, <1>t, <2>1 DEF Calling, Quiet
  <2>3. QED
    BY <1>f, <2>k, <2>1, <2>2
<1>8. ASSUME NEW s \in Session, DetachedRelease(s) PROVE CallInv'
  <2>k. Kept
    BY <1>8, RecordsAreKept DEF DetachedRelease, wmVars
  <2>1. /\ UNCHANGED <<awaited, lock, target, victim, host, job>>
        /\ user' = [user EXCEPT ![s] = NoActor]
        /\ pc[s] = "detached" /\ pc' = [pc EXCEPT ![s] = "idle"]
    BY <1>8 DEF DetachedRelease, R!DetachedRelease, R!locals, wmVars
  <2>2. \A a \in Actor : (\E t \in Session : user'[t] = a) => \E t \in Session : user[t] = a
    BY <1>c, <1>t, <2>1
  <2>3. Quiet'
    BY <1>j, <1>q, <2>k, <2>1, <2>2 DEF Kept, Quiet
  <2>4. lock # NoSession => pc'[lock] = pc[lock]
    BY <1>c, <1>t, <2>1
  <2>5. Calling'
    BY <1>j, <1>t, <2>k, <2>1, <2>2, <2>4 DEF Kept, Calling
  <2>6. QED
    BY <1>i, <2>3, <2>5
<1>9. ASSUME NEW s \in Session, NEW a \in Actor, CallSpawn(s, a) PROVE CallInv'
  <2>1. /\ pc[s] = "spawning" /\ awaited = NoActor /\ awaited' = a /\ ctr[a] = "unused"
        /\ host' = [host EXCEPT ![a] = target] /\ job' = [job EXCEPT ![a] = "spawning"]
        /\ UNCHANGED <<lock, target, victim, user, pc, record>>
    BY <1>9 DEF CallSpawn, W!SpawnRuns, routerVars
  <2>2. lock = s /\ R!Recorded' = R!Recorded
    BY <1>c, <2>1, RecordSame
  <2>3. a \notin R!Recorded /\ \A t \in Session : user[t] # a
    BY <2>1 DEF ControlInv, NameInv, InUse
  <2>4. Calling'
    BY <1>c, <1>t, <2>1, <2>2, <2>3 DEF Calling
  <2>5. Quiet'
    BY <1>c, <1>j, <1>t, <2>1, <2>2, <2>3 DEF Quiet
  <2>6. QED
    BY <1>i, <2>4, <2>5
<1>10. ASSUME NEW s \in Session, SpawnRefused(s) \/ EvictRefused(s) PROVE CallInv'
  <2>k. Kept
    BY <1>10, RecordsAreKept DEF SpawnRefused, EvictRefused, wmVars, linkVars
  <2>1. awaited' = NoActor /\ UNCHANGED <<awaited, job, user>>
    BY <1>10 DEF SpawnRefused, EvictRefused, wmVars, linkVars
  <2>2. Quiet'
    BY <1>j, <1>q, <2>k, <2>1 DEF Kept, Quiet
  <2>3. QED
    BY <1>e, <2>1, <2>2
<1>11. ASSUME NEW s \in Session, SpawnReturns(s) PROVE CallInv'
  <2>1. /\ awaited' = NoActor /\ job' = [job EXCEPT ![awaited] = "none"]
        /\ user' = [user EXCEPT ![s] = awaited]
    BY <1>11 DEF SpawnReturns, W!Reply
  <2>2. R!Recorded' = R!Recorded \cup {awaited}
    BY <1>11, SpawnAwaited
  <2>3. \A a \in Actor : Busy(a)' => Busy(a) /\ a # awaited
    BY <1>t, <2>1
  <2>4. \A a \in Actor : Busy(a)' => \A t \in Session : user'[t] # a
    BY <1>j, <1>t, <2>1, <2>3 DEF Quiet
  <2>5. Quiet'
    BY <1>q, <2>2, <2>3, <2>4
  <2>6. QED
    BY <1>e, <2>1, <2>5
<1>12. ASSUME NEW s \in Session, SpawnRaises(s) PROVE CallInv'
  <2>k. Kept
    BY <1>12, RecordsAreKept DEF SpawnRaises, W!Reply, wmVars
  <2>1. /\ awaited' = NoActor /\ user' = user /\ pc[s] = "spawning" /\ awaited # NoActor
        /\ \/ job[awaited] = "failed" /\ job' = [job EXCEPT ![awaited] = "none"]
           \/ job[awaited] = "none" /\ job' = job
    BY <1>12 DEF SpawnRaises, R!SpawnRaises, W!Reply, wmVars
  <2>2. \A a \in Actor : Busy(a)' => Busy(a) /\ a # awaited
    BY <1>t, <2>1
  <2>3. Quiet'
    BY <1>j, <1>q, <2>k, <2>1, <2>2 DEF Kept, Quiet
  <2>4. QED
    BY <1>e, <2>1, <2>3
<1>13. ASSUME NEW s \in Session, CallEvict(s) PROVE CallInv'
  <2>1. /\ pc[s] = "evicting" /\ awaited = NoActor /\ awaited' = victim
        /\ job' = [job EXCEPT ![victim] =
                      IF victim \in tracked[target] THEN "evicting" ELSE "evicted"]
        /\ UNCHANGED <<lock, target, victim, user, pc, record>>
    BY <1>13 DEF CallEvict, W!EvictCall, routerVars
  <2>2. lock = s /\ R!Recorded' = R!Recorded
    BY <1>c, <2>1, RecordSame
  <2>3. victim \in R!Recorded /\ \A t \in Session : user[t] # victim
    <3>1. victim \in R!Recorded /\ \A t \in Session : placement[t] # victim
      BY <2>1, Victim
    <3>2. QED
      BY <1>c, <1>t, <3>1 DEF UserInv
  <2>4. Calling'
    BY <1>c, <1>t, <2>1, <2>2, <2>3 DEF Calling
  <2>5. Quiet'
    BY <1>c, <1>j, <1>t, <2>1, <2>2, <2>3 DEF Quiet
  <2>6. QED
    BY <1>i, <2>4, <2>5
<1>14. ASSUME NEW s \in Session, EvictReturns(s) PROVE CallInv'
  <2>k. Kept
    BY <1>14, RecordsAreKept DEF EvictReturns, W!Reply
  <2>1. /\ awaited' = NoActor /\ user' = user /\ job[awaited] = "evicted"
        /\ job' = [job EXCEPT ![awaited] = "none"]
    BY <1>14 DEF EvictReturns, W!Reply
  <2>2. \A a \in Actor : Busy(a)' => Busy(a) /\ a # awaited
    BY <1>t, <2>1
  <2>3. Quiet'
    BY <1>j, <1>q, <2>k, <2>1, <2>2 DEF Kept, Quiet
  <2>4. QED
    BY <1>e, <2>1, <2>3
<1>15. ASSUME NEW s \in Session, EvictRaises(s) PROVE CallInv'
  <2>k. Kept
    BY <1>15, RecordsAreKept DEF EvictRaises, wmVars
  <2>1. awaited' = NoActor /\ UNCHANGED <<user, job>> /\ job[awaited] = "none"
    BY <1>15 DEF EvictRaises, wmVars
  <2>2. \A a \in Actor : Busy(a)' => Busy(a) /\ a # awaited
    BY <1>t, <2>1
  <2>3. Quiet'
    BY <1>j, <1>q, <2>k, <2>1, <2>2 DEF Kept, Quiet
  <2>4. QED
    BY <1>e, <2>1, <2>3
<1>16. ASSUME NEW n \in Node, SendHeartbeat(n) PROVE CallInv'
  <2>k. Kept
    BY <1>16, RecordsAreKept DEF SendHeartbeat, wmVars
  <2>1. UNCHANGED <<awaited, lock, target, victim, host, job, user>> /\ pc' = pc
    BY <1>16 DEF SendHeartbeat, routerVars, wmVars
  <2>2. QED
    BY <1>s, <2>k, <2>1
<1>17. ASSUME NEW n \in Node, Heartbeat(n) PROVE CallInv'
  <2>k. Kept
    BY <1>17, RecordsAreKept DEF Heartbeat, wmVars
  <2>1. lock = NoSession /\ UNCHANGED <<awaited, job>>
        /\ user' = user
    BY <1>17 DEF Heartbeat, R!Heartbeat, First, wmVars
  <2>2. \A b \in Actor : Busy(b) => \A t \in Session : user'[t] # b
    BY <1>c, <1>j, <1>t, <2>1 DEF Calling, Quiet
  <2>3. QED
    BY <1>f, <2>k, <2>1, <2>2
<1>18. ASSUME NEW n \in Node, WorkerRestarts(n) PROVE CallInv'
  <2>k. Kept
    BY <1>18, RecordsAreKept DEF WorkerRestarts, W!WorkerRestarts
  <2>1. /\ UNCHANGED <<awaited, lock, target, victim, host, user, pc>>
        /\ job' = [b \in Actor |-> IF host[b] = n THEN "none" ELSE job[b]]
    BY <1>18 DEF WorkerRestarts, W!WorkerRestarts, routerVars
  <2>2. Quiet'
    BY <1>j, <1>q, <1>t, <2>k, <2>1 DEF Kept, Quiet
  <2>3. Calling'
    BY <1>j, <1>t, <2>k, <2>1 DEF Kept, Calling
  <2>4. QED
    BY <1>i, <2>2, <2>3
<1>19. ASSUME NEW a \in Actor, WorkerStep(a) PROVE CallInv'
  <2>k. Kept
    BY <1>19, RecordsAreKept
       DEF WorkerStep, W!ContainerRegisters, W!ContainerLoads, W!ContainerDies,
           W!SpawnSeesName, W!SpawnTimesOut, W!EvictStops, linkVars
  <2>1. /\ UNCHANGED <<awaited, lock, target, victim, host, user, pc>>
        /\ \/ job' = job
           \/ job[a] = "spawning" /\ job' = [job EXCEPT ![a] = "spawned"]
           \/ job[a] = "spawning" /\ job' = [job EXCEPT ![a] = "failed"]
           \/ job[a] = "evicting" /\ job' = [job EXCEPT ![a] = "evicted"]
    <3>1. UNCHANGED <<awaited, lock, target, victim, host, user, pc>>
      BY <1>19
         DEF WorkerStep, W!ContainerRegisters, W!ContainerLoads, W!ContainerDies,
             W!SpawnSeesName, W!SpawnTimesOut, W!EvictStops, routerVars, linkVars
    <3>2. QED
      BY <1>19, <3>1
         DEF WorkerStep, W!ContainerRegisters, W!ContainerLoads, W!ContainerDies,
             W!SpawnSeesName, W!SpawnTimesOut, W!EvictStops
  <2>2. \A b \in Actor : \/ job'[b] = job[b]
                         \/ job[b] = "spawning" /\ job'[b] \in {"spawned", "failed"}
                         \/ job[b] = "evicting" /\ job'[b] = "evicted"
    BY <1>t, <2>1
  <2>3. Quiet'
    BY <1>j, <1>q, <2>k, <2>1, <2>2 DEF Kept, Quiet
  <2>4. Calling'
    BY <1>j, <1>t, <2>k, <2>1, <2>2 DEF Kept, Calling
  <2>5. QED
    BY <1>i, <2>3, <2>4
<1>20. ASSUME NEW a \in Actor, ReplyLost(a) PROVE CallInv'
  <2>k. Kept
    BY <1>20, RecordsAreKept DEF ReplyLost, W!Reply, linkVars
  <2>1. /\ UNCHANGED <<awaited, lock, target, victim, host, user, pc>>
        /\ a # awaited /\ job' = [job EXCEPT ![a] = "none"]
    BY <1>20 DEF ReplyLost, W!Reply, routerVars, linkVars
  <2>2. Quiet'
    BY <1>j, <1>q, <1>t, <2>k, <2>1 DEF Kept, Quiet
  <2>3. Calling'
    BY <1>j, <1>t, <2>k, <2>1 DEF Kept, Calling
  <2>4. QED
    BY <1>i, <2>2, <2>3
<1>21. ASSUME NEW a \in Actor, Age(a) PROVE CallInv'
  <2>k. Kept
    BY <1>21, RecordsAreKept DEF Age, wmVars, linkVars
  <2>1. UNCHANGED <<awaited, lock, target, victim, host, job, user>> /\ pc' = pc
    BY <1>21 DEF Age, R!Age, wmVars, linkVars, R!locals
  <2>2. QED
    BY <1>s, <2>k, <2>1
<1>22. ASSUME ReplaceRouter PROVE CallInv'
  <2>1. awaited' = NoActor /\ UNCHANGED <<job, user>> /\ record' = [a \in Actor |-> NoRecord]
    BY <1>22 DEF ReplaceRouter, R!ReplaceRouter, R!Forget, wmVars
  <2>2. R!Recorded' = {}
    BY <2>1 DEF R!Recorded
  <2>3. Quiet'
    BY <1>j, <2>1, <2>2 DEF Quiet
  <2>4. QED
    BY <1>e, <2>1, <2>3
<1>23. ASSUME UNCHANGED vars PROVE CallInv'
  <2>k. Kept
    BY <1>23, RecordsAreKept DEF vars, wmVars, linkVars
  <2>1. UNCHANGED <<awaited, lock, target, victim, host, job, user>> /\ pc' = pc
    BY <1>23 DEF vars, routerVars, wmVars, linkVars
  <2>2. QED
    BY <1>s, <2>k, <2>1
<1>24. QED
  BY <1>1, <1>2, <1>3, <1>4, <1>5, <1>6, <1>7, <1>8, <1>9, <1>10, <1>11, <1>12, <1>13,
     <1>14, <1>15, <1>16, <1>17, <1>18, <1>19, <1>20, <1>21, <1>22, <1>23
     DEF Next, RouterStep

(* What is on record stays tracked, without crashes.                       *)
LEMMA TrackPreserved == ControlInv /\ [Next]_vars => TrackInv'
<1> SUFFICES ASSUME ControlInv, [Next]_vars PROVE TrackInv'
  OBVIOUS
<1> SUFFICES ASSUME "wm_crash" \notin Faults
             PROVE  /\ RecordedIsTracked'
                    /\ \A a \in Actor : job'[a] = "spawned" => a \in tracked'[host'[a]]
                    /\ awaited' # NoActor => job'[awaited'] # "none"
  BY DEF TrackInv
<1> DEFINE Known == /\ RecordedIsTracked
                    /\ \A a \in Actor : job[a] = "spawned" => a \in tracked[host[a]]
                    /\ awaited # NoActor => job[awaited] # "none"
<1>i. Known /\ CallInv /\ NoActor \notin Actor
  BY RouterConstants DEF ControlInv, TrackInv
<1>t. /\ tracked \in [Node -> SUBSET Actor] /\ job \in [Actor -> W!JobState]
      /\ host \in [Actor -> Node \cup {NoNode}] /\ awaited \in Actor \cup {NoActor}
      /\ R!Recorded \subseteq Actor
      /\ \A a \in Actor : job[a] # "none" => host[a] \in Node
  BY Facts, Tables
<1>r. RecordedIsTracked' =
          \A a \in R!Recorded' : a \in tracked'[record'[a].node] \/ a = awaited'
  BY DEF RecordedIsTracked
<1>s. ASSUME Kept, UNCHANGED <<tracked, host, job, awaited>> PROVE Known'
  BY <1>i, <1>r, <1>s DEF Kept, RecordedIsTracked
(* The call awaited ends, with no record for the actor it was about.       *)
<1>e. ASSUME Kept, UNCHANGED <<tracked, host>>, awaited' = NoActor, awaited \notin R!Recorded',
             job' = [job EXCEPT ![awaited] = "none"]
      PROVE  Known'
  <2>1. \A a \in R!Recorded' : a \in tracked'[record'[a].node]
    BY <1>e, <1>i DEF Kept, RecordedIsTracked
  <2>2. \A a \in Actor : job'[a] = "spawned" => job[a] = "spawned"
    BY <1>e, <1>t
  <2>3. QED
    BY <1>e, <1>i, <1>r, <2>1, <2>2
<1>1. ASSUME NEW s \in Session, (\E m \in Model : AcquireSession(s, m))
             \/ FetchReturns(s) \/ FetchRaises(s) \/ (\E a \in Actor : Reuse(s, a))
             \/ EnterSection(s) \/ CallRelease(s) \/ ReleaseSession(s)
             \/ DetachedRelease(s) \/ SpawnRefused(s)
      PROVE  Known'
  <2>k. Kept
    BY <1>1, RecordsAreKept
       DEF AcquireSession, FetchReturns, FetchRaises, Reuse, EnterSection,
           CallRelease, ReleaseSession, DetachedRelease, SpawnRefused, wmVars,
           linkVars
  <2>1. UNCHANGED <<tracked, host, job, awaited>>
    BY <1>1
       DEF AcquireSession, FetchReturns, FetchRaises, Reuse, EnterSection,
           CallRelease, ReleaseSession, DetachedRelease, SpawnRefused, wmVars,
           linkVars
  <2>2. QED
    BY <1>s, <2>k, <2>1
<1>2. ASSUME NEW s \in Session, NEW a \in Actor, CallSpawn(s, a) PROVE Known'
  <2>k. Kept
    BY <1>2, RecordsAreKept DEF CallSpawn, W!SpawnRuns
  <2>1. /\ awaited = NoActor /\ awaited' = a /\ ctr[a] = "unused" /\ tracked' = tracked
        /\ host' = [host EXCEPT ![a] = target] /\ job' = [job EXCEPT ![a] = "spawning"]
    BY <1>2 DEF CallSpawn, W!SpawnRuns
  <2>2. \A b \in R!Recorded' : b \in tracked'[record'[b].node]
    BY <1>i, <1>t, <2>k, <2>1 DEF Kept, RecordedIsTracked
  <2>3. \A b \in Actor : job'[b] = "spawned" => job[b] = "spawned" /\ host'[b] = host[b]
    BY <1>t, <2>1
  <2>4. job'[a] # "none"
    BY <1>t, <2>1
  <2>5. QED
    BY <1>i, <1>r, <2>1, <2>2, <2>3, <2>4
<1>3. ASSUME NEW s \in Session, SpawnReturns(s) PROVE Known'
  <2>1. /\ awaited' = NoActor /\ job[awaited] = "spawned" /\ UNCHANGED <<tracked, host>>
        /\ job' = [job EXCEPT ![awaited] = "none"]
    BY <1>3 DEF SpawnReturns, W!Reply
  <2>2. /\ awaited \in Actor /\ awaited \notin R!Recorded /\ host[awaited] = target
        /\ R!Recorded' = R!Recorded \cup {awaited} /\ record'[awaited].node = target
        /\ \A b \in R!Recorded : record'[b] = record[b]
    BY <1>3, SpawnAwaited
  <2>3. \A b \in R!Recorded' : b \in tracked'[record'[b].node]
    BY <1>i, <2>1, <2>2 DEF RecordedIsTracked
  <2>4. \A a \in Actor : job'[a] = "spawned" => job[a] = "spawned"
    BY <1>t, <2>1
  <2>5. QED
    BY <1>i, <1>r, <2>1, <2>3, <2>4
<1>4. ASSUME NEW s \in Session, SpawnRaises(s) PROVE Known'
  <2>k. Kept
    BY <1>4, RecordsAreKept DEF SpawnRaises, W!Reply, wmVars
  <2>1. /\ awaited' = NoActor /\ awaited # NoActor /\ UNCHANGED <<tracked, host>>
        /\ job' = [job EXCEPT ![awaited] = "none"] /\ pc[s] = "spawning"
    BY <1>4, <1>i DEF SpawnRaises, R!SpawnRaises, W!Reply, wmVars
  <2>2. awaited \notin R!Recorded
    BY <1>i, <2>1, Facts DEF CallInv
  <2>3. QED
    BY <1>e, <2>k, <2>1, <2>2 DEF Kept
<1>5. ASSUME NEW s \in Session, CallEvict(s) PROVE Known'
  <2>k. Kept
    BY <1>5, RecordsAreKept DEF CallEvict, W!EvictCall
  <2>1. /\ awaited = NoActor /\ awaited' = victim /\ host' = host /\ pc[s] = "evicting"
        /\ tracked' = [tracked EXCEPT ![target] = tracked[target] \ {victim}]
        /\ job' = [job EXCEPT ![victim] =
                      IF victim \in tracked[target] THEN "evicting" ELSE "evicted"]
    BY <1>5 DEF CallEvict, W!EvictCall, W!Track
  <2>2. victim \in R!Recorded
    BY <2>1, Victim
  <2>3. \A n \in Node : tracked[n] \ {victim} \subseteq tracked'[n]
    BY <1>t, <2>1
  <2>4. \A b \in R!Recorded : record[b].node \in Node
    BY RouterConstants
       DEF ControlInv, R!RouterInv, R!TypeOK, R!Recorded, R!ActorRecord
  <2>5. \A b \in R!Recorded' : b \in tracked'[record'[b].node] \/ b = victim
    BY <1>i, <1>t, <2>k, <2>1, <2>3, <2>4 DEF Kept, RecordedIsTracked
  <2>6. \A b \in Actor : job'[b] = "spawned" => job[b] = "spawned" /\ b # victim
    BY <1>t, <2>1
  <2>7. job'[victim] # "none"
    BY <1>t, <2>1, <2>2
  <2>8. QED
    BY <1>i, <1>r, <1>t, <2>1, <2>3, <2>5, <2>6, <2>7
<1>6. ASSUME NEW s \in Session, EvictRefused(s) PROVE Known'
  BY <1>6 DEF EvictRefused
<1>7. ASSUME NEW s \in Session, EvictReturns(s) PROVE Known'
  <2>k. Kept
    BY <1>7, RecordsAreKept DEF EvictReturns, W!Reply
  <2>1. /\ awaited' = NoActor /\ awaited # NoActor /\ UNCHANGED <<tracked, host>>
        /\ job' = [job EXCEPT ![awaited] = "none"] /\ pc[s] = "evicting"
        /\ R!Forget({victim})
    BY <1>7 DEF EvictReturns, R!EvictMakesRoom, R!EvictReturns, R!FreeVictim, W!Reply
  <2>2. awaited = victim
    BY <1>i, <2>1, Facts DEF CallInv
  <2>3. R!Recorded' = R!Recorded \ {victim}
    BY <2>1, RecordForgets
  <2>4. QED
    BY <1>e, <2>k, <2>1, <2>2, <2>3
<1>8. ASSUME NEW s \in Session, EvictRaises(s) PROVE Known'
  <2>1. awaited # NoActor /\ job[awaited] = "none"
    BY <1>8 DEF EvictRaises
  <2>2. QED
    BY <1>i, <2>1
<1>9. ASSUME NEW n \in Node, SendHeartbeat(n) \/ Heartbeat(n) PROVE Known'
  <2>k. Kept
    BY <1>9, RecordsAreKept DEF SendHeartbeat, Heartbeat, wmVars
  <2>1. UNCHANGED <<tracked, host, job, awaited>>
    BY <1>9 DEF SendHeartbeat, Heartbeat, wmVars
  <2>2. QED
    BY <1>s, <2>k, <2>1
<1>10. ASSUME NEW n \in Node, WorkerRestarts(n) PROVE Known'
  BY <1>10 DEF WorkerRestarts, W!WorkerRestarts
<1>11. ASSUME NEW a \in Actor, WorkerStep(a) PROVE Known'
  <2>k. Kept
    BY <1>11, RecordsAreKept
       DEF WorkerStep, W!ContainerRegisters, W!ContainerLoads, W!ContainerDies,
           W!SpawnSeesName, W!SpawnTimesOut, W!EvictStops, linkVars
  <2>1. host' = host /\ awaited' = awaited
    BY <1>11
       DEF WorkerStep, W!ContainerRegisters, W!ContainerLoads, W!ContainerDies,
           W!SpawnSeesName, W!SpawnTimesOut, W!EvictStops, linkVars
  <2>2. \/ UNCHANGED <<tracked, job>>
        \/ /\ job[a] = "spawning" /\ job' = [job EXCEPT ![a] = "spawned"]
           /\ tracked' = [tracked EXCEPT ![host[a]] = tracked[host[a]] \cup {a}]
        \/ tracked' = tracked /\ \E x \in {"failed", "evicted"} : job' = [job EXCEPT ![a] = x]
    BY <1>11
       DEF WorkerStep, W!ContainerRegisters, W!ContainerLoads, W!ContainerDies,
           W!SpawnSeesName, W!SpawnTimesOut, W!EvictStops, W!Track
  <2>3. \A b \in Node : tracked[b] \subseteq tracked'[b]
    BY <1>t, <2>2
  <2>4. \A b \in R!Recorded : record[b].node \in Node
    BY RouterConstants
       DEF ControlInv, R!RouterInv, R!TypeOK, R!Recorded, R!ActorRecord
  <2>5. \A b \in R!Recorded' : b \in tracked'[record'[b].node] \/ b = awaited'
    BY <1>i, <2>k, <2>1, <2>3, <2>4 DEF Kept, RecordedIsTracked
  <2>6. \A b \in Actor : job'[b] = "spawned" => b \in tracked'[host[b]]
    <3>1. ASSUME NEW b \in Actor, job'[b] = "spawned" PROVE b \in tracked'[host[b]]
      <4>1. CASE job[b] = "spawned"
        BY <1>i, <1>t, <2>3, <4>1
      <4>2. CASE job[b] # "spawned"
        <5>1. /\ b = a /\ job[a] = "spawning"
              /\ tracked' = [tracked EXCEPT ![host[a]] = tracked[host[a]] \cup {a}]
          BY <1>t, <2>2, <3>1, <4>2
        <5>2. host[a] \in Node
          BY <1>t, <5>1
        <5>3. QED
          BY <1>t, <5>1, <5>2
      <4>3. QED
        BY <4>1, <4>2
    <3>2. QED
      BY <3>1
  <2>7. \A b \in Actor : job'[b] = "none" => job[b] = "none"
    BY <1>t, <2>2
  <2>8. QED
    BY <1>i, <1>r, <1>t, <2>1, <2>5, <2>6, <2>7
<1>12. ASSUME NEW a \in Actor, ReplyLost(a) PROVE Known'
  <2>k. Kept
    BY <1>12, RecordsAreKept DEF ReplyLost, W!Reply, linkVars
  <2>1. /\ UNCHANGED <<tracked, host, awaited>> /\ a # awaited
        /\ job' = [job EXCEPT ![a] = "none"]
    BY <1>12 DEF ReplyLost, W!Reply, linkVars
  <2>2. \A b \in Actor : job'[b] = job[b] \/ (b = a /\ job'[b] = "none")
    BY <1>t, <2>1
  <2>3. \A b \in R!Recorded' : b \in tracked'[record'[b].node] \/ b = awaited'
    BY <1>i, <2>k, <2>1 DEF Kept, RecordedIsTracked
  <2>4. QED
    BY <1>i, <1>r, <1>t, <2>1, <2>2, <2>3
<1>13. ASSUME NEW a \in Actor, Age(a) PROVE Known'
  <2>k. Kept
    BY <1>13, RecordsAreKept DEF Age, wmVars, linkVars
  <2>1. UNCHANGED <<tracked, host, job, awaited>>
    BY <1>13 DEF Age, wmVars, linkVars
  <2>2. QED
    BY <1>s, <2>k, <2>1
<1>14. ASSUME ReplaceRouter PROVE Known'
  <2>1. /\ awaited' = NoActor /\ UNCHANGED <<tracked, host, job>>
        /\ record' = [a \in Actor |-> NoRecord]
    BY <1>14 DEF ReplaceRouter, R!ReplaceRouter, R!Forget, wmVars
  <2>2. R!Recorded' = {}
    BY <2>1 DEF R!Recorded
  <2>3. QED
    BY <1>i, <1>r, <2>1, <2>2
<1>15. ASSUME UNCHANGED vars PROVE Known'
  <2>k. Kept
    BY <1>15, RecordsAreKept DEF vars, wmVars, linkVars
  <2>1. UNCHANGED <<tracked, host, job, awaited>>
    BY <1>15 DEF vars, wmVars, linkVars
  <2>2. QED
    BY <1>s, <2>k, <2>1
<1>16. QED
  BY <1>1, <1>2, <1>3, <1>4, <1>5, <1>6, <1>7, <1>8, <1>9, <1>10, <1>11, <1>12, <1>13,
     <1>14, <1>15
     DEF Next, RouterStep

(* Nothing runs on unreachable, and no heartbeat drops a record in use or  *)
(* just released, without failures that leave containers behind.           *)
LEMMA OrphanPreserved == ControlInv /\ [Next]_vars => OrphanInv'
<1> SUFFICES ASSUME ControlInv, [Next]_vars PROVE OrphanInv'
  OBVIOUS
<1> SUFFICES ASSUME Tidy
             PROVE  /\ NoOrphan' /\ BeatInv'
                    /\ \A a \in Actor : job'[a] # "none" => a = awaited'
                    /\ \A a \in Actor : job'[a] \in {"failed", "evicted"} =>
                           a \notin W!Running'
  BY DEF OrphanInv, Tidy
<1> DEFINE Clear == /\ NoOrphan
                    /\ \A a \in Actor : job[a] # "none" => a = awaited
                    /\ \A a \in Actor : job[a] \in {"failed", "evicted"} => a \notin W!Running
<1>y. {"docker_error", "wm_crash", "replace"} \cap Faults = {}
  BY DEF Tidy
<1>i. /\ Clear /\ BeatInv /\ RecordedIsTracked
      /\ awaited # NoActor => job[awaited] # "none"
      /\ CallInv /\ QueueOK /\ NoActor \notin Actor
  BY <1>y, RouterConstants, ControlHasQueue DEF ControlInv, OrphanInv, TrackInv
<1>t. /\ tracked \in [Node -> SUBSET Actor] /\ job \in [Actor -> W!JobState]
      /\ ctr \in [Actor -> W!CtrState] /\ awaited \in Actor \cup {NoActor}
      /\ placement \in [Session -> Actor \cup {NoActor}]
      /\ R!Recorded \subseteq Actor /\ Session \subseteq Waiter /\ Node \subseteq Waiter
      /\ beat \in [Node -> Payload \cup {NoBeat}]
      /\ \A n \in Node : beat[n] # NoBeat <=> Waits(n)
      /\ \A s \in Session : placement[s] # NoActor => pc[s] = "held"
      /\ \A s \in Session : Waits(s) => pc[s] \in {"ready", "held"}
  BY <1>i, Facts, Tables DEF QueueOK, QueueInv, Waiter
<1>n. NoOrphan' = \A a \in W!Running' : job'[a] # "none" \/ a \in R!Recorded'
  BY DEF NoOrphan
(* A session that a heartbeat relies on keeps its actor and its place.     *)
<1> DEFINE Relied(n, t) == beat[n] # NoBeat /\ placement[t] \in R!Recorded /\ Ahead(n, t)
<1>b. ASSUME Kept, \A a \in R!Recorded' : a = awaited => a = awaited',
             \A n \in Node : beat'[n] \in {beat[n], NoBeat},
             \A n \in Node, t \in Session : Relied(n, t) /\ beat'[n] # NoBeat =>
                 Ahead(n, t)' /\ placement'[t] = placement[t]
      PROVE  BeatInv'
  <2> SUFFICES ASSUME NEW n \in Node, NEW a \in R!RecordedOn(n)',
                      beat'[n] # NoBeat, a \notin beat'[n].alive, a # awaited'
               PROVE  \E t \in Session : placement'[t] = a /\ Ahead(n, t)'
    BY DEF BeatInv
  <2>1. a \in R!RecordedOn(n) /\ a \in R!Recorded' /\ a \in R!Recorded
    BY <1>b DEF R!RecordedOn, Kept
  <2>2. beat'[n] = beat[n] /\ beat[n] # NoBeat /\ a \notin beat[n].alive /\ a # awaited
    BY <1>b, <2>1
  <2>3. PICK t \in Session : placement[t] = a /\ Ahead(n, t)
    BY <1>i, <2>1, <2>2 DEF BeatInv
  <2>4. Ahead(n, t)' /\ placement'[t] = placement[t]
    BY <1>b, <2>1, <2>2, <2>3
  <2>5. QED
    BY <2>3, <2>4
<1>c. ASSUME Kept, UNCHANGED <<ctr, job, awaited>>, R!Recorded \subseteq R!Recorded'
      PROVE  Clear'
  BY <1>c, <1>i, <1>n DEF W!Running, NoOrphan
<1>m. ASSUME UNCHANGED queue PROVE \A n, t : Ahead(n, t)' <=> Ahead(n, t)
  BY <1>m DEF Ahead
<1>e. ASSUME NEW w \in Waiter, ~Waits(w), Enqueue(w)
      PROVE  \A n \in Node : \A t : Waits(n) /\ (Ahead(n, t) \/ t = w) => Ahead(n, t)'
  BY <1>e, <1>i, QueueGrows
<1>d. ASSUME NEW w, First(w), Dequeue
      PROVE  /\ \A n, t : Ahead(n, t) => Ahead(n, t)'
             /\ \A n : Waits(n) => ~Ahead(n, w)
  BY <1>d, <1>i, QueueShrinks
(* Nothing but the queue changes that matters here.                        *)
<1>o. ASSUME UNCHANGED <<ctr, job, awaited, record, placement, beat>>,
             \A n \in Node, t \in Session : Waits(n) /\ Ahead(n, t) => Ahead(n, t)'
      PROVE  Clear' /\ BeatInv'
  <2>1. Kept /\ R!Recorded' = R!Recorded
    BY <1>o, RecordSame DEF Kept
  <2>2. BeatInv'
    BY <1>b, <1>o, <1>t, <2>1
  <2>3. QED
    BY <1>c, <1>o, <2>1, <2>2
<1> HIDE DEF Clear, Relied
<1>1. ASSUME NEW s \in Session, NEW m \in Model, AcquireSession(s, m) PROVE Clear' /\ BeatInv'
  <2>1. UNCHANGED <<ctr, job, awaited, record, placement, beat>> /\ ~Waits(s)
    BY <1>1, <1>t DEF AcquireSession, R!AcquireSession, wmVars, R!actorTables
  <2>2. Enqueue(s) \/ queue' = queue
    BY <1>1 DEF AcquireSession
  <2>3. QED
    BY <1>e, <1>m, <1>o, <1>t, <2>1, <2>2
<1>2. ASSUME NEW s \in Session, FetchReturns(s) PROVE Clear' /\ BeatInv'
  <2>1. UNCHANGED <<ctr, job, awaited, record, placement, beat>> /\ Enqueue(s) /\ pc[s] = "fetching" /\ ~Waits(s)
    BY <1>2, <1>t DEF FetchReturns, R!FetchReturns, wmVars, R!actorTables
  <2>2. QED
    BY <1>e, <1>o, <1>t, <2>1
<1>3. ASSUME NEW s \in Session, FetchRaises(s) \/ DetachedRelease(s)
             \/ SpawnRefused(s)
      PROVE  Clear' /\ BeatInv'
  <2>1. UNCHANGED <<ctr, job, awaited, record, placement, beat>> /\ queue' = queue
    BY <1>3
       DEF FetchRaises, R!FetchRaises, DetachedRelease, R!DetachedRelease,
           SpawnRefused, R!SpawnRaises, wmVars, linkVars, R!actorTables
  <2>2. QED
    BY <1>m, <1>o, <2>1
<1>4. ASSUME NEW s \in Session, NEW a \in Actor, Reuse(s, a) PROVE Clear' /\ BeatInv'
  <2>k. Kept
    BY <1>4, RecordsAreKept DEF Reuse, wmVars
  <2>1. /\ UNCHANGED <<ctr, job, awaited, beat>> /\ First(s) /\ Dequeue
        /\ placement' = [placement EXCEPT ![s] = a] /\ pc[s] = "ready"
        /\ a \in R!Recorded /\ record' = [record EXCEPT ![a].active = record[a].active + 1]
    BY <1>4 DEF Reuse, R!Reuse, R!Reusable, wmVars
  <2>2. R!Recorded' = R!Recorded
    <3>1. R!TypeOK /\ record[a].active + 1 \in Nat
      BY <2>1, RouterConstants
         DEF ControlInv, R!RouterInv, R!TypeOK, R!Recorded, R!ActorRecord
    <3>2. QED
      BY <2>1, <3>1, RecordCounts
  <2>3. placement[s] = NoActor
    BY <1>t, <2>1
  <2>4. \A n \in Node, t \in Session : Relied(n, t) => placement'[t] = placement[t]
    BY <1>i, <1>t, <2>1, <2>3 DEF Relied
  <2>5. \A n \in Node, t \in Session : Relied(n, t) => Ahead(n, t)'
    BY <1>d, <2>1 DEF Relied
  <2>6. BeatInv'
    BY <1>b, <1>t, <2>k, <2>1, <2>4, <2>5
  <2>7. QED
    BY <1>c, <2>k, <2>1, <2>2, <2>6
<1>5. ASSUME NEW s \in Session, EnterSection(s) PROVE Clear' /\ BeatInv'
  <2>1. UNCHANGED <<ctr, job, awaited, record, placement, beat>> /\ First(s) /\ Dequeue
    BY <1>5
       DEF EnterSection, R!BeginSpawn, R!BeginEvict, R!NoRoom, wmVars, R!actorTables
  <2>2. QED
    BY <1>d, <1>o, <2>1
<1>6. ASSUME NEW s \in Session, CallRelease(s) PROVE Clear' /\ BeatInv'
  <2>1. UNCHANGED <<ctr, job, awaited, record, placement, beat>> /\ Enqueue(s) /\ pc[s] = "held" /\ ~Waits(s)
    BY <1>6, <1>t DEF CallRelease, routerVars, wmVars
  <2>2. QED
    BY <1>e, <1>o, <1>t, <2>1
<1>7. ASSUME NEW s \in Session, ReleaseSession(s) PROVE Clear' /\ BeatInv'
  <2>k. Kept
    BY <1>7, RecordsAreKept DEF ReleaseSession, wmVars
  <2> DEFINE b == placement[s]
  <2>1. /\ UNCHANGED <<ctr, job, awaited, beat>> /\ First(s) /\ Dequeue
        /\ placement' = [placement EXCEPT ![s] = NoActor]
    BY <1>7 DEF ReleaseSession, R!ReleaseSession, wmVars
  <2>2. R!Recorded' = R!Recorded
    <3>1. b \in R!Recorded
      BY <1>7, Facts DEF ReleaseSession, R!ReleaseSession
    <3>2. record' = [record EXCEPT ![b].active =
                        IF record[b].active > 1 THEN record[b].active - 1 ELSE 0]
      BY <1>7, <3>1 DEF ReleaseSession, R!ReleaseSession
    <3>3. R!TypeOK /\ record[b].active \in Nat
      BY <3>1, RouterConstants
         DEF ControlInv, R!RouterInv, R!TypeOK, R!Recorded, R!ActorRecord
    <3> HIDE DEF b
    <3>4. (IF record[b].active > 1 THEN record[b].active - 1 ELSE 0) \in Nat
      BY <3>3
    <3>5. QED
      BY <3>1, <3>2, <3>3, <3>4, RecordCounts
  <2> HIDE DEF b
  <2>3. \A n \in Node, t \in Session : Relied(n, t) => Ahead(n, t)' /\ t # s
    BY <1>d, <1>t, <2>1 DEF Relied
  <2>4. \A t \in Session : t # s => placement'[t] = placement[t]
    BY <1>t, <2>1
  <2>5. BeatInv'
    BY <1>b, <1>t, <2>k, <2>1, <2>3, <2>4
  <2>6. QED
    BY <1>c, <2>k, <2>1, <2>2, <2>5
<1>8. ASSUME NEW s \in Session, NEW a \in Actor, CallSpawn(s, a) PROVE Clear' /\ BeatInv'
  <2>k. Kept
    BY <1>8, RecordsAreKept DEF CallSpawn, W!SpawnRuns
  <2>1. /\ awaited = NoActor /\ awaited' = a /\ ctr[a] = "unused"
        /\ ctr' = [ctr EXCEPT ![a] = "booting"] /\ job' = [job EXCEPT ![a] = "spawning"]
        /\ UNCHANGED <<record, placement, beat, queue>>
    BY <1>8 DEF CallSpawn, W!SpawnRuns, routerVars
  <2>2. BeatInv'
    BY <1>b, <1>i, <1>m, <1>t, <2>k, <2>1 DEF Kept, Relied
  <2>3. R!Recorded' = R!Recorded
    BY <2>1, RecordSame
  <2>4. \A b \in Actor : /\ b \in W!Running' => b \in W!Running \/ b = a
                         /\ job'[b] = IF b = a THEN "spawning" ELSE job[b]
    BY <1>t, <2>1 DEF W!Running
  <2>5. Clear'
    BY <1>i, <1>n, <1>t, <2>1, <2>3, <2>4 DEF Clear, NoOrphan, W!Running
  <2>6. QED
    BY <2>2, <2>5
<1>9. ASSUME NEW s \in Session, SpawnReturns(s) PROVE Clear' /\ BeatInv'
  <2>1. /\ awaited' = NoActor /\ job' = [job EXCEPT ![awaited] = "none"]
        /\ UNCHANGED <<ctr, beat, queue>>
        /\ placement' = [placement EXCEPT ![s] = awaited] /\ pc[s] = "spawning"
    BY <1>9 DEF SpawnReturns, R!SpawnReturns, W!Reply
  <2>2. /\ awaited \in Actor /\ awaited \notin R!Recorded
        /\ R!Recorded' = R!Recorded \cup {awaited} /\ record'[awaited].node = target
        /\ \A b \in R!Recorded : record'[b] = record[b]
    BY <1>9, SpawnAwaited
  <2>3. placement[s] = NoActor /\ ~Waits(s) /\ placement'[s] = awaited
    BY <1>t, <2>1
  <2>4. \A n \in Node : Ahead(n, s)'
    BY <2>1, <2>3 DEF Ahead, Waits
  <2>5. BeatInv'
    <3> SUFFICES ASSUME NEW n \in Node, NEW a \in R!RecordedOn(n)',
                        beat'[n] # NoBeat, a \notin beat'[n].alive
                 PROVE  \E t \in Session : placement'[t] = a /\ Ahead(n, t)'
      BY DEF BeatInv
    <3>1. CASE a = awaited
      BY <2>3, <2>4, <3>1
    <3>2. CASE a # awaited
      <4>1. a \in R!RecordedOn(n)
        BY <2>2, <3>2 DEF R!RecordedOn
      <4>2. PICK t \in Session : placement[t] = a /\ Ahead(n, t)
        BY <1>i, <2>1, <3>2, <4>1 DEF BeatInv
      <4>3. placement'[t] = a
        BY <1>i, <1>t, <2>1, <2>3, <4>1, <4>2 DEF R!RecordedOn
      <4>4. QED
        BY <1>m, <2>1, <4>2, <4>3
    <3>3. QED
      BY <3>1, <3>2
  <2>6. \A b \in Actor : job'[b] = IF b = awaited THEN "none" ELSE job[b]
    BY <1>t, <2>1
  <2>7. Clear'
    BY <1>i, <1>n, <2>1, <2>2, <2>6 DEF Clear, NoOrphan, W!Running
  <2>8. QED
    BY <2>5, <2>7
<1>10. ASSUME NEW s \in Session, SpawnRaises(s) PROVE Clear' /\ BeatInv'
  <2>k. Kept
    BY <1>10, RecordsAreKept DEF SpawnRaises, W!Reply, wmVars
  <2>1. /\ awaited' = NoActor /\ awaited # NoActor /\ job[awaited] = "failed"
        /\ job' = [job EXCEPT ![awaited] = "none"] /\ pc[s] = "spawning"
        /\ UNCHANGED <<ctr, record, placement, beat, queue>>
    BY <1>10, <1>i DEF SpawnRaises, R!SpawnRaises, W!Reply, R!actorTables
  <2>2. awaited \notin R!Recorded /\ R!Recorded' = R!Recorded
    BY <1>i, <2>1, Facts, RecordSame DEF CallInv
  <2>3. BeatInv'
    BY <1>b, <1>m, <1>t, <2>k, <2>1, <2>2 DEF Relied
  <2>4. \A b \in Actor : job'[b] = IF b = awaited THEN "none" ELSE job[b]
    BY <1>t, <2>1
  <2>5. Clear'
    BY <1>i, <1>n, <1>t, <2>1, <2>2, <2>4 DEF Clear, NoOrphan, W!Running
  <2>6. QED
    BY <2>3, <2>5
<1>11. ASSUME NEW s \in Session, CallEvict(s) PROVE Clear' /\ BeatInv'
  <2>k. Kept
    BY <1>11, RecordsAreKept DEF CallEvict, W!EvictCall
  <2>1. /\ awaited = NoActor /\ awaited' = victim /\ pc[s] = "evicting"
        /\ job' = [job EXCEPT ![victim] =
                      IF victim \in tracked[target] THEN "evicting" ELSE "evicted"]
        /\ UNCHANGED <<ctr, record, placement, beat, queue>>
    BY <1>11 DEF CallEvict, W!EvictCall, routerVars
  <2>2. victim \in R!Recorded /\ record[victim].node = target
    BY <2>1, Victim
  <2>3. victim \in tracked[target] /\ victim # NoActor
    BY <1>i, <1>t, <2>1, <2>2 DEF RecordedIsTracked
  <2>4. R!Recorded' = R!Recorded
    BY <2>1, RecordSame
  <2>5. BeatInv'
    BY <1>b, <1>i, <1>m, <1>t, <2>k, <2>1 DEF Kept, Relied
  <2>6. \A b \in Actor : job'[b] = IF b = victim THEN "evicting" ELSE job[b]
    BY <1>t, <2>1, <2>3
  <2>7. Clear'
    BY <1>i, <1>n, <1>t, <2>1, <2>4, <2>6 DEF Clear, NoOrphan, W!Running
  <2>8. QED
    BY <2>5, <2>7
<1>12. ASSUME NEW s \in Session, EvictRefused(s) PROVE Clear' /\ BeatInv'
  BY <1>12, <1>y DEF EvictRefused
<1>13. ASSUME NEW s \in Session, EvictReturns(s) PROVE Clear' /\ BeatInv'
  <2>k. Kept
    BY <1>13, RecordsAreKept DEF EvictReturns, W!Reply
  <2>1. /\ awaited' = NoActor /\ awaited # NoActor /\ job[awaited] = "evicted"
        /\ job' = [job EXCEPT ![awaited] = "none"] /\ pc[s] = "evicting"
        /\ R!Forget({victim}) /\ UNCHANGED <<ctr, placement, beat, queue>>
    BY <1>13 DEF EvictReturns, R!EvictMakesRoom, R!EvictReturns, R!FreeVictim, W!Reply
  <2>2. awaited = victim
    BY <1>i, <2>1, Facts DEF CallInv
  <2>3. R!Recorded' = R!Recorded \ {victim}
    BY <2>1, RecordForgets
  <2>4. BeatInv'
    BY <1>b, <1>m, <1>t, <2>k, <2>1, <2>2, <2>3 DEF Relied
  <2>5. \A b \in Actor : job'[b] = IF b = awaited THEN "none" ELSE job[b]
    BY <1>t, <2>1
  <2>6. Clear'
    BY <1>i, <1>n, <1>t, <2>1, <2>2, <2>3, <2>5 DEF Clear, NoOrphan, W!Running
  <2>7. QED
    BY <2>4, <2>6
<1>14. ASSUME NEW s \in Session, EvictRaises(s) PROVE Clear' /\ BeatInv'
  <2>1. awaited # NoActor /\ job[awaited] = "none"
    BY <1>14 DEF EvictRaises
  <2>2. QED
    BY <1>i, <2>1
<1>15. ASSUME NEW n \in Node, SendHeartbeat(n) PROVE Clear' /\ BeatInv'
  <2>k. Kept
    BY <1>15, RecordsAreKept DEF SendHeartbeat, wmVars
  <2>1. PICK p \in W!Payloads(n) : beat' = [beat EXCEPT ![n] = p]
    BY <1>15 DEF SendHeartbeat
  <2>2. /\ beat[n] = NoBeat /\ ~Waits(n) /\ Enqueue(n)
        /\ UNCHANGED <<ctr, job, awaited, record, placement>>
    BY <1>15, <1>t DEF SendHeartbeat, routerVars, wmVars
  <2>3. p.alive = tracked[n] /\ R!Recorded' = R!Recorded
    BY <1>t, <2>2, PayloadsAreTyped, RecordSame
  <2>4. BeatInv'
    <3> SUFFICES ASSUME NEW b \in Node, NEW a \in R!RecordedOn(b)',
                        beat'[b] # NoBeat, a \notin beat'[b].alive, a # awaited'
                 PROVE  \E t \in Session : placement'[t] = a /\ Ahead(b, t)'
      BY DEF BeatInv
    <3>1. a \in R!RecordedOn(b) /\ a \in R!Recorded /\ record[a].node = b
      BY <2>2 DEF R!RecordedOn, R!Recorded
    <3>2. CASE b = n
      <4>1. beat'[b] = p
        BY <1>t, <2>1, <3>2
      <4>2. a \in tracked[n]
        BY <1>i, <2>2, <3>1, <3>2 DEF RecordedIsTracked
      <4>3. QED
        BY <2>3, <4>1, <4>2
    <3>3. CASE b # n
      <4>1. beat'[b] = beat[b] /\ beat[b] # NoBeat /\ Waits(b)
        BY <1>t, <2>1, <3>3
      <4>2. PICK t \in Session : placement[t] = a /\ Ahead(b, t)
        BY <1>i, <2>2, <3>1, <4>1 DEF BeatInv
      <4>3. Ahead(b, t)'
        BY <1>e, <1>t, <2>2, <4>1, <4>2
      <4>4. QED
        BY <2>2, <4>2, <4>3
    <3>4. QED
      BY <3>2, <3>3
  <2>5. QED
    BY <1>c, <2>k, <2>2, <2>3, <2>4
<1>16. ASSUME NEW n \in Node, Heartbeat(n) PROVE Clear' /\ BeatInv'
  <2>k. Kept
    BY <1>16, RecordsAreKept DEF Heartbeat, wmVars
  <2>1. /\ UNCHANGED <<ctr, job, awaited, placement>> /\ First(n) /\ Dequeue
        /\ beat' = [beat EXCEPT ![n] = NoBeat] /\ lock = NoSession
        /\ R!Forget(R!Dropped(n, beat[n].alive))
    BY <1>16 DEF Heartbeat, R!Heartbeat, R!LockFree, wmVars
  <2>2. awaited = NoActor /\ beat[n] # NoBeat
    <3>1. Waits(n)
      BY <1>i, <2>1, QueueShrinks
    <3>2. QED
      BY <1>i, <1>t, <2>1, <3>1 DEF CallInv
  <2>3. R!Dropped(n, beat[n].alive) = {}
    <3> SUFFICES ASSUME NEW a \in R!Dropped(n, beat[n].alive) PROVE FALSE
      OBVIOUS
    <3>1. /\ a \in R!RecordedOn(n) /\ a \in R!Recorded /\ a \notin beat[n].alive
          /\ record[a].active = 0
      BY DEF R!Dropped, R!RecordedOn
    <3>2. PICK t \in Session : placement[t] = a
      BY <1>i, <1>t, <2>2, <3>1 DEF BeatInv
    <3>3. QED
      BY <3>1, <3>2, Unplaced
  <2>4. R!Recorded' = R!Recorded
    BY <2>1, <2>3, RecordForgets
  <2>5. \A b \in Node : beat'[b] \in {beat[b], NoBeat}
    BY <1>t, <2>1
  <2>6. BeatInv'
    BY <1>b, <1>d, <2>k, <2>1, <2>5 DEF Relied
  <2>7. QED
    BY <1>c, <2>k, <2>1, <2>4, <2>6
<1>17. ASSUME NEW n \in Node, WorkerRestarts(n) PROVE Clear' /\ BeatInv'
  BY <1>17, <1>y DEF WorkerRestarts, W!WorkerRestarts
<1>18. ASSUME NEW a \in Actor, WorkerStep(a) PROVE Clear' /\ BeatInv'
  <2>k. Kept
    BY <1>18, RecordsAreKept
       DEF WorkerStep, W!ContainerRegisters, W!ContainerLoads, W!ContainerDies,
           W!SpawnSeesName, W!SpawnTimesOut, W!EvictStops, linkVars
  <2>1. UNCHANGED <<awaited, record, placement, beat, queue>>
    BY <1>18 DEF WorkerStep, routerVars, linkVars
  <2>2. \/ /\ ctr[a] \in {"booting", "registered"} /\ job' = job
           /\ \E c \in {"registered", "serving"} : ctr' = [ctr EXCEPT ![a] = c]
        \/ job' = job /\ ctr' = [ctr EXCEPT ![a] = "dead"]
        \/ /\ job[a] = "spawning" /\ ctr' = ctr
           /\ job' = [job EXCEPT ![a] = "spawned"]
        \/ /\ job[a] \in {"spawning", "evicting"} /\ ctr' = [ctr EXCEPT ![a] = "removed"]
           /\ \E x \in {"failed", "evicted"} : job' = [job EXCEPT ![a] = x]
    BY <1>18, <1>y
       DEF WorkerStep, W!ContainerRegisters, W!ContainerLoads, W!ContainerDies,
           W!SpawnSeesName, W!SpawnTimesOut, W!EvictStops
  <2>3. R!Recorded' = R!Recorded
    BY <2>1, RecordSame
  <2>4. /\ \A b \in Actor : b \in W!Running' => b \in W!Running
        /\ \A b \in Actor : job'[b] # "none" <=> job[b] # "none"
        /\ \A b \in Actor : job'[b] \in {"failed", "evicted"} =>
               job[b] \in {"failed", "evicted"} \/ b \notin W!Running'
    BY <1>t, <2>2 DEF W!Running
  <2>5. Clear'
    BY <1>i, <1>n, <2>1, <2>3, <2>4 DEF Clear, NoOrphan, W!Running
  <2>6. BeatInv'
    BY <1>b, <1>m, <1>t, <2>k, <2>1 DEF Relied
  <2>7. QED
    BY <2>5, <2>6
<1>19. ASSUME NEW a \in Actor, ReplyLost(a) PROVE Clear' /\ BeatInv'
  <2>1. a # awaited /\ job[a] # "none"
    BY <1>19 DEF ReplyLost, W!Reply, W!Replies
  <2>2. QED
    BY <1>i, <2>1 DEF Clear
<1>20. ASSUME NEW a \in Actor, Age(a) PROVE Clear' /\ BeatInv'
  <2>1. UNCHANGED <<ctr, job, awaited, record, placement, beat>> /\ queue' = queue
    BY <1>20 DEF Age, R!Age, wmVars, linkVars
  <2>2. QED
    BY <1>m, <1>o, <2>1
<1>21. ASSUME ReplaceRouter PROVE Clear' /\ BeatInv'
  BY <1>21, <1>y DEF ReplaceRouter
<1>22. ASSUME UNCHANGED vars PROVE Clear' /\ BeatInv'
  <2>1. UNCHANGED <<ctr, job, awaited, record, placement, beat>> /\ queue' = queue
    BY <1>22 DEF vars, routerVars, wmVars, linkVars
  <2>2. QED
    BY <1>m, <1>o, <2>1
<1>23. QED
  <2>1. Clear' /\ BeatInv'
    BY <1>1, <1>2, <1>3, <1>4, <1>5, <1>6, <1>7, <1>8, <1>9, <1>10, <1>11, <1>12,
       <1>13, <1>14, <1>15, <1>16, <1>17, <1>18, <1>19, <1>20, <1>21, <1>22
       DEF Next, RouterStep
  <2>2. QED
    BY <2>1 DEF Clear

-----------------------------------------------------------------------------
(* The theorems.                                                           *)

LEMMA ControlInit == Init => ControlInv
<1> SUFFICES ASSUME Init PROVE ControlInv
  OBVIOUS
<1>1. R!RouterInv
  BY RouterInit DEF Init
<1>2. R!TypeOK
  BY <1>1 DEF R!RouterInv
<1>3. /\ queue = <<>> /\ beat = [n \in Node |-> NoBeat] /\ awaited = NoActor
      /\ user = [s \in Session |-> NoActor] /\ record = [a \in Actor |-> NoRecord]
      /\ pc = [s \in Session |-> "idle"] /\ tracked = [n \in Node |-> {}]
      /\ ctr = [a \in Actor |-> "unused"] /\ host = [a \in Actor |-> NoNode]
      /\ image = [a \in Actor |-> NoModel] /\ job = [a \in Actor |-> "none"]
      /\ NoActor \notin Actor
  BY RouterConstants DEF Init, R!Init, W!Init
<1>4. /\ queue \in Seq(Session \cup Node) /\ \A v : ~Waits(v)
      /\ \A i, j \in DOMAIN queue : queue[i] = queue[j] => i = j
  BY <1>3 DEF Waits
<1>5. R!Recorded = {} /\ W!Running = {} /\ \A a \in Actor : ~InUse(a)
  BY <1>3 DEF R!Recorded, W!Running, InUse
<1>6. TypeOK
  BY <1>2, <1>3, <1>4 DEF TypeOK, W!CtrState, W!JobState
<1>7. QueueInv /\ NameInv /\ UserInv /\ CallInv
  BY <1>3, <1>4, <1>5 DEF QueueInv, NameInv, UserInv, CallInv
<1>8. TrackInv /\ OrphanInv
  BY <1>3, <1>5
     DEF TrackInv, RecordedIsTracked, OrphanInv, NoOrphan, BeatInv, R!RecordedOn
<1>9. QED
  BY <1>1, <1>6, <1>7, <1>8 DEF ControlInv

LEMMA ControlMoves == ControlInv /\ [Next]_vars => [R!Next]_(R!vars)
BY ControlHasQueue, RouterMoves DEF ControlInv, TypeOK

LEMMA ControlStep == ControlInv /\ [Next]_vars => ControlInv'
<1> SUFFICES ASSUME ControlInv, [Next]_vars PROVE ControlInv'
  OBVIOUS
<1>1. R!RouterInv'
  BY ControlMoves, RouterStays DEF ControlInv
<1>2. QueueInv'
  BY QueuePreserved DEF QueueOK
<1>3. TypeOK' /\ NameInv' /\ UserInv' /\ CallInv' /\ TrackInv' /\ OrphanInv'
  BY TypePreserved, NamePreserved, UserPreserved, CallPreserved, TrackPreserved,
     OrphanPreserved
<1>4. QED
  BY <1>1, <1>2, <1>3 DEF ControlInv

(* The invariant of the router, the worker managers, the heartbeats and    *)
(* the gateways together holds in every reachable state, whatever the      *)
(* sessions, nodes, manifests and failures are.                            *)
THEOREM ControlInvariant == Spec => []ControlInv
BY ControlInit, ControlStep, PTL DEF Spec

(* Every variable of the control plane keeps its type; a heartbeat is      *)
(* under way exactly while its node waits for the router's lock.           *)
THEOREM ControlTypes == Spec => []TypeOK
<1>1. ControlInv => TypeOK
  BY DEF ControlInv
<1>2. QED
  BY <1>1, ControlInvariant, PTL

(* The control plane runs the router that MasterRouter describes: what is  *)
(* proved there of its placements, capacity and evictions holds here.      *)
THEOREM ControlRunsTheRouter == Spec => R!Spec
<1>1. Init => R!Init
  BY DEF Init
<1>2. QED
  BY <1>1, ControlInvariant, ControlMoves, PTL DEF Spec, R!Spec

(* So the control plane as a whole is a session pool to its gateways: the  *)
(* worker managers, the delayed heartbeats and the failures change nothing *)
(* of what SessionPool promises.                                           *)
THEOREM ControlImplementsPool == Spec => R!PoolSpec
<1>1. R!Init => RP!Init
  BY SameInit
<1>2. [R!Next]_(R!vars) => [RP!Next]_(RP!vars)
  BY SameNext DEF R!vars, RP!vars
<1>3. R!Spec => RP!Spec
  BY <1>1, <1>2, PTL DEF R!Spec, RP!Spec
<1>4. RP!Spec => RP!PoolSpec
  BY RouterAssumptions, RP!RouterImplementsPool
<1>5. RP!AbstractPool!Init => R!AbstractPool!Init
  BY DEF RP!AbstractPool!Init, R!AbstractPool!Init, RP!PoolServes, R!PoolServes
<1>6. [RP!AbstractPool!Next]_(RP!AbstractPool!poolVars)
          => [R!AbstractPool!Next]_(R!AbstractPool!poolVars)
  BY SamePoolNext
     DEF RP!AbstractPool!poolVars, R!AbstractPool!poolVars, RP!PoolServes, R!PoolServes
<1>7. RP!PoolSpec => R!PoolSpec
  BY <1>5, <1>6, PTL DEF RP!PoolSpec, R!PoolSpec, RP!AbstractPool!Spec, R!AbstractPool!Spec
<1>8. QED
  BY ControlRunsTheRouter, <1>3, <1>4, <1>7, PTL

(* The router's tables are what its invariant says, calls and heartbeats   *)
(* under way included.                                                     *)
THEOREM ControlKeepsRouterInv == Spec => []R!RouterInv
<1>1. ControlInv => R!RouterInv
  BY DEF ControlInv
<1>2. QED
  BY <1>1, ControlInvariant, PTL

LEMMA UsedIsSpared ==
    ControlInv /\ [Next]_vars =>
        \A a \in Actor : InUse(a) /\ a \in W!Running =>
            job[a] # "evicting" /\ ctr'[a] # "removed"
<1> SUFFICES ASSUME ControlInv, [Next]_vars, NEW b \in Actor, InUse(b), b \in W!Running
             PROVE  job[b] # "evicting" /\ ctr'[b] # "removed"
  OBVIOUS
<1>u. /\ job[b] \notin {"spawning", "evicting"} /\ ctr[b] # "removed" /\ ctr[b] # "unused"
      /\ ctr \in [Actor -> W!CtrState]
  BY Tables DEF ControlInv, CallInv, W!Running
<1>s. ASSUME ctr' = ctr PROVE ctr'[b] # "removed"
  BY <1>s, <1>u
<1>1. ASSUME NEW s \in Session, NEW a \in Actor, CallSpawn(s, a) PROVE ctr'[b] # "removed"
  BY <1>1, <1>u DEF CallSpawn, W!SpawnRuns
<1>2. ASSUME NEW a \in Actor, WorkerStep(a) PROVE ctr'[b] # "removed"
  <2>1. CASE W!ContainerRegisters(a) \/ W!ContainerLoads(a) \/ W!ContainerDies(a)
    BY <1>u, <2>1 DEF W!ContainerRegisters, W!ContainerLoads, W!ContainerDies
  <2>2. CASE W!SpawnSeesName(a)
    BY <1>s, <2>2 DEF W!SpawnSeesName
  <2>3. CASE W!SpawnTimesOut(a) \/ W!EvictStops(a)
    BY <1>u, <2>3 DEF W!SpawnTimesOut, W!EvictStops
  <2>4. QED
    BY <1>2, <2>1, <2>2, <2>3 DEF WorkerStep
<1>3. ASSUME NEW s \in Session, NEW m \in Model, AcquireSession(s, m) PROVE ctr' = ctr
  BY <1>3 DEF AcquireSession, wmVars
<1>4. ASSUME NEW s \in Session, CallRelease(s) \/ DetachedRelease(s) PROVE ctr' = ctr
  BY <1>4 DEF CallRelease, DetachedRelease, wmVars
<1>5. ASSUME NEW s \in Session, RouterStep(s), ~\E a \in Actor : CallSpawn(s, a)
      PROVE  ctr' = ctr
  <2>1. CASE FetchReturns(s) \/ FetchRaises(s) \/ EnterSection(s) \/ ReleaseSession(s)
    BY <2>1 DEF FetchReturns, FetchRaises, EnterSection, ReleaseSession, wmVars
  <2>2. CASE \E a \in Actor : Reuse(s, a)
    BY <2>2 DEF Reuse, wmVars
  <2>3. CASE SpawnRefused(s) \/ EvictRefused(s) \/ EvictRaises(s)
    BY <2>3 DEF SpawnRefused, EvictRefused, EvictRaises, wmVars
  <2>4. CASE SpawnReturns(s) \/ SpawnRaises(s) \/ EvictReturns(s)
    BY <2>4 DEF SpawnReturns, SpawnRaises, EvictReturns, W!Reply, wmVars
  <2>5. CASE CallEvict(s)
    BY <2>5 DEF CallEvict, W!EvictCall
  <2>6. QED
    BY <1>5, <2>1, <2>2, <2>3, <2>4, <2>5 DEF RouterStep
<1>6. ASSUME NEW n \in Node, SendHeartbeat(n) \/ Heartbeat(n) \/ WorkerRestarts(n)
      PROVE  ctr' = ctr
  BY <1>6 DEF SendHeartbeat, Heartbeat, WorkerRestarts, W!WorkerRestarts, wmVars
<1>7. ASSUME NEW a \in Actor, ReplyLost(a) \/ Age(a) PROVE ctr' = ctr
  BY <1>7 DEF ReplyLost, W!Reply, Age, wmVars
<1>8. CASE ReplaceRouter
  BY <1>8, <1>s, <1>u DEF ReplaceRouter, wmVars
<1>9. CASE UNCHANGED vars
  BY <1>9, <1>s, <1>u DEF vars, wmVars
<1>10. ctr'[b] # "removed"
  BY <1>1, <1>2, <1>3, <1>4, <1>5, <1>6, <1>7, <1>8, <1>9, <1>s DEF Next
<1>11. QED
  BY <1>10, <1>u

(* No worker manager is asked to stop, or stops, an actor a gateway has,   *)
(* whatever fails and restarts.                                            *)
THEOREM UsedNeverStopped == Spec => NeverStopUsed
BY ControlInvariant, UsedIsSpared, PTL DEF Spec, NeverStopUsed

(* As long as no worker manager crashes, an eviction finds the container   *)
(* it is about: what the router has on record is tracked on its node.      *)
THEOREM RecordsAreTracked ==
    ASSUME "wm_crash" \notin Faults
    PROVE  Spec => []RecordedIsTracked
<1>1. ControlInv => RecordedIsTracked
  BY DEF ControlInv, TrackInv
<1>2. QED
  BY <1>1, ControlInvariant, PTL

(* While docker works, no worker manager crashes and the router is not     *)
(* replaced, no container runs on that nobody can reach: containers that   *)
(* die, GPU queries that fail, spawns that time out included.              *)
THEOREM NothingIsOrphaned ==
    ASSUME Tidy
    PROVE  Spec => []NoOrphan
<1>1. ControlInv => NoOrphan
  BY DEF ControlInv, OrphanInv
<1>2. QED
  BY <1>1, ControlInvariant, PTL

=============================================================================
