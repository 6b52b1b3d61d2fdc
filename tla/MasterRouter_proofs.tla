------------------------ MODULE MasterRouter_proofs ------------------------
(***************************************************************************)
(* Proofs about MasterRouter for every value of its constants.             *)
(*                                                                         *)
(* RouterInv is inductive; the safety properties of MasterRouter follow    *)
(* from it, and with it every step of the router maps to a step of         *)
(* SessionPool or to a stutter.                                            *)
(***************************************************************************)
EXTENDS MasterRouter, FiniteSetTheorems, TLAPS

-----------------------------------------------------------------------------
(* The sessions placed on an actor.                                        *)

(* A session without a placement that is given one on a adds one to the    *)
(* sessions of a and changes those of no other actor.                      *)
LEMMA PlacingCounts ==
    ASSUME TypeOK, NEW s \in Session, NEW a \in Actor,
           placement[s] = NoActor,
           placement' = [placement EXCEPT ![s] = a]
    PROVE  /\ Cardinality(PlacedOn(a)') = Cardinality(PlacedOn(a)) + 1
           /\ \A b \in Actor \ {a} : PlacedOn(b)' = PlacedOn(b)
<1>1. IsFiniteSet(PlacedOn(a))
  BY FS_Subset, SessionsFinite DEF PlacedOn
<1>2. PlacedOn(a)' = PlacedOn(a) \cup {s} /\ s \notin PlacedOn(a)
  BY NullValues DEF PlacedOn, TypeOK
<1>3. \A b \in Actor \ {a} : PlacedOn(b)' = PlacedOn(b)
  BY NullValues DEF PlacedOn, TypeOK
<1>4. QED
  BY <1>1, <1>2, <1>3, FS_AddElement

(* A session that leaves a takes one from the sessions of a.               *)
LEMMA LeavingCounts ==
    ASSUME TypeOK, NEW s \in Session, NEW a \in Actor,
           placement[s] = a,
           placement' = [placement EXCEPT ![s] = NoActor]
    PROVE  /\ Cardinality(PlacedOn(a)') = Cardinality(PlacedOn(a)) - 1
           /\ Cardinality(PlacedOn(a)) >= 1
           /\ \A b \in Actor \ {a} : PlacedOn(b)' = PlacedOn(b)
<1>1. IsFiniteSet(PlacedOn(a))
  BY FS_Subset, SessionsFinite DEF PlacedOn
<1>2. PlacedOn(a)' = PlacedOn(a) \ {s} /\ s \in PlacedOn(a)
  BY NullValues DEF PlacedOn, TypeOK
<1>3. \A b \in Actor \ {a} : PlacedOn(b)' = PlacedOn(b)
  BY NullValues DEF PlacedOn, TypeOK
<1>4. Cardinality(PlacedOn(a)') = Cardinality(PlacedOn(a)) - 1
  BY <1>1, <1>2, FS_RemoveElement
<1>5. Cardinality(PlacedOn(a)) \in Nat /\ Cardinality(PlacedOn(a)) # 0
  BY <1>1, <1>2, FS_CardinalityType, FS_EmptySet
<1>6. QED
  BY <1>3, <1>4, <1>5

(* An actor whose counter is zero has no session.                          *)
LEMMA ZeroMeansEmpty ==
    ASSUME SessionAccounting, NEW a \in Recorded, record[a].active = 0
    PROVE  PlacedOn(a) = {}
<1>1. IsFiniteSet(PlacedOn(a))
  BY FS_Subset, SessionsFinite DEF PlacedOn
<1>2. Cardinality(PlacedOn(a)) = 0
  BY DEF SessionAccounting
<1>3. QED
  BY <1>1, <1>2, FS_EmptySet

-----------------------------------------------------------------------------
(* Types and control.                                                      *)

LEMMA TypePreserved == RouterInv /\ [Next]_vars => TypeOK'
<1> SUFFICES ASSUME RouterInv, [Next]_vars PROVE TypeOK'
  OBVIOUS
<1> USE NullValues, ManifestValues, ReadingValues
    DEF RouterInv, TypeOK, Point, ActorRecord, CallsNameModels, Pending, LockHolder,
        SectionInv, nodeTables, actorTables, locals, Recorded, Fails, Unlock, Touch,
        Forget
<1>1. ASSUME NEW s \in Session, NEW m \in Model, AcquireSession(s, m) PROVE TypeOK'
  BY <1>1 DEF AcquireSession
<1>2. ASSUME NEW s \in Session, FetchReturns(s) PROVE TypeOK'
  BY <1>2 DEF FetchReturns
<1>3. ASSUME NEW s \in Session, FetchRaises(s) PROVE TypeOK'
  BY <1>3 DEF FetchRaises
<1>4. ASSUME NEW s \in Session, NEW a \in Actor, Reuse(s, a) PROVE TypeOK'
  BY <1>4 DEF Reuse, Reusable
<1>5. ASSUME NEW s \in Session, NEW n \in Node, BeginSpawn(s, n) PROVE TypeOK'
  BY <1>5 DEF BeginSpawn
<1>6. ASSUME NEW s \in Session, NEW n \in Node, NEW v \in Actor, BeginEvict(s, n, v)
      PROVE TypeOK'
  BY <1>6 DEF BeginEvict
<1>7. ASSUME NEW s \in Session, NoRoom(s) PROVE TypeOK'
  BY <1>7 DEF NoRoom
<1>8. ASSUME NEW s \in Session, EvictMakesRoom(s) PROVE TypeOK'
  BY <1>8 DEF EvictMakesRoom, FreeVictim, Idle, RecordedOn
<1>9. ASSUME NEW s \in Session, EvictReturns(s) PROVE TypeOK'
  BY <1>9 DEF EvictReturns, FreeVictim, Idle, RecordedOn, NextVictim, SweepEnds,
              SweepNodes
<1>10. ASSUME NEW s \in Session, EvictRaises(s) PROVE TypeOK'
  BY <1>10 DEF EvictRaises, NextVictim, SweepEnds, SweepNodes, Idle, RecordedOn
<1>11. ASSUME NEW s \in Session, EvictLookupRaises(s) PROVE TypeOK'
  BY <1>11 DEF EvictLookupRaises
<1>12. ASSUME NEW s \in Session, NEW a \in Actor, SpawnReturns(s, a) PROVE TypeOK'
  BY <1>12 DEF SpawnReturns
<1>13. ASSUME NEW s \in Session, SpawnRaises(s) PROVE TypeOK'
  BY <1>13 DEF SpawnRaises
<1>14. ASSUME NEW s \in Session, ReleaseSession(s) PROVE TypeOK'
  BY <1>14 DEF ReleaseSession
<1>15. ASSUME NEW s \in Session, DetachedRelease(s) PROVE TypeOK'
  BY <1>15 DEF DetachedRelease
<1>16. ASSUME NEW n \in Node, NEW r \in Reading, NEW alive \in SUBSET RecordedOn(n),
              Heartbeat(n, r, alive)
       PROVE TypeOK'
  BY <1>16 DEF Heartbeat
<1>17. ASSUME NEW a \in Actor, Age(a) PROVE TypeOK'
  BY <1>17 DEF Age
<1>18. CASE ReplaceRouter
  BY <1>18 DEF ReplaceRouter
<1>19. CASE UNCHANGED vars
  BY <1>19 DEF vars
<1>20. QED
  BY <1>1, <1>2, <1>3, <1>4, <1>5, <1>6, <1>7, <1>8, <1>9, <1>10, <1>11, <1>12,
     <1>13, <1>14, <1>15, <1>16, <1>17, <1>18, <1>19
     DEF Next, FetchAnswers, Enter, EvictAnswers, SpawnAnswers

LEMMA ControlPreserved ==
    RouterInv /\ [Next]_vars => LockHolder' /\ CallsNameModels' /\ PlacedAreHeld'
<1> DEFINE Goal == LockHolder' /\ CallsNameModels' /\ PlacedAreHeld'
<1> SUFFICES ASSUME RouterInv, [Next]_vars PROVE Goal
  OBVIOUS
<1> USE NullValues
    DEF RouterInv, TypeOK, Point, CallsNameModels, Pending, LockHolder, PlacedAreHeld,
        locals, Fails, Unlock, LockFree
<1>1. ASSUME NEW s \in Session, NEW m \in Model, AcquireSession(s, m) PROVE Goal
  BY <1>1 DEF AcquireSession
<1>2. ASSUME NEW s \in Session, FetchReturns(s) PROVE Goal
  BY <1>2 DEF FetchReturns
<1>3. ASSUME NEW s \in Session, FetchRaises(s) PROVE Goal
  BY <1>3 DEF FetchRaises
<1>4. ASSUME NEW s \in Session, NEW a \in Actor, Reuse(s, a) PROVE Goal
  BY <1>4 DEF Reuse
<1>5. ASSUME NEW s \in Session, NEW n \in Node, BeginSpawn(s, n) PROVE Goal
  BY <1>5 DEF BeginSpawn
<1>6. ASSUME NEW s \in Session, NEW n \in Node, NEW v \in Actor,
              BeginEvict(s, n, v)
       PROVE  Goal
  BY <1>6 DEF BeginEvict
<1>7. ASSUME NEW s \in Session, NoRoom(s) PROVE Goal
  BY <1>7 DEF NoRoom
<1>8. ASSUME NEW s \in Session, EvictMakesRoom(s) PROVE Goal
  BY <1>8 DEF EvictMakesRoom
<1>9. ASSUME NEW s \in Session, EvictReturns(s) PROVE Goal
  BY <1>9 DEF EvictReturns, NextVictim, SweepEnds
<1>10. ASSUME NEW s \in Session, EvictRaises(s) PROVE Goal
  BY <1>10 DEF EvictRaises, NextVictim, SweepEnds
<1>11. ASSUME NEW s \in Session, EvictLookupRaises(s) PROVE Goal
  BY <1>11 DEF EvictLookupRaises
<1>12. ASSUME NEW s \in Session, NEW a \in Actor, SpawnReturns(s, a) PROVE Goal
  BY <1>12 DEF SpawnReturns
<1>13. ASSUME NEW s \in Session, SpawnRaises(s) PROVE Goal
  BY <1>13 DEF SpawnRaises
<1>14. ASSUME NEW s \in Session, ReleaseSession(s) PROVE Goal
  BY <1>14 DEF ReleaseSession
<1>15. ASSUME NEW s \in Session, DetachedRelease(s) PROVE Goal
  BY <1>15 DEF DetachedRelease
<1>16. ASSUME NEW n \in Node, NEW r \in Reading, NEW alive \in SUBSET RecordedOn(n),
              Heartbeat(n, r, alive)
       PROVE  Goal
  BY <1>16 DEF Heartbeat
<1>17. ASSUME NEW a \in Actor, Age(a) PROVE Goal
  BY <1>17 DEF Age
<1>18. CASE ReplaceRouter
  BY <1>18 DEF ReplaceRouter
<1>19. CASE UNCHANGED vars
  BY <1>19 DEF vars
<1>20. QED
  BY <1>1, <1>2, <1>3, <1>4, <1>5, <1>6, <1>7, <1>8, <1>9, <1>10,
     <1>11, <1>12, <1>13, <1>14, <1>15, <1>16, <1>17, <1>18, <1>19
     DEF Next, FetchAnswers, Enter, EvictAnswers, SpawnAnswers


-----------------------------------------------------------------------------
(* Placements and counters.                                                *)

(* While an eviction is awaited the victim has a record and no session.    *)
LEMMA VictimIsEmpty ==
    ASSUME RouterInv, NEW s \in Session, pc[s] = "evicting"
    PROVE  /\ victim \in Recorded
           /\ PlacedOn(victim) = {}
           /\ target \in Node
<1>1. lock = s /\ lock # NoSession /\ target \in Node /\ victim \in Idle(target)
  BY NullValues DEF RouterInv, LockHolder, SectionInv
<1>2. victim \in Recorded /\ record[victim].active = 0
  BY <1>1 DEF Idle, RecordedOn
<1>3. QED
  BY <1>1, <1>2, ZeroMeansEmpty DEF RouterInv

LEMMA PlacementPreserved ==
    RouterInv /\ [Next]_vars =>
        HeldIsPlaced' /\ SessionAccounting' /\ ActiveWithinCapacity'
<1> DEFINE Goal == HeldIsPlaced' /\ SessionAccounting' /\ ActiveWithinCapacity'
           SameHeld == \A x \in Session :
                            pc'[x] = "held" => pc[x] = "held" /\ want'[x] = want[x]
<1> SUFFICES ASSUME RouterInv, [Next]_vars PROVE Goal
  OBVIOUS
<1> USE NullValues, ManifestValues
    DEF RouterInv, TypeOK, Point, actorTables
<1>a. ASSUME record' = record, placement' = placement, SameHeld PROVE Goal
  BY <1>a DEF HeldIsPlaced, SessionAccounting, ActiveWithinCapacity, Recorded, PlacedOn
<1>b. ASSUME NEW A \in SUBSET Recorded, \A a \in A : PlacedOn(a) = {},
             Forget(A), placement' = placement, SameHeld
      PROVE  Goal
  BY <1>b DEF HeldIsPlaced, SessionAccounting, ActiveWithinCapacity, Recorded,
              PlacedOn, Forget
<1>1. ASSUME NEW s \in Session, NEW m \in Model, AcquireSession(s, m) PROVE Goal
  BY <1>1, <1>a DEF AcquireSession, Fails, NextVictim, SweepEnds, LockHolder
<1>2. ASSUME NEW s \in Session, FetchReturns(s) PROVE Goal
  BY <1>2, <1>a DEF FetchReturns, Fails, NextVictim, SweepEnds, LockHolder
<1>3. ASSUME NEW s \in Session, FetchRaises(s) PROVE Goal
  BY <1>3, <1>a DEF FetchRaises, Fails, NextVictim, SweepEnds, LockHolder
<1>4. ASSUME NEW s \in Session, NEW a \in Actor, Reuse(s, a) PROVE Goal
  <2>1. placement[s] = NoActor /\ a \in Recorded
    BY <1>4 DEF Reuse, Reusable, PlacedAreHeld
  <2>2. /\ Cardinality(PlacedOn(a)') = Cardinality(PlacedOn(a)) + 1
        /\ \A b \in Actor \ {a} : PlacedOn(b)' = PlacedOn(b)
    BY <1>4, <2>1, PlacingCounts DEF Reuse
  <2>3. SessionAccounting'
    BY <1>4, <2>1, <2>2 DEF Reuse, Recorded, SessionAccounting, ActorRecord
  <2>4. HeldIsPlaced'
    BY <1>4, <2>1 DEF Reuse, Reusable, HeldIsPlaced, Recorded, ActorRecord
  <2>5. ActiveWithinCapacity'
    BY <1>4, <2>1 DEF Reuse, Reusable, ActiveWithinCapacity, Capacity, Recorded,
                     ActorRecord
  <2>6. QED
    BY <2>3, <2>4, <2>5
<1>5. ASSUME NEW s \in Session, NEW n \in Node, BeginSpawn(s, n) PROVE Goal
  BY <1>5, <1>a DEF BeginSpawn, Fails, NextVictim, SweepEnds, LockHolder
<1>6. ASSUME NEW s \in Session, NEW n \in Node, NEW v \in Actor,
              BeginEvict(s, n, v)
       PROVE  Goal
  BY <1>6, <1>a DEF BeginEvict, Fails, NextVictim, SweepEnds, LockHolder
<1>7. ASSUME NEW s \in Session, NoRoom(s) PROVE Goal
  BY <1>7, <1>a DEF NoRoom, Fails, NextVictim, SweepEnds, LockHolder
<1>8. ASSUME NEW s \in Session, EvictMakesRoom(s) PROVE Goal
  <2>1. victim \in Recorded /\ PlacedOn(victim) = {}
    BY <1>8, VictimIsEmpty DEF EvictMakesRoom
  <2>2. \A x \in Session : pc'[x] = "held" => pc[x] = "held" /\ want'[x] = want[x]
    BY <1>8 DEF EvictMakesRoom, NextVictim, SweepEnds, Fails
  <2>3. QED
    BY <1>8, <2>1, <2>2, <1>b DEF EvictMakesRoom, FreeVictim
<1>9. ASSUME NEW s \in Session, EvictReturns(s) PROVE Goal
  <2>1. victim \in Recorded /\ PlacedOn(victim) = {}
    BY <1>9, VictimIsEmpty DEF EvictReturns
  <2>2. \A x \in Session : pc'[x] = "held" => pc[x] = "held" /\ want'[x] = want[x]
    BY <1>9 DEF EvictReturns, NextVictim, SweepEnds, Fails
  <2>3. QED
    BY <1>9, <2>1, <2>2, <1>b DEF EvictReturns, FreeVictim
<1>10. ASSUME NEW s \in Session, EvictRaises(s) PROVE Goal
  BY <1>10, <1>a DEF EvictRaises, Fails, NextVictim, SweepEnds, LockHolder
<1>11. ASSUME NEW s \in Session, EvictLookupRaises(s) PROVE Goal
  BY <1>11, <1>a DEF EvictLookupRaises, Fails, NextVictim, SweepEnds, LockHolder
<1>12. ASSUME NEW s \in Session, NEW a \in Actor, SpawnReturns(s, a) PROVE Goal
  <2>1. placement[s] = NoActor /\ want[s] \in Model
    BY <1>12 DEF SpawnReturns, PlacedAreHeld, CallsNameModels, Pending
  <2>2. PlacedOn(a) = {}
    BY <1>12 DEF SpawnReturns, HeldIsPlaced, PlacedAreHeld, PlacedOn, Recorded
  <2>3. /\ Cardinality(PlacedOn(a)') = 1
        /\ \A b \in Actor \ {a} : PlacedOn(b)' = PlacedOn(b)
    <3>1. Cardinality(PlacedOn(a)) = 0
      BY <2>2, FS_EmptySet
    <3>2. /\ Cardinality(PlacedOn(a)') = Cardinality(PlacedOn(a)) + 1
          /\ \A b \in Actor \ {a} : PlacedOn(b)' = PlacedOn(b)
      BY <1>12, <2>1, PlacingCounts DEF SpawnReturns
    <3>3. QED
      BY <3>1, <3>2
  <2>4. target \in Node
    BY <1>12 DEF SpawnReturns, LockHolder, SectionInv
  <2>5. SessionAccounting'
    BY <1>12, <2>1, <2>3, <2>4 DEF SpawnReturns, Recorded, SessionAccounting, ActorRecord
  <2>6. HeldIsPlaced'
    BY <1>12, <2>1, <2>4 DEF SpawnReturns, HeldIsPlaced, Recorded, ActorRecord
  <2>7. ActiveWithinCapacity'
    BY <1>12, <2>1, <2>4 DEF SpawnReturns, ActiveWithinCapacity, Capacity, Recorded,
                           ActorRecord
  <2>8. QED
    BY <2>5, <2>6, <2>7
<1>13. ASSUME NEW s \in Session, SpawnRaises(s) PROVE Goal
  BY <1>13, <1>a DEF SpawnRaises, Fails, NextVictim, SweepEnds, LockHolder
<1>14. ASSUME NEW s \in Session, ReleaseSession(s) PROVE Goal
  <2>1. placement[s] \in Recorded
    BY <1>14 DEF ReleaseSession, HeldIsPlaced
  <2>2. PICK a \in Recorded : a = placement[s]
    BY <2>1
  <2>3. /\ Cardinality(PlacedOn(a)') = Cardinality(PlacedOn(a)) - 1
        /\ Cardinality(PlacedOn(a)) >= 1
        /\ \A b \in Actor \ {a} : PlacedOn(b)' = PlacedOn(b)
    BY <1>14, <2>2, LeavingCounts DEF ReleaseSession, Recorded
  <2>4. SessionAccounting'
    BY <1>14, <2>2, <2>3 DEF ReleaseSession, Recorded, SessionAccounting, ActorRecord
  <2>5. HeldIsPlaced'
    BY <1>14, <2>2 DEF ReleaseSession, HeldIsPlaced, Recorded, ActorRecord
  <2>6. ActiveWithinCapacity'
    BY <1>14, <2>2 DEF ReleaseSession, ActiveWithinCapacity, Capacity, Recorded,
                     ActorRecord
  <2>7. QED
    BY <2>4, <2>5, <2>6
<1>15. ASSUME NEW s \in Session, DetachedRelease(s) PROVE Goal
  BY <1>15, <1>a DEF DetachedRelease, Fails, NextVictim, SweepEnds, LockHolder
<1>16. ASSUME NEW n \in Node, NEW r \in Reading, NEW alive \in SUBSET RecordedOn(n),
              Heartbeat(n, r, alive)
       PROVE  Goal
  <2>1. \A a \in Dropped(n, alive) : a \in Recorded /\ PlacedOn(a) = {}
    BY ZeroMeansEmpty DEF Dropped, RecordedOn
  <2>2. QED
    BY <1>16, <2>1, <1>b DEF Heartbeat, Dropped, RecordedOn, Recorded
<1>17. ASSUME NEW a \in Actor, Age(a) PROVE Goal
  BY <1>17, <1>a DEF Age, Fails, NextVictim, SweepEnds, LockHolder
<1>18. CASE ReplaceRouter
  BY <1>18 DEF ReplaceRouter, Forget, HeldIsPlaced, SessionAccounting,
                ActiveWithinCapacity, Recorded
<1>19. CASE UNCHANGED vars
  BY <1>19, <1>a DEF vars
<1>20. QED
  BY <1>1, <1>2, <1>3, <1>4, <1>5, <1>6, <1>7, <1>8, <1>9, <1>10,
     <1>11, <1>12, <1>13, <1>14, <1>15, <1>16, <1>17, <1>18, <1>19
     DEF Next, FetchAnswers, Enter, EvictAnswers, SpawnAnswers


-----------------------------------------------------------------------------
(* The section under the lock.                                             *)

LEMMA SectionPreserved == RouterInv /\ [Next]_vars => SectionInv'
<1> DEFINE Goal == SectionInv'
<1> SUFFICES ASSUME RouterInv, [Next]_vars PROVE Goal
  OBVIOUS
<1> USE NullValues, ManifestValues
    DEF RouterInv, TypeOK, Point, LockHolder, SectionInv, nodeTables, actorTables,
        locals
(* A step outside the section leaves what the section relies on alone.     *)
<1>a. ASSUME UNCHANGED <<vramTotal, vramUsed, record, lock, locals>>,
             lock # NoSession => pc'[lock] = pc[lock] /\ want'[lock] = want[lock]
      PROVE  Goal
  BY <1>a DEF Reusable, Recorded, Idle, RecordedOn, Fits, Free
<1>1. ASSUME NEW s \in Session, NEW m \in Model, AcquireSession(s, m) PROVE Goal
  BY <1>1, <1>a DEF AcquireSession, Fails, LockFree
<1>2. ASSUME NEW s \in Session, FetchReturns(s) PROVE Goal
  BY <1>2, <1>a DEF FetchReturns, Fails, LockFree
<1>3. ASSUME NEW s \in Session, FetchRaises(s) PROVE Goal
  BY <1>3, <1>a DEF FetchRaises, Fails, LockFree
<1>4. ASSUME NEW s \in Session, NEW a \in Actor, Reuse(s, a) PROVE Goal
  BY <1>4 DEF Reuse, LockFree
<1>5. ASSUME NEW s \in Session, NEW n \in Node, BeginSpawn(s, n) PROVE Goal
  BY <1>5 DEF BeginSpawn, BestNode, Candidates, Fits, Free, Reusable, Recorded
<1>6. ASSUME NEW s \in Session, NEW n \in Node, NEW v \in Actor,
              BeginEvict(s, n, v)
       PROVE  Goal
  BY <1>6 DEF BeginEvict, Oldest, Idle, RecordedOn, Reusable, Recorded
<1>7. ASSUME NEW s \in Session, NoRoom(s) PROVE Goal
  BY <1>7 DEF NoRoom, LockFree, Fails
<1>8. ASSUME NEW s \in Session, EvictMakesRoom(s) PROVE Goal
  <2>1. lock = s /\ target \in Node /\ Reusable(want[s]) = {}
    BY <1>8 DEF EvictMakesRoom
  <2>2. Reusable(want[s])' = {}
    BY <1>8, <2>1 DEF EvictMakesRoom, FreeVictim, Forget, Reusable, Recorded
  <2>3. Fits(target, want[s])'
    BY <1>8, <2>1 DEF EvictMakesRoom, MadeRoom, Fits, Free
  <2>4. QED
    BY <1>8, <2>1, <2>2, <2>3 DEF EvictMakesRoom
<1>9. ASSUME NEW s \in Session, EvictReturns(s) PROVE Goal
  <2>1. /\ lock = s /\ target \in Node /\ Reusable(want[s]) = {}
        /\ victim \in Recorded
    BY <1>9, VictimIsEmpty DEF EvictReturns
  <2>2. CASE NextVictim(s, tried \cup {victim})
    <3>1. Reusable(want[s])' = {}
      BY <1>9, <2>1, <2>2 DEF EvictReturns, FreeVictim, Forget, NextVictim, Reusable,
                               Recorded
    <3>2. PICK n \in SweepNodes(tried \cup {victim}), v \in Actor :
            /\ v \in Idle(n) /\ v # victim
            /\ target' = n /\ victim' = v
      BY <2>2 DEF NextVictim, Oldest, Remaining
    <3>3. n \in Node
      BY <2>1, <3>2 DEF SweepNodes
    <3>4. v \in Idle(n)'
      BY <1>9, <3>2 DEF EvictReturns, FreeVictim, Forget, Idle, RecordedOn, Recorded
    <3>5. QED
      BY <1>9, <2>1, <2>2, <3>1, <3>2, <3>3, <3>4 DEF EvictReturns, NextVictim
  <2>3. CASE SweepEnds(s, tried \cup {victim})
    BY <2>3 DEF SweepEnds, Unlock
  <2>4. QED
    BY <1>9, <2>2, <2>3 DEF EvictReturns
<1>10. ASSUME NEW s \in Session, EvictRaises(s) PROVE Goal
  <2>1. lock = s /\ target \in Node /\ Reusable(want[s]) = {}
    BY <1>10 DEF EvictRaises
  <2>2. CASE NextVictim(s, tried \cup {victim})
    <3>1. Reusable(want[s])' = {}
      BY <1>10, <2>1, <2>2 DEF EvictRaises, NextVictim, Reusable, Recorded
    <3>2. PICK n \in SweepNodes(tried \cup {victim}), v \in Actor :
            v \in Idle(n) /\ target' = n /\ victim' = v
      BY <2>2 DEF NextVictim, Oldest, Remaining
    <3>3. n \in Node
      BY <2>1, <3>2 DEF SweepNodes
    <3>4. v \in Idle(n)'
      BY <1>10, <3>2 DEF EvictRaises, Idle, RecordedOn, Recorded
    <3>5. QED
      BY <1>10, <2>1, <2>2, <3>1, <3>2, <3>3, <3>4 DEF EvictRaises, NextVictim
  <2>3. CASE SweepEnds(s, tried \cup {victim})
    BY <2>3 DEF SweepEnds, Unlock
  <2>4. QED
    BY <1>10, <2>2, <2>3 DEF EvictRaises
<1>11. ASSUME NEW s \in Session, EvictLookupRaises(s) PROVE Goal
  BY <1>11 DEF EvictLookupRaises, Unlock
<1>12. ASSUME NEW s \in Session, NEW a \in Actor, SpawnReturns(s, a) PROVE Goal
  BY <1>12 DEF SpawnReturns, Unlock
<1>13. ASSUME NEW s \in Session, SpawnRaises(s) PROVE Goal
  BY <1>13 DEF SpawnRaises, Unlock
<1>14. ASSUME NEW s \in Session, ReleaseSession(s) PROVE Goal
  BY <1>14 DEF ReleaseSession, LockFree
<1>15. ASSUME NEW s \in Session, DetachedRelease(s) PROVE Goal
  BY <1>15, <1>a DEF DetachedRelease, Fails, LockFree
<1>16. ASSUME NEW n \in Node, NEW r \in Reading, NEW alive \in SUBSET RecordedOn(n),
              Heartbeat(n, r, alive)
       PROVE  Goal
  BY <1>16 DEF Heartbeat, LockFree
<1>17. ASSUME NEW a \in Actor, Age(a) PROVE Goal
  BY <1>17, <1>a DEF Age, Fails, LockFree
<1>18. CASE ReplaceRouter
  BY <1>18 DEF ReplaceRouter, Unlock
<1>19. CASE UNCHANGED vars
  BY <1>19, <1>a DEF vars
<1>20. QED
  BY <1>1, <1>2, <1>3, <1>4, <1>5, <1>6, <1>7, <1>8, <1>9, <1>10,
     <1>11, <1>12, <1>13, <1>14, <1>15, <1>16, <1>17, <1>18, <1>19
     DEF Next, FetchAnswers, Enter, EvictAnswers, SpawnAnswers

-----------------------------------------------------------------------------
(* The inductive invariant and what follows from it.                       *)

LEMMA InitRouterInv == Init => RouterInv
BY NullValues, FS_EmptySet
   DEF Init, RouterInv, TypeOK, Point, Pending, ActorRecord, LockHolder,
       CallsNameModels, PlacedAreHeld, HeldIsPlaced, SessionAccounting,
       ActiveWithinCapacity, SectionInv, Recorded

LEMMA RouterInvPreserved == RouterInv /\ [Next]_vars => RouterInv'
BY TypePreserved, ControlPreserved, PlacementPreserved, SectionPreserved
   DEF RouterInv

(* The invariant of the router's tables, the lock and the calls holds in   *)
(* every reachable state, whatever the sessions, nodes, actors, manifests  *)
(* and GPU readings are.                                                   *)
THEOREM RouterInvariant == Spec => []RouterInv
BY InitRouterInv, RouterInvPreserved, PTL DEF Spec

(* Every variable of the router keeps its type.                            *)
THEOREM RouterTypes == Spec => []TypeOK
<1>1. RouterInv => TypeOK
  BY DEF RouterInv
<1>2. QED
  BY <1>1, RouterInvariant, PTL

(* active_sessions of every record counts the sessions placed on it.       *)
THEOREM RouterAccounting == Spec => []SessionAccounting
<1>1. RouterInv => SessionAccounting
  BY DEF RouterInv
<1>2. QED
  BY <1>1, RouterInvariant, PTL

(* release_session finds the placement and the record of a held session.   *)
THEOREM RouterHeldIsPlaced == Spec => []HeldIsPlaced
<1>1. RouterInv => HeldIsPlaced
  BY DEF RouterInv
<1>2. QED
  BY <1>1, RouterInvariant, PTL

(* No actor is given more sessions than it admits.                         *)
THEOREM RouterCapacity == Spec => []CapacityRespected
<1>1. RouterInv => CapacityRespected
  BY DEF RouterInv, SessionAccounting, ActiveWithinCapacity, CapacityRespected
<1>2. QED
  BY <1>1, RouterInvariant, PTL

(* No session is placed on an actor whose eviction is awaited.             *)
THEOREM RouterEvictsIdle == Spec => []EvictOnlyIdle
<1>1. RouterInv => EvictOnlyIdle
  <2> SUFFICES ASSUME RouterInv, lock # NoSession, pc[lock] = "evicting"
               PROVE  victim \in Idle(target) /\ PlacedOn(victim) = {}
    BY DEF EvictOnlyIdle
  <2>1. lock \in Session /\ victim \in Idle(target)
    BY DEF RouterInv, TypeOK, SectionInv
  <2>2. QED
    BY <2>1, VictimIsEmpty
<1>2. QED
  BY <1>1, RouterInvariant, PTL

(* While an eviction is awaited nothing touches last_used or adds an idle  *)
(* actor, and the sweep takes the next one in order.                       *)
LEMMA LeastRecentPreserved ==
    RouterInv /\ EvictLeastRecent /\ [Next]_vars => EvictLeastRecent'
<1> DEFINE Goal == EvictLeastRecent'
<1> SUFFICES ASSUME RouterInv, EvictLeastRecent, [Next]_vars PROVE Goal
  OBVIOUS
<1> USE NullValues DEF RouterInv, TypeOK, LockHolder, EvictLeastRecent
<1>a. ASSUME UNCHANGED <<lock, target, victim, tried, record, older>>,
             \A s \in Session : pc'[s] = "evicting" => pc[s] = "evicting"
      PROVE  Goal
  BY <1>a DEF Idle, RecordedOn, Recorded
<1>b. ASSUME lock' = NoSession PROVE Goal
  BY <1>b
<1>1. ASSUME NEW s \in Session, NEW m \in Model, AcquireSession(s, m) PROVE Goal
  BY <1>1, <1>a DEF AcquireSession, actorTables, locals
<1>2. ASSUME NEW s \in Session, FetchReturns(s) PROVE Goal
  BY <1>2, <1>a DEF FetchReturns, actorTables, locals
<1>3. ASSUME NEW s \in Session, FetchRaises(s) PROVE Goal
  BY <1>3, <1>a DEF FetchRaises, Fails, actorTables, locals
<1>4. ASSUME NEW s \in Session, NEW a \in Actor, Reuse(s, a) PROVE Goal
  BY <1>4, <1>b DEF Reuse, LockFree
<1>5. ASSUME NEW s \in Session, NEW n \in Node, BeginSpawn(s, n) PROVE Goal
  BY <1>5 DEF BeginSpawn
<1>6. ASSUME NEW s \in Session, NEW n \in Node, NEW v \in Actor,
              BeginEvict(s, n, v)
       PROVE  Goal
  BY <1>6 DEF BeginEvict, Oldest, actorTables, Idle, RecordedOn, Recorded
<1>7. ASSUME NEW s \in Session, NoRoom(s) PROVE Goal
  BY <1>7, <1>b DEF NoRoom, LockFree
<1>8. ASSUME NEW s \in Session, EvictMakesRoom(s) PROVE Goal
  BY <1>8 DEF EvictMakesRoom
<1>9. ASSUME NEW s \in Session, EvictReturns(s) PROVE Goal
  <2>1. CASE NextVictim(s, tried \cup {victim}) /\ UNCHANGED tried
    <3> DEFINE rest(n) == Remaining(n, tried \cup {victim})
    <3>1. PICK n \in SweepNodes(tried \cup {victim}), v \in Actor :
            Oldest(v, rest(n)) /\ target' = n /\ victim' = v
      BY <2>1 DEF NextVictim
    <3>2. Idle(n)' \ tried' \subseteq rest(n)
      BY <1>9, <2>1 DEF EvictReturns, FreeVictim, Forget, Idle, RecordedOn, Recorded, Remaining
    <3>3. \A a \in rest(n) \ {v} : <<v, a>> \in older'
      BY <1>9, <3>1 DEF EvictReturns, FreeVictim, Forget, Oldest, Remaining
    <3>4. QED
      BY <3>1, <3>2, <3>3
  <2>2. CASE SweepEnds(s, tried \cup {victim})
    BY <2>2, <1>b DEF SweepEnds, Unlock
  <2>3. QED
    BY <1>9, <2>1, <2>2 DEF EvictReturns
<1>10. ASSUME NEW s \in Session, EvictRaises(s) PROVE Goal
  <2>1. CASE NextVictim(s, tried \cup {victim}) /\ tried' = tried \cup {victim}
    <3>1. PICK n \in SweepNodes(tried \cup {victim}), v \in Actor :
            Oldest(v, Remaining(n, tried \cup {victim})) /\ target' = n /\ victim' = v
      BY <2>1 DEF NextVictim
    <3>2. Idle(n)' \ tried' = Remaining(n, tried \cup {victim})
      BY <1>10, <2>1 DEF EvictRaises, actorTables, Idle, RecordedOn, Recorded, Remaining
    <3>3. QED
      BY <1>10, <3>1, <3>2 DEF EvictRaises, actorTables, Oldest
  <2>2. CASE SweepEnds(s, tried \cup {victim})
    BY <2>2, <1>b DEF SweepEnds, Unlock
  <2>3. QED
    BY <1>10, <2>1, <2>2 DEF EvictRaises
<1>11. ASSUME NEW s \in Session, EvictLookupRaises(s) PROVE Goal
  BY <1>11, <1>b DEF EvictLookupRaises, Unlock
<1>12. ASSUME NEW s \in Session, NEW a \in Actor, SpawnReturns(s, a) PROVE Goal
  BY <1>12, <1>b DEF SpawnReturns, Unlock
<1>13. ASSUME NEW s \in Session, SpawnRaises(s) PROVE Goal
  BY <1>13, <1>b DEF SpawnRaises, Unlock
<1>14. ASSUME NEW s \in Session, ReleaseSession(s) PROVE Goal
  BY <1>14, <1>b DEF ReleaseSession, LockFree, locals
<1>15. ASSUME NEW s \in Session, DetachedRelease(s) PROVE Goal
  BY <1>15, <1>a DEF DetachedRelease, actorTables, locals
<1>16. ASSUME NEW n \in Node, NEW r \in Reading, NEW alive \in SUBSET RecordedOn(n),
              Heartbeat(n, r, alive)
       PROVE  Goal
  BY <1>16, <1>b DEF Heartbeat, LockFree
<1>17. ASSUME NEW a \in Actor, Age(a) PROVE Goal
  BY <1>17, <1>a DEF Age, locals
<1>18. CASE ReplaceRouter
  BY <1>18, <1>b DEF ReplaceRouter, Unlock
<1>19. CASE UNCHANGED vars
  BY <1>19, <1>a DEF vars, actorTables, locals
<1>20. QED
  BY <1>1, <1>2, <1>3, <1>4, <1>5, <1>6, <1>7, <1>8, <1>9, <1>10,
     <1>11, <1>12, <1>13, <1>14, <1>15, <1>16, <1>17, <1>18, <1>19
     DEF Next, FetchAnswers, Enter, EvictAnswers, SpawnAnswers

(* The actor whose eviction is awaited is the least recently used idle one *)
(* of its node, those that could not be evicted aside.                     *)
THEOREM RouterEvictsLeastRecent == Spec => []EvictLeastRecent
<1>1. Init => EvictLeastRecent
  BY DEF Init, EvictLeastRecent
<1>2. QED
  BY <1>1, RouterInvariant, LeastRecentPreserved, PTL DEF Spec

(* Actors are evicted and spawned only for want of a free slot.            *)
THEOREM RouterSpawnsWhenFull == Spec => []SpawnOnlyWhenFull
<1>1. RouterInv => SpawnOnlyWhenFull
  BY DEF RouterInv, SectionInv, SpawnOnlyWhenFull
<1>2. QED
  BY <1>1, RouterInvariant, PTL

(* The room for a spawn is still there when wm.spawn answers.              *)
THEOREM RouterSpawnFits == Spec => []SpawnFits
<1>1. RouterInv => SpawnFits
  BY DEF RouterInv, SectionInv, SpawnFits
<1>2. QED
  BY <1>1, RouterInvariant, PTL


-----------------------------------------------------------------------------
(* The router implements the session pool.                                 *)

LEMMA PoolInit == Init => AbstractPool!Init
BY DEF Init, AbstractPool!Init, PoolServes

LEMMA PoolStep ==
    RouterInv /\ [Next]_vars => [AbstractPool!Next]_(AbstractPool!poolVars)
<1> DEFINE Goal == [AbstractPool!Next]_(AbstractPool!poolVars)
<1> SUFFICES ASSUME RouterInv, [Next]_vars PROVE Goal
  OBVIOUS
<1> USE NullValues, ManifestValues
    DEF RouterInv, TypeOK, Point, ActorRecord, actorTables, AbstractPool!poolVars
<1>a. ASSUME record' = record, placement' = placement PROVE Goal
  BY <1>a DEF PoolServes
(* Records without sessions go: a retirement.                              *)
<1>b. ASSUME NEW A \in SUBSET Recorded, \A a \in A : PlacedOn(a) = {},
             Forget(A), placement' = placement
      PROVE  Goal
  <2>1. AbstractPool!Retire(A)
    BY <1>b DEF Forget, Recorded, PlacedOn, PoolServes, AbstractPool!Retire,
                AbstractPool!HoldersOf
  <2>2. A \in SUBSET AbstractPool!Pool
    BY <1>b DEF Recorded, PoolServes, AbstractPool!Pool
  <2>3. QED
    BY <2>1, <2>2 DEF AbstractPool!Next
<1>1. ASSUME NEW s \in Session, NEW m \in Model, AcquireSession(s, m) PROVE Goal
  BY <1>1, <1>a DEF AcquireSession
<1>2. ASSUME NEW s \in Session, FetchReturns(s) PROVE Goal
  BY <1>2, <1>a DEF FetchReturns
<1>3. ASSUME NEW s \in Session, FetchRaises(s) PROVE Goal
  BY <1>3, <1>a DEF FetchRaises
<1>4. ASSUME NEW s \in Session, NEW a \in Actor, Reuse(s, a) PROVE Goal
  <2>1. a \in AbstractPool!Pool /\ placement[s] = NoActor
    BY <1>4 DEF Reuse, Reusable, Recorded, PlacedAreHeld, PoolServes, AbstractPool!Pool
  <2>2. Cardinality(AbstractPool!HoldersOf(a)) < Capacity[PoolServes[a]]
    <3>1. AbstractPool!HoldersOf(a) = PlacedOn(a)
      BY DEF AbstractPool!HoldersOf, PlacedOn
    <3>2. Cardinality(PlacedOn(a)) < Capacity[PoolServes[a]]
      BY <1>4 DEF Reuse, Reusable, Recorded, SessionAccounting, Capacity,
                  PoolServes
    <3>3. QED
      BY <3>1, <3>2
  <2>3. PoolServes' = PoolServes
    BY <1>4 DEF Reuse, Reusable, Recorded, PoolServes
  <2>4. AbstractPool!Join(s, a)
    <3>1. placement' = [placement EXCEPT ![s] = a]
      BY <1>4 DEF Reuse
    <3>2. QED
      BY <2>1, <2>2, <2>3, <3>1
         DEF AbstractPool!Join, Cardinality, AbstractPool!Cardinality
  <2>5. QED
    BY <2>4 DEF AbstractPool!Next
<1>5. ASSUME NEW s \in Session, NEW n \in Node, BeginSpawn(s, n) PROVE Goal
  BY <1>5, <1>a DEF BeginSpawn
<1>6. ASSUME NEW s \in Session, NEW n \in Node, NEW v \in Actor,
              BeginEvict(s, n, v)
       PROVE  Goal
  BY <1>6, <1>a DEF BeginEvict
<1>7. ASSUME NEW s \in Session, NoRoom(s) PROVE Goal
  BY <1>7, <1>a DEF NoRoom
<1>8. ASSUME NEW s \in Session, EvictMakesRoom(s) PROVE Goal
  <2>1. victim \in Recorded /\ PlacedOn(victim) = {}
    BY <1>8, VictimIsEmpty DEF EvictMakesRoom
  <2>2. QED
    BY <1>8, <2>1, <1>b DEF EvictMakesRoom, FreeVictim
<1>9. ASSUME NEW s \in Session, EvictReturns(s) PROVE Goal
  <2>1. victim \in Recorded /\ PlacedOn(victim) = {}
    BY <1>9, VictimIsEmpty DEF EvictReturns
  <2>2. QED
    BY <1>9, <2>1, <1>b DEF EvictReturns, FreeVictim
<1>10. ASSUME NEW s \in Session, EvictRaises(s) PROVE Goal
  BY <1>10, <1>a DEF EvictRaises
<1>11. ASSUME NEW s \in Session, EvictLookupRaises(s) PROVE Goal
  BY <1>11, <1>a DEF EvictLookupRaises
<1>12. ASSUME NEW s \in Session, NEW a \in Actor, SpawnReturns(s, a) PROVE Goal
  <2>1. /\ placement[s] = NoActor /\ want[s] \in Model /\ target \in Node
        /\ a \notin AbstractPool!Pool
    BY <1>12 DEF SpawnReturns, PlacedAreHeld, CallsNameModels, Pending, LockHolder,
              SectionInv, PoolServes, AbstractPool!Pool
  <2>2. AbstractPool!HoldersOf(a) = {}
    BY <1>12 DEF SpawnReturns, PlacedAreHeld, HeldIsPlaced, Recorded,
              AbstractPool!HoldersOf
  <2>3. PoolServes' = [PoolServes EXCEPT ![a] = want[s]]
    <3>1. [model |-> want[s], node |-> target, active |-> 1] # NoRecord
      BY <2>1
    <3>2. \A b \in Actor : record'[b] =
            IF b = a THEN [model |-> want[s], node |-> target, active |-> 1]
            ELSE record[b]
      BY <1>12 DEF SpawnReturns
    <3>3. \A b \in Actor : PoolServes'[b] = IF b = a THEN want[s] ELSE PoolServes[b]
      BY <3>1, <3>2 DEF PoolServes
    <3>4. PoolServes' = [b \in Actor |-> PoolServes'[b]]
      BY DEF PoolServes
    <3>5. PoolServes = [b \in Actor |-> PoolServes[b]]
      BY DEF PoolServes
    <3>6. QED
      BY <3>3, <3>4, <3>5
  <2>4. AbstractPool!Provide(s, a, want[s])
    BY <1>12, <2>1, <2>2, <2>3 DEF SpawnReturns, AbstractPool!Provide
  <2>5. QED
    BY <2>1, <2>4 DEF AbstractPool!Next
<1>13. ASSUME NEW s \in Session, SpawnRaises(s) PROVE Goal
  BY <1>13, <1>a DEF SpawnRaises
<1>14. ASSUME NEW s \in Session, ReleaseSession(s) PROVE Goal
  <2>1. placement[s] \in Recorded
    BY <1>14 DEF ReleaseSession, HeldIsPlaced
  <2>2. PoolServes' = PoolServes
    BY <1>14, <2>1 DEF ReleaseSession, Recorded, PoolServes
  <2>3. AbstractPool!Leave(s)
    BY <1>14, <2>1, <2>2 DEF ReleaseSession, Recorded, AbstractPool!Leave
  <2>4. QED
    BY <2>3 DEF AbstractPool!Next
<1>15. ASSUME NEW s \in Session, DetachedRelease(s) PROVE Goal
  BY <1>15, <1>a DEF DetachedRelease
<1>16. ASSUME NEW n \in Node, NEW r \in Reading, NEW alive \in SUBSET RecordedOn(n),
              Heartbeat(n, r, alive)
       PROVE  Goal
  <2>1. \A a \in Dropped(n, alive) : a \in Recorded /\ PlacedOn(a) = {}
    BY ZeroMeansEmpty DEF Dropped, RecordedOn
  <2>2. QED
    BY <1>16, <2>1, <1>b DEF Heartbeat
<1>17. ASSUME NEW a \in Actor, Age(a) PROVE Goal
  BY <1>17, <1>a DEF Age
<1>18. CASE ReplaceRouter
  <2>1. AbstractPool!Restart
    BY <1>18 DEF ReplaceRouter, Forget, PoolServes, AbstractPool!Restart
  <2>2. QED
    BY <2>1 DEF AbstractPool!Next
<1>19. CASE UNCHANGED vars
  BY <1>19, <1>a DEF vars
<1>20. QED
  BY <1>1, <1>2, <1>3, <1>4, <1>5, <1>6, <1>7, <1>8, <1>9, <1>10,
     <1>11, <1>12, <1>13, <1>14, <1>15, <1>16, <1>17, <1>18, <1>19
     DEF Next, FetchAnswers, Enter, EvictAnswers, SpawnAnswers

(* Every behaviour of the router is one of the session pool: placements    *)
(* never exceed an actor's capacity and only unused actors go, although    *)
(* the router knows its sessions by counters and awaits under its lock.    *)
THEOREM RouterImplementsPool == Spec => PoolSpec
BY RouterInvariant, PoolInit, PoolStep, PTL DEF Spec, PoolSpec, AbstractPool!Spec

=============================================================================
