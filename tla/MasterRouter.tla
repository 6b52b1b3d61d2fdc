---------------------------- MODULE MasterRouter ----------------------------
(***************************************************************************)
(* The Ray actor MasterRouter (src/sayo_host/router/router.py): places each *)
(* session on a transcript actor, spawns and evicts actors through the     *)
(* worker managers, and corrects its view of a node from that node's       *)
(* heartbeats.                                                             *)
(*                                                                         *)
(* It is an asyncio actor: a method runs alone until it awaits.  Every     *)
(* method body is under one asyncio.Lock except the manifest fetch, so the *)
(* interleaving points are: before the fetch answers, before the lock is   *)
(* obtained, and, WITH THE LOCK HELD, before wm.evict and wm.spawn answer. *)
(* pc[s] says at which of these points the acquire_session call of s is.   *)
(* A method that awaits nothing under the lock is one atomic action.       *)
(*                                                                         *)
(* Abstracted: a dict's order (any order), time (recent and older keep the *)
(* two things last_used is read for), slot names, logging.                 *)
(***************************************************************************)
EXTENDS Integers, FiniteSets

CONSTANTS
    Session,        \* session ids; a finished id stands for a fresh one
    Model,          \* model ids
    Node,           \* node ids, one worker manager each
    Actor,          \* actor names a worker manager can make up (uuids)
    MinVram,        \* MinVram[m]: min_vram_gb of the manifest of m
    MaxSessions,    \* MaxSessions[m]: max_concurrent_sessions of that manifest
    Reading,        \* <<total, used>> pairs a node's GPU query can report
    NoSession, NoModel, NoNode, NoActor, NoRecord

ActorRecord == [model : Model, node : Node, active : Nat]

ASSUME SessionsFinite == IsFiniteSet(Session)
ASSUME ManifestValues ==
    /\ MinVram \in [Model -> Nat]
    /\ MaxSessions \in [Model -> Int]
ASSUME ReadingValues == Reading \subseteq Nat \X Nat
ASSUME NullValues ==
    /\ NoSession \notin Session
    /\ NoModel \notin Model
    /\ NoNode \notin Node
    /\ NoActor \notin Actor
    /\ NoRecord \notin ActorRecord

VARIABLES
    known,      \* keys of _nodes
    vramTotal,  \* vram_total_gb of each node, 0 before its first heartbeat
    vramUsed,   \* vram_used_gb of each node
    record,     \* the actor records of all nodes, NoRecord if there is none
    recent,     \* actors with time.time() - last_used < 30
    older,      \* <<a, b>>: last_used of a is before last_used of b
    placement,  \* _placements: the actor of each session, or NoActor
    cached,     \* keys of _manifest_cache
    lock,       \* the session whose acquire_session holds _lock, or NoSession
    pc,         \* where the call of each session is
    want,       \* its model_id argument
    target,     \* local of the lock holder: the node evicted on or spawned on
    victim,     \* local of the lock holder: the actor being evicted
    tried       \* local of the lock holder: actors whose eviction raised

nodeTables == <<known, vramTotal, vramUsed>>
actorTables == <<record, recent, older>>
locals == <<target, victim, tried>>
vars == <<known, vramTotal, vramUsed, record, recent, older, placement, cached,
          lock, pc, want, target, victim, tried>>

(* "idle" no call; "fetching" in _fetch_manifest; "ready" waits for _lock; *)
(* "evicting" and "spawning" hold it; "held" acquired and not yet released;*)
(* "detached" acquired from a router that has been replaced since.         *)
Point == {"idle", "fetching", "ready", "evicting", "spawning", "held", "detached"}
Pending == {"fetching", "ready", "evicting", "spawning"}

-----------------------------------------------------------------------------
(* The router's tables.                                                    *)

Recorded == {a \in Actor : record[a] # NoRecord}
RecordedOn(n) == {a \in Recorded : record[a].node = n}
(* Mutant: used actors count as idle.                                      *)
MutantIdleBusy(n) == RecordedOn(n)
Idle(n) == {a \in RecordedOn(n) : record[a].active = 0}

(* Sessions placed on a: what active_sessions is meant to count.           *)
PlacedOn(a) == {s \in Session : placement[s] = a}

(* Mutant: one session too many.                                           *)
MutantReusableOneMore(m) ==
    {a \in Recorded : record[a].model = m /\ record[a].active <= MaxSessions[m]}

(* _find_reusable_actor: the actors it may return.                         *)
Reusable(m) ==
    {a \in Recorded : record[a].model = m /\ record[a].active < MaxSessions[m]}

Free(n) == vramTotal[n] - vramUsed[n]
Fits(n, m) == Free(n) >= MinVram[m]

(* _pick_node: the candidates with the most free VRAM.                     *)
Candidates(m) == {n \in known : Fits(n, m)}
BestNode(m) == {n \in Candidates(m) : \A c \in Candidates(m) : Free(c) <= Free(n)}

(* Mutant: the most recently used first.                                   *)
MutantNewest(a, A) == a \in A /\ \A b \in A \ {a} : <<b, a>> \in older

(* last_used of the actors of A: a is the least recently used of them.     *)
Oldest(a, A) == a \in A /\ \A b \in A \ {a} : <<a, b>> \in older

(* actor.last_used = time.time() for an actor that has a record afterwards.*)
Touch(a) ==
    /\ recent' = recent \cup {a}
    /\ older' = {p \in older : p[1] # a} \cup ((Recorded \ {a}) \X {a})

(* The records of A are gone.                                              *)
Forget(A) ==
    /\ record' = [a \in Actor |-> IF a \in A THEN NoRecord ELSE record[a]]
    /\ recent' = recent \ A
    /\ older' = {p \in older : p[1] \notin A /\ p[2] \notin A}

LockFree == lock = NoSession

(* The call of s leaves the async with block.                              *)
Unlock ==
    /\ lock' = NoSession
    /\ target' = NoNode
    /\ victim' = NoActor
    /\ tried' = {}

(* acquire_session raises: the gateway gets no actor and ends the stream.  *)
Fails(s) ==
    /\ pc' = [pc EXCEPT ![s] = "idle"]
    /\ want' = [want EXCEPT ![s] = NoModel]

Init ==
    /\ known = {}
    /\ vramTotal = [n \in Node |-> 0]
    /\ vramUsed = [n \in Node |-> 0]
    /\ record = [a \in Actor |-> NoRecord]
    /\ recent = {}
    /\ older = {}
    /\ placement = [s \in Session |-> NoActor]
    /\ cached = {}
    /\ lock = NoSession
    /\ pc = [s \in Session |-> "idle"]
    /\ want = [s \in Session |-> NoModel]
    /\ target = NoNode
    /\ victim = NoActor
    /\ tried = {}

-----------------------------------------------------------------------------
(* acquire_session up to the lock: the manifest comes from the cache or    *)
(* from the registry.                                                      *)

AcquireSession(s, m) ==
    /\ pc[s] = "idle"
    /\ pc' = [pc EXCEPT ![s] = IF m \in cached THEN "ready" ELSE "fetching"]
    /\ want' = [want EXCEPT ![s] = m]
    /\ UNCHANGED <<nodeTables, actorTables, placement, cached, lock, locals>>

FetchReturns(s) ==
    /\ pc[s] = "fetching"
    /\ cached' = cached \cup {want[s]}
    /\ pc' = [pc EXCEPT ![s] = "ready"]
    /\ UNCHANGED <<nodeTables, actorTables, placement, lock, want, locals>>

(* No answer, or a status other than 200.                                  *)
FetchRaises(s) ==
    /\ pc[s] = "fetching"
    /\ Fails(s)
    /\ UNCHANGED <<nodeTables, actorTables, placement, cached, lock, locals>>

-----------------------------------------------------------------------------
(* acquire_session with the lock just obtained: one of the next four.      *)

(* Mutants: the count is forgotten; the fast path takes no lock.           *)
MutantReuseUncounted(s, a) ==
    /\ pc[s] = "ready" /\ LockFree
    /\ a \in Reusable(want[s])
    /\ Touch(a)
    /\ placement' = [placement EXCEPT ![s] = a]
    /\ pc' = [pc EXCEPT ![s] = "held"]
    /\ UNCHANGED <<nodeTables, record, cached, lock, want, locals>>

MutantReuseUnlocked(s, a) ==
    /\ pc[s] = "ready"
    /\ a \in Reusable(want[s])
    /\ record' = [record EXCEPT ![a].active = @ + 1]
    /\ Touch(a)
    /\ placement' = [placement EXCEPT ![s] = a]
    /\ pc' = [pc EXCEPT ![s] = "held"]
    /\ UNCHANGED <<nodeTables, cached, lock, want, locals>>

Reuse(s, a) ==
    /\ pc[s] = "ready" /\ LockFree
    /\ a \in Reusable(want[s])
    /\ record' = [record EXCEPT ![a].active = @ + 1]
    /\ Touch(a)
    /\ placement' = [placement EXCEPT ![s] = a]
    /\ pc' = [pc EXCEPT ![s] = "held"]
    /\ UNCHANGED <<nodeTables, cached, lock, want, locals>>

(* A node has room: wm.spawn is called there.                              *)
BeginSpawn(s, n) ==
    /\ pc[s] = "ready" /\ LockFree
    /\ Reusable(want[s]) = {}
    /\ n \in BestNode(want[s])
    /\ lock' = s
    /\ target' = n
    /\ pc' = [pc EXCEPT ![s] = "spawning"]
    /\ UNCHANGED <<nodeTables, actorTables, placement, cached, want, victim, tried>>

(* No node has room: wm.evict is called for the least recently used idle   *)
(* actor of some node.                                                     *)
BeginEvict(s, n, v) ==
    /\ pc[s] = "ready" /\ LockFree
    /\ Reusable(want[s]) = {}
    /\ Candidates(want[s]) = {}
    /\ n \in known
    /\ Oldest(v, Idle(n))
    /\ lock' = s
    /\ target' = n
    /\ victim' = v
    /\ tried' = {}
    /\ pc' = [pc EXCEPT ![s] = "evicting"]
    /\ UNCHANGED <<nodeTables, actorTables, placement, cached, want>>

(* No node has room and nothing is idle.                                   *)
NoRoom(s) ==
    /\ pc[s] = "ready" /\ LockFree
    /\ Reusable(want[s]) = {}
    /\ Candidates(want[s]) = {}
    /\ \A n \in known : Idle(n) = {}
    /\ Fails(s)
    /\ UNCHANGED <<nodeTables, actorTables, placement, cached, lock, locals>>

Enter(s) ==
    \/ \E a \in Actor : Reuse(s, a)
    \/ \E n \in Node : BeginSpawn(s, n)
    \/ \E n \in Node, v \in Actor : BeginEvict(s, n, v)
    \/ NoRoom(s)

-----------------------------------------------------------------------------
(* _evict_for_vram, resumed when wm.evict has answered.  The actors still  *)
(* to try are the idle ones that were neither evicted nor tried in vain;   *)
(* those of the node being swept come before those of another node.        *)

Remaining(n, dealt) == Idle(n) \ dealt
SweepNodes(dealt) ==
    IF Remaining(target, dealt) # {} THEN {target}
    ELSE {n \in known : Remaining(n, dealt) # {}}

NextVictim(s, dealt) ==
    /\ \E n \in SweepNodes(dealt), v \in Actor :
        /\ Oldest(v, Remaining(n, dealt))
        /\ target' = n
        /\ victim' = v
    /\ UNCHANGED <<lock, pc, want>>

(* Every idle actor was tried: _spawn_actor raises.                        *)
SweepEnds(s, dealt) ==
    /\ SweepNodes(dealt) = {}
    /\ Unlock
    /\ Fails(s)

(* Mutant: max(0.0, ...) is missing.                                       *)
MutantFreeVictimNoFloor ==
    /\ Forget({victim})
    /\ vramUsed' = [vramUsed EXCEPT ![target] = @ - MinVram[record[victim].model]]

FreeVictim ==
    /\ Forget({victim})
    /\ vramUsed' = [vramUsed EXCEPT ![target] =
            IF @ < MinVram[record[victim].model] THEN 0
            ELSE @ - MinVram[record[victim].model]]

MadeRoom(m) == vramTotal[target] - vramUsed'[target] >= MinVram[m]

(* The evicted actor's VRAM makes enough room: wm.spawn is called.         *)
EvictMakesRoom(s) ==
    /\ pc[s] = "evicting"
    /\ FreeVictim
    /\ MadeRoom(want[s])
    /\ victim' = NoActor
    /\ tried' = {}
    /\ pc' = [pc EXCEPT ![s] = "spawning"]
    /\ UNCHANGED <<known, vramTotal, placement, cached, lock, want, target>>

(* It does not: the sweep goes on.                                         *)
EvictReturns(s) ==
    /\ pc[s] = "evicting"
    /\ FreeVictim
    /\ ~MadeRoom(want[s])
    /\ \/ NextVictim(s, tried \cup {victim}) /\ UNCHANGED tried
       \/ SweepEnds(s, tried \cup {victim})
    /\ UNCHANGED <<known, vramTotal, placement, cached>>

(* wm.evict raises: the actor keeps its record and the sweep goes on.      *)
EvictRaises(s) ==
    /\ pc[s] = "evicting"
    /\ \/ NextVictim(s, tried \cup {victim}) /\ tried' = tried \cup {victim}
       \/ SweepEnds(s, tried \cup {victim})
    /\ UNCHANGED <<nodeTables, actorTables, placement, cached>>

(* Mutant: the exception leaves without the lock.                          *)
MutantEvictLookupKeepsLock(s) ==
    /\ pc[s] = "evicting"
    /\ Fails(s)
    /\ UNCHANGED <<nodeTables, actorTables, placement, cached, lock, locals>>

(* ray.get_actor finds no worker manager for the node: nothing catches it. *)
EvictLookupRaises(s) ==
    /\ pc[s] = "evicting"
    /\ Unlock
    /\ Fails(s)
    /\ UNCHANGED <<nodeTables, actorTables, placement, cached>>

(* _spawn_actor and acquire_session, resumed when wm.spawn has answered.   *)
SpawnReturns(s, a) ==
    /\ pc[s] = "spawning"
    /\ record[a] = NoRecord
    /\ record' = [record EXCEPT ![a] =
                    [model |-> want[s], node |-> target, active |-> 1]]
    /\ vramUsed' = [vramUsed EXCEPT ![target] = @ + MinVram[want[s]]]
    /\ Touch(a)
    /\ placement' = [placement EXCEPT ![s] = a]
    /\ pc' = [pc EXCEPT ![s] = "held"]
    /\ Unlock
    /\ UNCHANGED <<known, vramTotal, cached, want>>

(* Mutant: the exception leaves without the lock.                          *)
MutantSpawnKeepsLock(s) ==
    /\ pc[s] = "spawning"
    /\ Fails(s)
    /\ UNCHANGED <<nodeTables, actorTables, placement, cached, lock, locals>>

(* No worker manager, or wm.spawn raises: nothing is recorded.             *)
SpawnRaises(s) ==
    /\ pc[s] = "spawning"
    /\ Unlock
    /\ Fails(s)
    /\ UNCHANGED <<nodeTables, actorTables, placement, cached>>

-----------------------------------------------------------------------------
(* Mutant: release_session takes no lock.                                  *)
MutantReleaseUnlocked(s) ==
    /\ pc[s] = "held"
    /\ LET a == placement[s] IN
        IF a \in Recorded
        THEN /\ record' = [record EXCEPT ![a].active = IF @ > 1 THEN @ - 1 ELSE 0]
             /\ Touch(a)
        ELSE UNCHANGED actorTables
    /\ placement' = [placement EXCEPT ![s] = NoActor]
    /\ pc' = [pc EXCEPT ![s] = "idle"]
    /\ want' = [want EXCEPT ![s] = NoModel]
    /\ UNCHANGED <<nodeTables, cached, lock, locals>>

(* release_session: an unknown session and a lost record are tolerated.    *)

ReleaseSession(s) ==
    /\ pc[s] = "held" /\ LockFree
    /\ LET a == placement[s] IN
        IF a \in Recorded
        THEN /\ record' = [record EXCEPT ![a].active = IF @ > 1 THEN @ - 1 ELSE 0]
             /\ Touch(a)
        ELSE UNCHANGED actorTables
    /\ placement' = [placement EXCEPT ![s] = NoActor]
    /\ pc' = [pc EXCEPT ![s] = "idle"]
    /\ want' = [want EXCEPT ![s] = NoModel]
    /\ UNCHANGED <<nodeTables, cached, lock, locals>>

(* Mutant: a record in use goes like any other.                            *)
MutantDroppedInUse(n, alive) == (RecordedOn(n) \ alive) \ recent

(* heartbeat: the reading replaces the router's own accounting, and the    *)
(* records the worker manager does not list go unless used or recent.      *)
(* Names it lists that have no record on the node change nothing.          *)
Dropped(n, alive) ==
    {a \in RecordedOn(n) \ alive : record[a].active = 0 /\ a \notin recent}

(* Mutant: heartbeat takes no lock.                                        *)
MutantHeartbeatUnlocked(n, reading, alive) ==
    /\ known' = known \cup {n}
    /\ vramTotal' = [vramTotal EXCEPT ![n] = reading[1]]
    /\ vramUsed' = [vramUsed EXCEPT ![n] = reading[2]]
    /\ Forget(Dropped(n, alive))
    /\ UNCHANGED <<placement, cached, lock, pc, want, locals>>

Heartbeat(n, reading, alive) ==
    /\ LockFree
    /\ known' = known \cup {n}
    /\ vramTotal' = [vramTotal EXCEPT ![n] = reading[1]]
    /\ vramUsed' = [vramUsed EXCEPT ![n] = reading[2]]
    /\ Forget(Dropped(n, alive))
    /\ UNCHANGED <<placement, cached, lock, pc, want, locals>>

(* Thirty seconds have passed since last_used of a.                        *)
Age(a) ==
    /\ Oldest(a, recent)
    /\ recent' = recent \ {a}
    /\ UNCHANGED <<nodeTables, record, older, placement, cached, lock, pc, want, locals>>

-----------------------------------------------------------------------------
(* main with SAYO_REPLACE_MASTER_ROUTER set: the actor is killed and made  *)
(* anew.  Calls in flight raise at the gateway; a gateway whose session is *)
(* held keeps the handle of the dead actor.                                *)

ReplaceRouter ==
    /\ known' = {}
    /\ vramTotal' = [n \in Node |-> 0]
    /\ vramUsed' = [n \in Node |-> 0]
    /\ Forget(Actor)
    /\ placement' = [s \in Session |-> NoActor]
    /\ cached' = {}
    /\ Unlock
    /\ pc' = [s \in Session |-> IF pc[s] \in {"held", "detached"}
                                THEN "detached" ELSE "idle"]
    /\ want' = [s \in Session |-> NoModel]

(* release_session of a detached session raises and the gateway logs it.   *)
DetachedRelease(s) ==
    /\ pc[s] = "detached"
    /\ pc' = [pc EXCEPT ![s] = "idle"]
    /\ UNCHANGED <<nodeTables, actorTables, placement, cached, lock, want, locals>>

-----------------------------------------------------------------------------

EvictAnswers(s) ==
    EvictMakesRoom(s) \/ EvictReturns(s) \/ EvictRaises(s) \/ EvictLookupRaises(s)
SpawnAnswers(s) == (\E a \in Actor : SpawnReturns(s, a)) \/ SpawnRaises(s)
FetchAnswers(s) == FetchReturns(s) \/ FetchRaises(s)

Next ==
    \/ \E s \in Session, m \in Model : AcquireSession(s, m)
    \/ \E s \in Session :
        \/ FetchAnswers(s)
        \/ Enter(s)
        \/ EvictAnswers(s)
        \/ SpawnAnswers(s)
        \/ ReleaseSession(s)
        \/ DetachedRelease(s)
    \/ \E n \in Node, r \in Reading : \E alive \in SUBSET RecordedOn(n) :
        Heartbeat(n, r, alive)
    \/ \E a \in Actor : Age(a)
    \/ ReplaceRouter

Spec == Init /\ [][Next]_vars

(* The HTTP client and both worker manager calls end by their time limits, *)
(* and asyncio.Lock wakes its waiters first come first served.             *)
Fairness ==
    \A s \in Session :
        /\ WF_vars(FetchAnswers(s))
        /\ SF_vars(Enter(s))
        /\ WF_vars(EvictAnswers(s))
        /\ WF_vars(SpawnAnswers(s))

FairSpec == Spec /\ Fairness

-----------------------------------------------------------------------------
(* Types.                                                                  *)
TypeOK ==
    /\ known \subseteq Node
    /\ vramTotal \in [Node -> Nat]
    /\ vramUsed \in [Node -> Nat]
    /\ record \in [Actor -> ActorRecord \cup {NoRecord}]
    /\ recent \subseteq Actor
    /\ older \subseteq Actor \X Actor
    /\ placement \in [Session -> Actor \cup {NoActor}]
    /\ cached \subseteq Model
    /\ lock \in Session \cup {NoSession}
    /\ pc \in [Session -> Point]
    /\ want \in [Session -> Model \cup {NoModel}]
    /\ target \in Node \cup {NoNode}
    /\ victim \in Actor \cup {NoActor}
    /\ tried \subseteq Actor

(* active_sessions of a record is the number of sessions placed on the     *)
(* actor, whatever acquires, releases, heartbeats and evictions interleave *)
(* around the lock that acquire_session keeps while it awaits.             *)
SessionAccounting ==
    \A a \in Recorded : record[a].active = Cardinality(PlacedOn(a))

(* A session that was acquired and not released is placed on an actor that *)
(* still has a record, of the model the session asked for: release_session *)
(* always finds what it has to decrement.                                  *)
HeldIsPlaced ==
    \A s \in Session : pc[s] = "held" =>
        /\ placement[s] \in Recorded
        /\ record[placement[s]].model = want[s]

(* No actor serves more sessions than the actor itself admits, which is at *)
(* least one even where the manifest says zero or less.                    *)
Capacity == [m \in Model |-> IF MaxSessions[m] < 1 THEN 1 ELSE MaxSessions[m]]
CapacityRespected ==
    \A a \in Recorded : Cardinality(PlacedOn(a)) <= Capacity[record[a].model]

(* While wm.evict is awaited, the victim has a record on the node the call *)
(* went to and no session is placed on it.                                 *)
EvictOnlyIdle ==
    lock # NoSession /\ pc[lock] = "evicting" =>
        victim \in Idle(target) /\ PlacedOn(victim) = {}

(* README.md:22, "LRU eviction of idle actors": while wm.evict is awaited, *)
(* no idle actor of that node was used before the victim, those whose      *)
(* eviction failed aside, throughout the sweep.                            *)
EvictLeastRecent ==
    lock # NoSession /\ pc[lock] = "evicting" =>
        \A a \in Idle(target) \ (tried \cup {victim}) : <<victim, a>> \in older

(* An actor is evicted or spawned for a session only while no actor of its *)
(* model has a free slot: none frees up during the awaits.                 *)
SpawnOnlyWhenFull ==
    lock # NoSession => Reusable(want[lock]) = {}

(* The room found on the target node is still there when wm.spawn answers, *)
(* however long that takes: by the router's accounting a spawn never       *)
(* overcommits a node.                                                     *)
SpawnFits ==
    lock # NoSession /\ pc[lock] = "spawning" => Fits(target, want[lock])

(* The inductive invariant behind the ones above.  The session that holds  *)
(* the lock is the one awaiting a worker manager; only held sessions have  *)
(* a placement; the room on the target and the want of a free slot hold    *)
(* throughout the section, which is why no other method may run inside it. *)
LockHolder ==
    \A s \in Session : pc[s] \in {"evicting", "spawning"} <=> lock = s

CallsNameModels ==
    \A s \in Session : pc[s] \in Pending \cup {"held"} => want[s] \in Model

PlacedAreHeld ==
    \A s \in Session : placement[s] # NoActor => pc[s] = "held"

ActiveWithinCapacity ==
    \A a \in Recorded : record[a].active <= Capacity[record[a].model]

SectionInv ==
    lock # NoSession =>
        /\ target \in Node
        /\ Reusable(want[lock]) = {}
        /\ pc[lock] = "evicting" => victim \in Idle(target)
        /\ pc[lock] = "spawning" => Fits(target, want[lock])

RouterInv ==
    /\ TypeOK
    /\ LockHolder
    /\ CallsNameModels
    /\ PlacedAreHeld
    /\ HeldIsPlaced
    /\ SessionAccounting
    /\ ActiveWithinCapacity
    /\ SectionInv

(* Every acquire_session call ends, with a session or with an error.       *)
AcquireReturns ==
    \A s \in Session : pc[s] \in Pending ~> pc[s] \notin Pending

(* The router keeps the promises of SessionPool: its counters stand for    *)
(* the sets of sessions, its lock makes each placement one step.           *)
PoolServes ==
    [a \in Actor |-> IF record[a] = NoRecord THEN NoModel ELSE record[a].model]
AbstractPool == INSTANCE SessionPool WITH serves <- PoolServes, holder <- placement
PoolSpec == AbstractPool!Spec

=============================================================================
