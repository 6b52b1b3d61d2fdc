---------------------------- MODULE ControlPlane ----------------------------
(***************************************************************************)
(* The router, the worker managers and the actor containers together, with *)
(* the heartbeats that tie the router's tables to what really runs.        *)
(*                                                                         *)
(* A wm.spawn or wm.evict call and its reply are separate steps, so a      *)
(* worker manager's work interleaves with heartbeats, with a restart of    *)
(* the worker manager and with a replacement of the router.  The calls     *)
(* that want the router's lock queue for it in the order in which they     *)
(* reach it, as the waiters of an asyncio.Lock do: an acquire_session, a   *)
(* release_session, or the one heartbeat a worker manager has outstanding. *)
(* Handing a payload to the router is one step: the network is taken to be *)
(* faster than a whole session.                                            *)
(***************************************************************************)
EXTENDS Integers, FiniteSets, Sequences, FiniteSetsExt, SequencesExt

CONSTANTS
    Session, Model, Node, Actor, MinVram, MaxSessions, Gpu, Faults,
    NoSession, NoModel, NoNode, NoActor, NoRecord, NoBeat

VARIABLES
    known, vramTotal, vramUsed, record, recent, older, placement, cached,
    lock, pc, want, target, victim, tried,      \* the router
    tracked, ctr, host, image, job,             \* the worker managers
    queue,      \* who waits for the router's lock, first come first
    beat,       \* beat[n]: payload of the heartbeat node n has outstanding
    awaited,    \* the actor the router's worker manager call is about
    user        \* user[s]: actor_name the gateway of session s was given

routerVars == <<known, vramTotal, vramUsed, record, recent, older, placement, cached,
                lock, pc, want, target, victim, tried>>
wmVars == <<tracked, ctr, host, image, job>>
linkVars == <<queue, beat, awaited, user>>
vars == <<routerVars, wmVars, linkVars>>

R == INSTANCE MasterRouter WITH Reading <- Nat \X Nat
W == INSTANCE WorkerManager

ASSUME FaultsKnown == Faults \subseteq W!FaultKinds

(* What MasterRouter assumes of its constants.                             *)
ASSUME RouterConstants ==
    /\ IsFiniteSet(Session)
    /\ MinVram \in [Model -> Nat] /\ MaxSessions \in [Model -> Int]
    /\ NoSession \notin Session /\ NoModel \notin Model
    /\ NoNode \notin Node /\ NoActor \notin Actor
    /\ NoRecord \notin R!ActorRecord

(* A heartbeat in the queue is known by its node, a session by itself.     *)
Payload == [total : Nat, used : Nat, alive : SUBSET Actor]
ASSUME LinkConstants ==
    /\ Gpu \in [Node -> Nat]
    /\ Session \cap Node = {}
    /\ NoBeat \notin Payload

Init ==
    /\ R!Init
    /\ W!Init
    /\ queue = <<>>
    /\ beat = [n \in Node |-> NoBeat]
    /\ awaited = NoActor
    /\ user = [s \in Session |-> NoActor]

-----------------------------------------------------------------------------
(* Calls of the gateways.                                                  *)

Enqueue(w) == queue' = Append(queue, w)
Waits(w) == \E i \in DOMAIN queue : queue[i] = w
First(w) == lock = NoSession /\ queue # <<>> /\ Head(queue) = w
Dequeue == queue' = Tail(queue)

(* A manifest in the cache leads straight to the lock.                     *)
AcquireSession(s, m) ==
    /\ R!AcquireSession(s, m)
    /\ IF m \in cached THEN Enqueue(s) ELSE UNCHANGED queue
    /\ UNCHANGED <<wmVars, beat, awaited, user>>

FetchReturns(s) ==
    /\ R!FetchReturns(s)
    /\ Enqueue(s)
    /\ UNCHANGED <<wmVars, beat, awaited, user>>

FetchRaises(s) ==
    /\ R!FetchRaises(s)
    /\ UNCHANGED <<wmVars, linkVars>>

Reuse(s, a) ==
    /\ First(s)
    /\ R!Reuse(s, a)
    /\ Dequeue
    /\ user' = [user EXCEPT ![s] = a]
    /\ UNCHANGED <<wmVars, beat, awaited>>

(* The call takes the lock and keeps it, or fails at once.                 *)
EnterSection(s) ==
    /\ First(s)
    /\ \/ \E n \in Node : R!BeginSpawn(s, n)
       \/ \E n \in Node, v \in Actor : R!BeginEvict(s, n, v)
       \/ R!NoRoom(s)
    /\ Dequeue
    /\ UNCHANGED <<wmVars, beat, awaited, user>>

CallRelease(s) ==
    /\ pc[s] = "held"
    /\ ~Waits(s)
    /\ Enqueue(s)
    /\ UNCHANGED <<routerVars, wmVars, beat, awaited, user>>

ReleaseSession(s) ==
    /\ First(s)
    /\ R!ReleaseSession(s)
    /\ Dequeue
    /\ user' = [user EXCEPT ![s] = NoActor]
    /\ UNCHANGED <<wmVars, beat, awaited>>

DetachedRelease(s) ==
    /\ R!DetachedRelease(s)
    /\ user' = [user EXCEPT ![s] = NoActor]
    /\ UNCHANGED <<wmVars, queue, beat, awaited>>

-----------------------------------------------------------------------------
(* The router's calls of the worker managers, and their replies.           *)

CallSpawn(s, a) ==
    /\ pc[s] = "spawning" /\ awaited = NoActor
    /\ W!SpawnRuns(target, a, want[s])
    /\ awaited' = a
    /\ UNCHANGED <<routerVars, queue, beat, user>>

(* No worker manager, or the image cannot be pulled or run.                *)
SpawnRefused(s) ==
    /\ pc[s] = "spawning" /\ awaited = NoActor
    /\ R!SpawnRaises(s)
    /\ UNCHANGED <<wmVars, linkVars>>

SpawnReturns(s) ==
    /\ awaited # NoActor /\ job[awaited] = "spawned"
    /\ R!SpawnReturns(s, awaited)
    /\ W!Reply(awaited)
    /\ awaited' = NoActor
    /\ user' = [user EXCEPT ![s] = awaited]
    /\ UNCHANGED <<queue, beat>>

(* The job failed, or is lost with its worker manager.                     *)
SpawnRaises(s) ==
    /\ awaited # NoActor
    /\ R!SpawnRaises(s)
    /\ \/ job[awaited] = "failed" /\ W!Reply(awaited)
       \/ job[awaited] = "none" /\ UNCHANGED wmVars
    /\ awaited' = NoActor
    /\ UNCHANGED <<queue, beat, user>>

CallEvict(s) ==
    /\ pc[s] = "evicting" /\ awaited = NoActor
    /\ W!EvictCall(target, victim)
    /\ awaited' = victim
    /\ UNCHANGED <<routerVars, queue, beat, user>>

EvictRefused(s) ==
    /\ "wm_crash" \in Faults /\ awaited = NoActor
    /\ R!EvictLookupRaises(s)
    /\ UNCHANGED <<wmVars, linkVars>>

EvictReturns(s) ==
    /\ awaited # NoActor /\ job[awaited] = "evicted"
    /\ R!EvictMakesRoom(s) \/ R!EvictReturns(s)
    /\ W!Reply(awaited)
    /\ awaited' = NoActor
    /\ UNCHANGED <<queue, beat, user>>

EvictRaises(s) ==
    /\ awaited # NoActor /\ job[awaited] = "none"
    /\ R!EvictRaises(s)
    /\ awaited' = NoActor
    /\ UNCHANGED <<wmVars, queue, beat, user>>

(* A reply to a router that has been replaced reaches nobody.              *)
ReplyLost(a) ==
    /\ a # awaited
    /\ W!Reply(a)
    /\ UNCHANGED <<routerVars, linkVars>>

-----------------------------------------------------------------------------
(* Heartbeats.                                                             *)

(* _heartbeat_loop: the payload is taken and the router called with it.    *)
SendHeartbeat(n) ==
    /\ beat[n] = NoBeat
    /\ \E p \in W!Payloads(n) : beat' = [beat EXCEPT ![n] = p]
    /\ Enqueue(n)
    /\ UNCHANGED <<routerVars, wmVars, awaited, user>>

(* Mutant: the worker manager does not see its heartbeat answered.         *)
MutantHeartbeatUnanswered(n) ==
    /\ First(n)
    /\ R!Heartbeat(n, <<beat[n].total, beat[n].used>>, beat[n].alive)
    /\ Dequeue
    /\ UNCHANGED <<wmVars, beat, awaited, user>>

(* The router has the lock for it at last.                                 *)
Heartbeat(n) ==
    /\ First(n)
    /\ R!Heartbeat(n, <<beat[n].total, beat[n].used>>, beat[n].alive)
    /\ Dequeue
    /\ beat' = [beat EXCEPT ![n] = NoBeat]
    /\ UNCHANGED <<wmVars, awaited, user>>

-----------------------------------------------------------------------------
(* What goes on by itself.                                                 *)

WorkerStep(a) ==
    /\ \/ W!ContainerRegisters(a)
       \/ W!ContainerLoads(a)
       \/ W!ContainerDies(a)
       \/ W!SpawnSeesName(a)
       \/ W!SpawnTimesOut(a)
       \/ W!EvictStops(a)
    /\ UNCHANGED <<routerVars, linkVars>>

Age(a) ==
    /\ R!Age(a)
    /\ UNCHANGED <<wmVars, linkVars>>

(* The heartbeat under way from n is lost with its worker manager.         *)
WorkerRestarts(n) ==
    /\ W!WorkerRestarts(n)
    /\ beat' = [beat EXCEPT ![n] = NoBeat]
    /\ \/ \E i \in DOMAIN queue : queue[i] = n /\ queue' = RemoveAt(queue, i)
       \/ ~Waits(n) /\ UNCHANGED queue
    /\ UNCHANGED <<routerVars, awaited, user>>

ReplaceRouter ==
    /\ "replace" \in Faults
    /\ R!ReplaceRouter
    /\ queue' = <<>>
    /\ beat' = [n \in Node |-> NoBeat]
    /\ awaited' = NoActor
    /\ UNCHANGED <<wmVars, user>>

-----------------------------------------------------------------------------

RouterStep(s) ==
    \/ FetchReturns(s) \/ FetchRaises(s)
    \/ \E a \in Actor : Reuse(s, a)
    \/ EnterSection(s)
    \/ ReleaseSession(s)
    \/ (\E a \in Actor : CallSpawn(s, a)) \/ SpawnRefused(s)
    \/ SpawnReturns(s) \/ SpawnRaises(s)
    \/ CallEvict(s) \/ EvictRefused(s)
    \/ EvictReturns(s) \/ EvictRaises(s)

Next ==
    \/ \E s \in Session, m \in Model : AcquireSession(s, m)
    \/ \E s \in Session : CallRelease(s) \/ DetachedRelease(s) \/ RouterStep(s)
    \/ \E n \in Node : SendHeartbeat(n) \/ Heartbeat(n) \/ WorkerRestarts(n)
    \/ \E a \in Actor : WorkerStep(a) \/ ReplyLost(a) \/ Age(a)
    \/ ReplaceRouter

Spec == Init /\ [][Next]_vars

(* The router and its worker managers go on whenever they can: every wait  *)
(* of theirs for one another is a step of the model, and the waits for     *)
(* Ray, docker and the registry end by their time limits.                  *)
WmFinishes(a) ==
    /\ W!SpawnSeesName(a) \/ W!SpawnTimesOut(a) \/ W!EvictStops(a)
    /\ UNCHANGED <<routerVars, linkVars>>

Fairness ==
    /\ \A s \in Session : WF_vars(RouterStep(s))
    /\ \A n \in Node : WF_vars(Heartbeat(n))
    /\ \A a \in Actor : WF_vars(WmFinishes(a))

FairSpec == Spec /\ Fairness

(* Moreover heartbeats never stop, time passes, gateways end their streams.*)
LiveSpec ==
    /\ FairSpec
    /\ \A n \in Node : WF_vars(SendHeartbeat(n))
    /\ \A a \in Actor : WF_vars(Age(a))
    /\ \A s \in Session : WF_vars(CallRelease(s))

-----------------------------------------------------------------------------
(* Types of what joins the two components, and theirs.                     *)
TypeOK ==
    /\ R!TypeOK
    /\ tracked \in [Node -> SUBSET Actor]
    /\ ctr \in [Actor -> W!CtrState]
    /\ host \in [Actor -> Node \cup {NoNode}]
    /\ image \in [Actor -> Model \cup {NoModel}]
    /\ job \in [Actor -> W!JobState]
    /\ queue \in Seq(Session \cup Node)
    /\ beat \in [Node -> Payload \cup {NoBeat}]
    /\ \A n \in Node : beat[n] # NoBeat <=> Waits(n)
    /\ awaited \in Actor \cup {NoActor}
    /\ user \in [Session -> Actor \cup {NoActor}]

InUse(a) == \E s \in Session : user[s] = a

(* A worker manager stops no actor that a gateway has been given and not   *)
(* given back, even one given by a router that is gone: evictions that     *)
(* were decided, restarted, or answered too late included.                 *)
NeverStopUsed ==
    [][\A a \in Actor : InUse(a) /\ a \in W!Running =>
            job[a] # "evicting" /\ ctr'[a] # "removed"]_vars

(* Every container that runs can be reached: a call about it is under way, *)
(* or the router has a record of it and can reuse or evict it.             *)
NoOrphan ==
    \A a \in W!Running : job[a] # "none" \/ a \in R!Recorded

(* What the router has on record its worker manager tracks, except for the *)
(* actor whose eviction the router awaits; so an eviction reaches it.      *)
RecordedIsTracked ==
    \A a \in R!Recorded : a \in tracked[record[a].node] \/ a = awaited

(* The models a node's containers have loaded or are loading fit its GPUs. *)
CommittedVram(n) ==
    MapThenSumSet(LAMBDA a : MinVram[image[a]], {a \in W!Running : host[a] = n})
NoOvercommit == \A n \in Node : CommittedVram(n) <= Gpu[n]

(* An actor whose container is gone leaves the router's tables in the end, *)
(* the worker manager's list being the truth about what runs.              *)
DeadActorsForgotten ==
    \A a \in Actor :
        a \in R!Recorded /\ ctr[a] = "dead" ~> a \notin R!Recorded

(* The router waits for a worker manager with its lock held while that     *)
(* worker manager's heartbeat waits for the lock: acquire_session still    *)
(* always ends.                                                            *)
AcquireReturns ==
    \A s \in Session : pc[s] \in R!Pending ~> pc[s] \notin R!Pending

-----------------------------------------------------------------------------
(* Why the safety properties hold: their inductive strengthening.          *)

(* Each waiter is in the queue once: a session that has still to acquire   *)
(* or to release, a node whose heartbeat is under way.                     *)
QueueInv ==
    /\ \A i, j \in DOMAIN queue : queue[i] = queue[j] => i = j
    /\ \A s \in Session : Waits(s) => pc[s] \in {"ready", "held"}

(* A name that no container has had is nowhere.                            *)
NameInv ==
    \A a \in Actor :
        IF ctr[a] = "unused"
        THEN /\ job[a] = "none" /\ host[a] = NoNode
             /\ a \notin R!Recorded /\ a # awaited /\ ~InUse(a)
        ELSE host[a] \in Node

(* A gateway has an actor from the answer of acquire_session until its     *)
(* release_session, also across a replacement of the router, after which   *)
(* the actor is in no table of the router.                                 *)
UserInv ==
    \A s \in Session :
        /\ user[s] # NoActor <=> pc[s] \in {"held", "detached"}
        /\ pc[s] = "held" => user[s] = placement[s]
        /\ pc[s] = "detached" => user[s] \notin R!Recorded

(* The call the router awaits is one of the session that holds its lock,   *)
(* and an actor that is being started or stopped is used by nobody.        *)
CallInv ==
    /\ awaited # NoActor =>
        /\ lock # NoSession
        /\ \/ /\ pc[lock] = "spawning" /\ host[awaited] = target
              /\ awaited \notin R!Recorded /\ ~InUse(awaited)
              /\ job[awaited] \in {"none", "spawning", "spawned", "failed"}
           \/ /\ pc[lock] = "evicting" /\ awaited = victim
              /\ job[awaited] \in {"none", "evicting", "evicted"}
    /\ \A a \in Actor : job[a] \in {"spawning", "evicting"} =>
        ~InUse(a) /\ (a \in R!Recorded => a = awaited)

(* A worker manager that does not crash tracks what it has started.        *)
TrackInv ==
    "wm_crash" \notin Faults =>
        /\ RecordedIsTracked
        /\ \A a \in Actor : job[a] = "spawned" => a \in tracked[host[a]]
        /\ awaited # NoActor => job[awaited] # "none"

(* A heartbeat that does not list an actor on record was sent before the   *)
(* actor was given out, and so is ahead of the actor's release in the      *)
(* queue: it finds the actor in use.                                       *)
Ahead(n, s) == \A i, j \in DOMAIN queue : queue[i] = n /\ queue[j] = s => i < j
BeatInv ==
    \A n \in Node : \A a \in R!RecordedOn(n) :
        beat[n] # NoBeat /\ a \notin beat[n].alive =>
            a = awaited \/ \E s \in Session : placement[s] = a /\ Ahead(n, s)

(* No failure leaves a container behind, and no reply is lost.             *)
Tidy == Faults \cap {"docker_error", "wm_crash", "replace"} = {}
OrphanInv ==
    Tidy =>
        /\ NoOrphan
        /\ BeatInv
        /\ \A a \in Actor : job[a] # "none" => a = awaited
        /\ \A a \in Actor : job[a] \in {"failed", "evicted"} => a \notin W!Running

ControlInv ==
    /\ TypeOK /\ R!RouterInv
    /\ QueueInv /\ NameInv /\ UserInv /\ CallInv
    /\ TrackInv /\ OrphanInv

=============================================================================
