-------------------------- MODULE SessionLifecycle --------------------------
(***************************************************************************)
(* The streams of one gateway (src/sayo_host/gateway/server.py) against    *)
(* two sets of books: the router's slots and the session tables of the     *)
(* transcript actors.  A stream takes a slot with acquire_session, enters  *)
(* the table of the actor it was given with open_session, and on its way   *)
(* out leaves the two in the opposite order.                               *)
(*                                                                         *)
(* The router is SessionPool, which MasterRouter implements, with a cache  *)
(* of manifests over a registry where models are registered anew: what an  *)
(* actor was started with, what the router has cached and what the         *)
(* registry says now are three numbers.  Of what a stream does between     *)
(* open and close only its end matters here; see StreamingRecognize for    *)
(* the rest.  A call is a step of its own: the                             *)
(* handler that makes it may be cancelled while it is under way, and then  *)
(* the call is either served all the same or was never committed (the      *)
(* comment at server.py:449).  The calls one stream makes to one actor     *)
(* reach it in their order.                                                *)
(***************************************************************************)
EXTENDS Integers, FiniteSets, Sequences

CONSTANTS
    Session, Model, Actor, NoActor, NoModel,
    Slots,      \* what manifests say of max_concurrent_sessions
    NoManifest,
    Wants,      \* Wants[s]: the model stream s asks for
    RegisterAlone   \* no model is registered anew while the router fetches its manifest

ASSUME WantsAssumption == Wants \in [Session -> Model]
ASSUME SlotsAssumption == Slots \subseteq Int
ASSUME SessionsFinite == IsFiniteSet(Session)
ASSUME Nulls == NoActor \notin Actor /\ NoModel \notin Model /\ NoManifest \notin Slots

VARIABLES
    serves, holder,     \* the router's books (SessionPool)
    registered, \* registered[m]: the manifest of m in the registry
    cached,     \* cached[m]: the manifest of m in the router, or NoManifest
    manifest,   \* manifest[s]: the manifest an acquire_session under way works with
    limit,      \* limit[a]: the manifest the actor of name a was started with
    up,         \* the actors whose process runs
    table,      \* table[a]: _sessions of actor a
    pc,         \* where the handler of a stream is
    name,       \* its actor_name
    handle,     \* its actor is not None
    client,     \* "here" or "gone"; gRPC cancels a handler once
    atRouter,   \* its call under way to the router, or "none"
    sent,       \* its calls under way to the actor, in order
    abandoned   \* history: streams cancelled in an await their clean-up needs

pool == <<serves, holder>>
manifests == <<registered, cached, manifest>>
actors == <<limit, up, table>>
gateway == <<pc, name, handle, client, atRouter, sent, abandoned>>
vars == <<pool, manifests, actors, gateway>>

(* Slots are counted against manifests here, see Reuse.                    *)
SP == INSTANCE SessionPool WITH Capacity <- [m \in Model |-> Cardinality(Session)]

(* "setup": up to the call of acquire_session; "acquiring" awaits it;      *)
(* "reserved" and "introduced" are the yields before and after the actor's *)
(* handle is looked up; "opening" awaits open_session; "streaming";        *)
(* "unwinding" is what may take time before the clean-up's calls: the      *)
(* yield of an error, the prefetch, the feed task; "closing" and           *)
(* "releasing" await close_session and release_session.                    *)
Point == {"setup", "acquiring", "reserved", "introduced", "opening", "streaming",
          "unwinding", "closing", "releasing", "ended"}

Init ==
    /\ SP!Init
    /\ registered \in [Model -> Slots]
    /\ cached = [m \in Model |-> NoManifest]
    /\ manifest = [s \in Session |-> NoManifest]
    /\ limit = [a \in Actor |-> NoManifest]
    /\ up = {}
    /\ table = [a \in Actor |-> {}]
    /\ pc = [s \in Session |-> "setup"]
    /\ name = [s \in Session |-> NoActor]
    /\ handle = [s \in Session |-> FALSE]
    /\ client = [s \in Session |-> "here"]
    /\ atRouter = [s \in Session |-> "none"]
    /\ sent = [s \in Session |-> <<>>]
    /\ abandoned = {}

Goto(s, p) == pc' = [pc EXCEPT ![s] = p]

(* A call to an actor whose process is gone raises; nothing is under way.  *)
CallActor(s, call) ==
    sent' = [sent EXCEPT ![s] = IF name[s] \in up THEN Append(@, call) ELSE @]

-----------------------------------------------------------------------------
(* The handler.                                                            *)

(* The config is rejected, or an error or a cancellation comes before      *)
(* acquire_session: nothing is held.                                       *)
SetupEnds(s) ==
    /\ pc[s] = "setup"
    /\ Goto(s, "ended")
    /\ UNCHANGED <<pool, manifests, actors, name, handle, client, atRouter, sent, abandoned>>

CallAcquire(s) ==
    /\ pc[s] = "setup"
    /\ atRouter' = [atRouter EXCEPT ![s] = "acquire"]
    /\ Goto(s, "acquiring")
    /\ UNCHANGED <<pool, manifests, actors, name, handle, client, sent, abandoned>>

(* ray.get_actor finds the name, or raises.                                *)
Introduce(s) ==
    /\ pc[s] = "reserved"
    /\ IF name[s] \in up
       THEN handle' = [handle EXCEPT ![s] = TRUE] /\ Goto(s, "introduced")
       ELSE UNCHANGED handle /\ Goto(s, "unwinding")
    /\ UNCHANGED <<pool, manifests, actors, name, client, atRouter, sent, abandoned>>

CallOpen(s) ==
    /\ pc[s] = "introduced"
    /\ CallActor(s, "open")
    /\ Goto(s, "opening")
    /\ UNCHANGED <<pool, manifests, actors, name, handle, client, atRouter, abandoned>>

(* The call returns if the actor took the session in, else it raises.      *)
OpenAnswered(s) ==
    /\ pc[s] = "opening" /\ sent[s] = <<>>
    /\ Goto(s, IF s \in table[name[s]] THEN "streaming" ELSE "unwinding")
    /\ UNCHANGED <<pool, manifests, actors, name, handle, client, atRouter, sent, abandoned>>

(* The results are over, or next_result or a response raises.              *)
StreamOver(s) ==
    /\ pc[s] = "streaming"
    /\ Goto(s, "unwinding")
    /\ UNCHANGED <<pool, manifests, actors, name, handle, client, atRouter, sent, abandoned>>

(* Mutant: the two calls in the order in which the two books were entered. *)
MutantReleaseFirst(s) ==
    /\ pc[s] = "unwinding"
    /\ \/ /\ handle[s]
          /\ CallActor(s, "close") /\ Goto(s, "closing")
          /\ holder' = [holder EXCEPT ![s] = NoActor]
          /\ UNCHANGED atRouter
       \/ /\ ~handle[s] /\ name[s] # NoActor
          /\ atRouter' = [atRouter EXCEPT ![s] = "release"] /\ Goto(s, "releasing")
          /\ UNCHANGED <<sent, holder>>
       \/ /\ ~handle[s] /\ name[s] = NoActor
          /\ Goto(s, "ended")
          /\ UNCHANGED <<sent, atRouter, holder>>
    /\ UNCHANGED <<serves, manifests, actors, name, handle, client, abandoned>>

(* Mutant: release_session only where close_session was called.            *)
MutantReleaseWithHandle(s) ==
    /\ pc[s] = "unwinding"
    /\ IF handle[s] THEN CallActor(s, "close") /\ Goto(s, "closing")
                    ELSE UNCHANGED sent /\ Goto(s, "ended")
    /\ UNCHANGED <<pool, manifests, actors, name, handle, client, atRouter, abandoned>>

(* The finally clause: close_session if there is a handle, release_session *)
(* if there is a name.                                                     *)
CleanUp(s) ==
    /\ pc[s] = "unwinding"
    /\ \/ /\ handle[s]
          /\ CallActor(s, "close") /\ Goto(s, "closing")
          /\ UNCHANGED atRouter
       \/ /\ ~handle[s] /\ name[s] # NoActor
          /\ atRouter' = [atRouter EXCEPT ![s] = "release"] /\ Goto(s, "releasing")
          /\ UNCHANGED sent
       \/ /\ ~handle[s] /\ name[s] = NoActor
          /\ Goto(s, "ended")
          /\ UNCHANGED <<sent, atRouter>>
    /\ UNCHANGED <<pool, manifests, actors, name, handle, client, abandoned>>

(* close_session returns, or raises because the actor is gone.             *)
CloseAnswered(s) ==
    /\ pc[s] = "closing" /\ sent[s] = <<>>
    /\ atRouter' = [atRouter EXCEPT ![s] = "release"]
    /\ Goto(s, "releasing")
    /\ UNCHANGED <<pool, manifests, actors, name, handle, client, sent, abandoned>>

-----------------------------------------------------------------------------
(* Mutant: a clean-up that is cancelled starts again.                      *)
MutantCancelCleansUpAgain(s) ==
    /\ client[s] = "here" /\ pc[s] \notin {"setup", "ended"}
    /\ client' = [client EXCEPT ![s] = "gone"]
    /\ Goto(s, IF pc[s] = "acquiring" THEN "ended" ELSE "unwinding")
    /\ abandoned' = IF pc[s] = "acquiring" THEN abandoned \cup {s} ELSE abandoned
    /\ UNCHANGED <<pool, manifests, actors, name, handle, atRouter, sent>>

(* The client goes away and the handler is cancelled where it is.  An      *)
(* await of acquire_session, close_session or release_session is left for  *)
(* good: actor_name was not assigned, or the rest of the clean-up is       *)
(* skipped.  Everywhere else the clean-up follows; the waits of            *)
(* "unwinding" take note of the cancellation and go on.                    *)
Cancel(s) ==
    /\ client[s] = "here" /\ pc[s] \notin {"setup", "ended"}
    /\ client' = [client EXCEPT ![s] = "gone"]
    /\ Goto(s, IF pc[s] \in {"acquiring", "closing", "releasing"} THEN "ended" ELSE "unwinding")
    /\ \/ UNCHANGED <<atRouter, sent>>
       \/ /\ atRouter[s] \in {"acquire", "release"} \/ sent[s] # <<>>     \* never committed
          /\ atRouter' = [atRouter EXCEPT ![s] = "none"]
          /\ sent' = [sent EXCEPT ![s] = <<>>]
    /\ abandoned' =
           IF pc[s] \in {"acquiring", "closing"} \/ (pc[s] = "releasing" /\ atRouter'[s] = "none")
           THEN abandoned \cup {s} ELSE abandoned
    /\ UNCHANGED <<pool, manifests, actors, name, handle>>

-----------------------------------------------------------------------------
(* The registry: a model is registered anew, with force.                   *)

RegisterAgain(m) ==
    /\ RegisterAlone => \A s \in Session : atRouter[s] # "fetching" \/ Wants[s] # m
    /\ \E slots \in Slots : registered' = [registered EXCEPT ![m] = slots]
    /\ UNCHANGED <<pool, cached, manifest, actors, gateway>>

-----------------------------------------------------------------------------
(* The router.  Its answer and the handler's next line are one step: a     *)
(* handler cancelled in between does what it does when cancelled before.   *)

(* Mutant: every acquire_session asks the registry.                        *)
MutantNoCache(s) ==
    /\ atRouter[s] = "acquire"
    /\ atRouter' = [atRouter EXCEPT ![s] = "fetching"]
    /\ UNCHANGED <<pool, manifests, actors, pc, name, handle, client, sent, abandoned>>

(* A cached manifest is never fetched again.                               *)
LookUp(s) ==
    /\ atRouter[s] = "acquire"
    /\ manifest' = [manifest EXCEPT ![s] = cached[Wants[s]]]
    /\ atRouter' = [atRouter EXCEPT ![s] = IF manifest'[s] = NoManifest THEN "fetching" ELSE "placing"]
    /\ UNCHANGED <<pool, registered, cached, actors, pc, name, handle, client, sent, abandoned>>

FetchReturns(s) ==
    /\ atRouter[s] = "fetching"
    /\ manifest' = [manifest EXCEPT ![s] = registered[Wants[s]]]
    /\ cached' = [cached EXCEPT ![Wants[s]] = registered[Wants[s]]]
    /\ atRouter' = [atRouter EXCEPT ![s] = "placing"]
    /\ UNCHANGED <<pool, registered, actors, pc, name, handle, client, sent, abandoned>>

Reserve(s, a) ==
    /\ atRouter[s] = "placing"
    /\ atRouter' = [atRouter EXCEPT ![s] = "none"]
    /\ manifest' = [manifest EXCEPT ![s] = NoManifest]
    /\ IF pc[s] = "acquiring"
       THEN name' = [name EXCEPT ![s] = a] /\ Goto(s, "reserved")
       ELSE UNCHANGED <<name, pc>>
    /\ UNCHANGED <<registered, cached, handle, client, sent, abandoned>>

(* The slots of an actor are those of the manifest at hand, which need not *)
(* be the one the actor was started with.                                  *)
Reuse(s, a) ==
    /\ Reserve(s, a)
    /\ serves[a] = Wants[s]
    /\ Cardinality(SP!HoldersOf(a)) < manifest[s]
    /\ SP!Join(s, a)
    /\ UNCHANGED actors

(* The names of spawned actors are never used twice.                       *)
Spawn(s, a) ==
    /\ Reserve(s, a)
    /\ limit[a] = NoManifest
    /\ SP!Provide(s, a, Wants[s])
    /\ limit' = [limit EXCEPT ![a] = manifest[s]]
    /\ up' = up \cup {a}
    /\ UNCHANGED table

(* The fetch fails, or there is no room, or a worker manager raises.       *)
AcquireRaises(s) ==
    /\ atRouter[s] \in {"fetching", "placing"}
    /\ atRouter' = [atRouter EXCEPT ![s] = "none"]
    /\ manifest' = [manifest EXCEPT ![s] = NoManifest]
    /\ Goto(s, IF pc[s] = "acquiring" THEN "unwinding" ELSE pc[s])
    /\ UNCHANGED <<pool, registered, cached, actors, name, handle, client, sent, abandoned>>

(* A session the router does not know is nothing to release.               *)
Release(s) ==
    /\ atRouter[s] = "release"
    /\ atRouter' = [atRouter EXCEPT ![s] = "none"]
    /\ holder' = [holder EXCEPT ![s] = NoActor]
    /\ Goto(s, IF pc[s] = "releasing" THEN "ended" ELSE pc[s])
    /\ UNCHANGED <<serves, manifests, actors, name, handle, client, sent, abandoned>>

(* An actor's process ends, by a kill or by itself, and with it the calls  *)
(* to it.                                                                  *)
Dies(a) ==
    /\ up' = up \ {a}
    /\ table' = [table EXCEPT ![a] = {}]
    /\ sent' = [s \in Session |-> IF name[s] = a THEN <<>> ELSE sent[s]]
    /\ UNCHANGED <<manifests, limit, pc, name, handle, client, atRouter, abandoned>>

Evict(a) ==
    /\ a \in SP!Pool
    /\ SP!Retire({a})
    /\ Dies(a)

(* A heartbeat does not list an idle actor: its record goes, its process   *)
(* stays.                                                                  *)
Forget(a) ==
    /\ a \in SP!Pool
    /\ SP!Retire({a})
    /\ UNCHANGED <<manifests, actors, gateway>>

(* A new router knows nothing; calls to the old one raise.                 *)
ReplaceRouter ==
    /\ SP!Restart
    /\ cached' = [m \in Model |-> NoManifest]
    /\ manifest' = [s \in Session |-> NoManifest]
    /\ atRouter' = [s \in Session |-> "none"]
    /\ pc' = [s \in Session |->
                CASE atRouter[s] # "none" /\ pc[s] = "acquiring" -> "unwinding"
                  [] atRouter[s] # "none" /\ pc[s] = "releasing" -> "ended"
                  [] OTHER -> pc[s]]
    /\ UNCHANGED <<registered, actors, name, handle, client, sent, abandoned>>

-----------------------------------------------------------------------------
(* The transcript actors.                                                  *)

(* An actor admits one session at least, whatever its manifest says.       *)
Room(a) ==
    \/ Cardinality(table[a]) = 0
    \/ Cardinality(table[a]) < limit[a]

Arrives(s, call) ==
    /\ sent[s] # <<>> /\ Head(sent[s]) = call
    /\ sent' = [sent EXCEPT ![s] = Tail(@)]
    /\ UNCHANGED <<pool, manifests, limit, up, pc, name, handle, client, atRouter, abandoned>>

(* At capacity the call raises and the table stays as it is.               *)
OpenSession(s) ==
    /\ Arrives(s, "open")
    /\ table' = [table EXCEPT ![name[s]] = IF Room(name[s]) THEN @ \cup {s} ELSE @]

CloseSession(s) ==
    /\ Arrives(s, "close")
    /\ table' = [table EXCEPT ![name[s]] = @ \ {s}]

ActorDies(a) ==
    /\ a \in up
    /\ Dies(a)
    /\ UNCHANGED pool

-----------------------------------------------------------------------------

Handler(s) ==
    \/ SetupEnds(s) \/ CallAcquire(s) \/ Introduce(s) \/ CallOpen(s)
    \/ OpenAnswered(s) \/ StreamOver(s) \/ CleanUp(s) \/ CloseAnswered(s)

RouterAnswers(s) ==
    \/ LookUp(s) \/ FetchReturns(s)
    \/ \E a \in Actor : Reuse(s, a) \/ Spawn(s, a)
    \/ AcquireRaises(s) \/ Release(s)

ActorAnswers(s) == OpenSession(s) \/ CloseSession(s)

Next ==
    \/ \E s \in Session : Handler(s) \/ Cancel(s) \/ RouterAnswers(s) \/ ActorAnswers(s)
    \/ \E a \in Actor : Evict(a) \/ Forget(a) \/ ActorDies(a)
    \/ \E m \in Model : RegisterAgain(m)
    \/ ReplaceRouter

(* The gateway's event loop runs, calls are answered, streams come to an   *)
(* end (StreamingRecognize says when).                                     *)
Fairness ==
    \A s \in Session :
        WF_vars(Handler(s)) /\ WF_vars(RouterAnswers(s)) /\ WF_vars(ActorAnswers(s))

Spec == Init /\ [][Next]_vars /\ Fairness

-----------------------------------------------------------------------------
(* Types of all variables.                                                 *)
TypeOK ==
    /\ serves \in [Actor -> Model \cup {NoModel}]
    /\ holder \in [Session -> Actor \cup {NoActor}]
    /\ registered \in [Model -> Slots]
    /\ cached \in [Model -> Slots \cup {NoManifest}]
    /\ manifest \in [Session -> Slots \cup {NoManifest}]
    /\ limit \in [Actor -> Slots \cup {NoManifest}]
    /\ up \subseteq Actor
    /\ table \in [Actor -> SUBSET Session]
    /\ pc \in [Session -> Point]
    /\ name \in [Session -> Actor \cup {NoActor}]
    /\ handle \in [Session -> BOOLEAN]
    /\ client \in [Session -> {"here", "gone"}]
    /\ atRouter \in [Session -> {"none", "acquire", "fetching", "placing", "release"}]
    /\ sent \in [Session -> {<<>>, <<"open">>, <<"open", "close">>, <<"close">>}]
    /\ abandoned \subseteq Session

(* Where the two books meet: a session in the table of an actor the router *)
(* knows is placed on it, however the handler that opened it was cut off.  *)
OpenIsPlaced == \A a \in SP!Pool : table[a] \subseteq SP!HoldersOf(a)

(* The router's count and the actor's agree well enough: an actor the      *)
(* router gives out never answers open_session with "actor at capacity",   *)
(* although models are registered anew with more slots or fewer while      *)
(* their actors run, unless that happens during the router's first query   *)
(* (RegisterAlone).                                                        *)
NeverRefused ==
    \A s \in Session :
        sent[s] # <<>> /\ Head(sent[s]) = "open" /\ name[s] \in up => Room(name[s])

(* A stream gives its slot back whichever way it leaves, also when its     *)
(* actor or the router is lost under it: once it has ended and no call of  *)
(* its own is under way, it holds none.  Excepted are the streams that were*)
(* cancelled in an await their clean-up needs.                             *)
SlotsReturned ==
    \A s \in Session : pc[s] = "ended" /\ atRouter[s] = "none" /\ s \notin abandoned =>
        holder[s] = NoActor

(* The request path of README.md:27, which ends with release_session, for  *)
(* every stream: one that has ended gives its slot back in the end.        *)
SlotReturned == \A s \in Session : pc[s] = "ended" ~> holder[s] = NoActor

(* The router stops an actor only when no stream works with it: no eviction*)
(* takes the actor from a handler between its placement and the answer of  *)
(* its close_session.                                                      *)
UsesActor(s, a) ==
    /\ name[s] = a
    /\ pc[s] \in {"reserved", "introduced", "opening", "streaming", "unwinding", "closing"}
EvictionSparesStreams ==
    [][\A a \in Actor : serves[a] # NoModel /\ serves'[a] = NoModel /\ a \in up \ up' =>
           \A s \in Session : ~UsesActor(s, a)]_vars

-----------------------------------------------------------------------------
(* Why the properties hold: their inductive strengthening.                 *)

(* What the handler has in hand at each of its points.                     *)
HandlerInv ==
    \A s \in Session :
        /\ pc[s] \in {"setup", "acquiring"} => name[s] = NoActor
        /\ pc[s] \in {"reserved", "releasing"} => name[s] # NoActor
        /\ pc[s] \in {"introduced", "opening", "streaming", "closing"} => handle[s]
        /\ pc[s] = "reserved" => ~handle[s]
        /\ handle[s] => name[s] # NoActor

(* Its call to the router.                                                 *)
Acquires == {"acquire", "fetching", "placing"}
RouterCallsInv ==
    \A s \in Session :
        /\ pc[s] = "acquiring" => atRouter[s] \in Acquires
        /\ pc[s] = "releasing" => atRouter[s] = "release"
        /\ pc[s] \notin {"acquiring", "releasing", "ended"} => atRouter[s] = "none"
        /\ atRouter[s] \in Acquires =>
               /\ name[s] = NoActor /\ holder[s] = NoActor
               /\ pc[s] = "acquiring" \/ (pc[s] = "ended" /\ s \in abandoned)
        /\ atRouter[s] = "placing" => manifest[s] # NoManifest
        /\ atRouter[s] = "release" =>
               /\ pc[s] \in {"releasing", "ended"}
               /\ sent[s] = <<>>
               /\ \A a \in Actor : s \notin table[a]

(* Its calls to the actor, and what has come of them.                      *)
ActorCallsInv ==
    \A s \in Session :
        /\ sent[s] # <<>> =>
               /\ handle[s] /\ name[s] \in up
               /\ pc[s] \in {"opening", "unwinding", "closing", "ended"}
        /\ pc[s] \in {"opening", "unwinding"} => sent[s] \in {<<>>, <<"open">>}
        /\ pc[s] = "closing" => sent[s] # <<"open">>
TableInv ==
    \A a \in Actor : \A s \in table[a] :
        /\ name[s] = a /\ handle[s] /\ a \in up
        /\ pc[s] \in {"opening", "streaming", "unwinding", "closing", "ended"}
        /\ sent[s] \in {<<>>, <<"close">>}
        /\ pc[s] = "closing" => sent[s] # <<>>

(* Names stand for actors that were started, once each.                    *)
StartedInv ==
    /\ \A a \in Actor : a \in up \/ serves[a] # NoModel => limit[a] # NoManifest
    /\ \A s \in Session : name[s] # NoActor => limit[name[s]] # NoManifest

(* The streams that work with an actor or whose calls to it, or entry in   *)
(* its table, outlived their handler.  Of an actor in the pool they are    *)
(* all placed on it; nobody else is but streams that gave up while they    *)
(* were being placed.                                                      *)
Claims(a) ==
    {s \in Session :
        /\ name[s] = a
        /\ pc[s] = "ended" => sent[s] # <<>> \/ s \in table[a]}
PlacementInv ==
    /\ \A a \in SP!Pool : Claims(a) \subseteq SP!HoldersOf(a)
    /\ \A s \in Session : holder[s] # NoActor =>
           /\ serves[holder[s]] # NoModel
           /\ \/ name[s] = holder[s]
              \/ name[s] = NoActor /\ pc[s] = "ended" /\ s \in abandoned

(* The manifests of an actor in the pool, of the router's cache and of the *)
(* calls under way are one; an actor has no more claims than slots.        *)
ManifestInv ==
    /\ \A a \in SP!Pool : limit[a] = cached[serves[a]]
    /\ \A s \in Session :
           /\ atRouter[s] = "placing" => manifest[s] = cached[Wants[s]]
           /\ atRouter[s] = "fetching" /\ cached[Wants[s]] # NoManifest =>
                  registered[Wants[s]] = cached[Wants[s]]
ClaimsInv ==
    \A a \in Actor : Cardinality(Claims(a)) <= 1 \/ Cardinality(Claims(a)) <= limit[a]

LifecycleInv ==
    /\ TypeOK
    /\ HandlerInv /\ RouterCallsInv /\ ActorCallsInv /\ TableInv
    /\ StartedInv /\ PlacementInv /\ SlotsReturned
    /\ RegisterAlone => ManifestInv /\ ClaimsInv

=============================================================================
