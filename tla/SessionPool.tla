---------------------------- MODULE SessionPool ----------------------------
(***************************************************************************)
(* What the placement service promises to the gateways, with nothing of    *)
(* how it keeps the promise: no lock, no counters, no VRAM, no worker.     *)
(*                                                                         *)
(* The pool is a set of transcript actors, each serving one model.  A      *)
(* session is placed on one actor, never on more than the model's capacity *)
(* of them share an actor, and an actor leaves the pool only when no       *)
(* session is placed on it.  MasterRouter.tla implements this module.      *)
(***************************************************************************)
EXTENDS Integers, FiniteSets

CONSTANTS
    Session,    \* streams that ask for a transcript actor
    Model,      \* model ids
    Actor,      \* names of transcript actors
    Capacity,   \* Capacity[m]: sessions one actor of model m may serve at once
    NoActor, NoModel

VARIABLES
    serves,     \* serves[a]: the model actor a serves, NoModel outside the pool
    holder      \* holder[s]: the actor session s is placed on, or NoActor

poolVars == <<serves, holder>>

Pool == {a \in Actor : serves[a] # NoModel}
HoldersOf(a) == {s \in Session : holder[s] = a}

Init ==
    /\ serves = [a \in Actor |-> NoModel]
    /\ holder = [s \in Session |-> NoActor]

(* A session joins an actor that still has a free slot.                    *)
Join(s, a) ==
    /\ holder[s] = NoActor
    /\ a \in Pool
    /\ Cardinality(HoldersOf(a)) < Capacity[serves[a]]
    /\ holder' = [holder EXCEPT ![s] = a]
    /\ UNCHANGED serves

(* A new actor enters the pool for a session, which is placed on it.       *)
Provide(s, a, m) ==
    /\ holder[s] = NoActor
    /\ a \notin Pool
    /\ HoldersOf(a) = {}
    /\ serves' = [serves EXCEPT ![a] = m]
    /\ holder' = [holder EXCEPT ![s] = a]

Leave(s) ==
    /\ holder[s] # NoActor
    /\ holder' = [holder EXCEPT ![s] = NoActor]
    /\ UNCHANGED serves

(* Actors nobody is placed on leave the pool, possibly several at once.    *)
Retire(A) ==
    /\ \A a \in A : HoldersOf(a) = {}
    /\ serves' = [a \in Actor |-> IF a \in A THEN NoModel ELSE serves[a]]
    /\ UNCHANGED holder

(* The service is replaced by one that knows nothing.                      *)
Restart ==
    /\ serves' = [a \in Actor |-> NoModel]
    /\ holder' = [s \in Session |-> NoActor]

Next ==
    \/ \E s \in Session, a \in Actor : Join(s, a)
    \/ \E s \in Session, a \in Actor, m \in Model : Provide(s, a, m)
    \/ \E s \in Session : Leave(s)
    \/ \E A \in SUBSET Pool : Retire(A)
    \/ Restart

Spec == Init /\ [][Next]_poolVars

=============================================================================
