--------------------------- MODULE WorkerManager ---------------------------
(***************************************************************************)
(* The Ray actor WorkerManager of each node                                *)
(* (src/sayo_host/worker_manager/manager.py) and the actor containers it   *)
(* starts and stops (src/sayo_image/transcript_actor/bootstrap.py).        *)
(*                                                                         *)
(* spawn and evict are coroutines with one long await each: spawn polls    *)
(* Ray for the actor's name, evict awaits the actor's unload.  job[a] says *)
(* where the call about actor a is; its last two values are a reply on its *)
(* way to the router.  A name is a fresh uuid, so it is used once.         *)
(***************************************************************************)
EXTENDS Integers, FiniteSets, FiniteSetsExt

CONSTANTS
    Node, Model, Actor,
    MinVram,    \* GPU memory an instance of the model takes once it is loaded
    Gpu,        \* Gpu[n]: GPU memory of node n
    Faults,     \* the failures that may happen, see FaultKinds
    NoNode, NoModel

(* "container_dies": a container or its actor ends by itself.              *)
(* "docker_error": docker stop or rm fails.  "gpu_query": pynvml fails.    *)
(* "wm_crash": a worker manager dies and is made anew.                     *)
(* "replace": the router is killed and made anew.                          *)
FaultKinds == {"container_dies", "docker_error", "gpu_query", "wm_crash", "replace"}

VARIABLES
    tracked,    \* tracked[n]: keys of _actors of the worker manager of n
    ctr,        \* state of the container of each actor
    host,       \* node its container runs on
    image,      \* model its container serves
    job         \* the spawn or evict call about each actor

wmVars == <<tracked, ctr, host, image, job>>

(* "booting": started; "registered": its name is known to Ray while the    *)
(* model loads; "serving": loaded; "dead": the actor is gone and the       *)
(* container, if any, is useless; "removed": stopped and removed.          *)
CtrState == {"unused", "booting", "registered", "serving", "dead", "removed"}
Running == {a \in Actor : ctr[a] \in {"booting", "registered", "serving"}}
JobState == {"none", "spawning", "evicting", "spawned", "failed", "evicted"}
Replies == {"spawned", "failed", "evicted"}

Named(a) == ctr[a] \in {"registered", "serving"}

Init ==
    /\ tracked = [n \in Node |-> {}]
    /\ ctr = [a \in Actor |-> "unused"]
    /\ host = [a \in Actor |-> NoNode]
    /\ image = [a \in Actor |-> NoModel]
    /\ job = [a \in Actor |-> "none"]

Track(n, A) == tracked' = [tracked EXCEPT ![n] = A]

-----------------------------------------------------------------------------
(* The containers.                                                         *)

(* bootstrap creates the named actor; its constructor has still to load.   *)
ContainerRegisters(a) ==
    /\ ctr[a] = "booting"
    /\ ctr' = [ctr EXCEPT ![a] = "registered"]
    /\ UNCHANGED <<tracked, host, image, job>>

ContainerLoads(a) ==
    /\ ctr[a] = "registered"
    /\ ctr' = [ctr EXCEPT ![a] = "serving"]
    /\ UNCHANGED <<tracked, host, image, job>>

ContainerDies(a) ==
    /\ "container_dies" \in Faults
    /\ a \in Running
    /\ ctr' = [ctr EXCEPT ![a] = "dead"]
    /\ UNCHANGED <<tracked, host, image, job>>

-----------------------------------------------------------------------------
(* spawn(manifest): docker run, then wait for the name.  A pull or a run   *)
(* that fails changes nothing here and the caller gets the exception.      *)

SpawnRuns(n, a, m) ==
    /\ ctr[a] = "unused"
    /\ ctr' = [ctr EXCEPT ![a] = "booting"]
    /\ host' = [host EXCEPT ![a] = n]
    /\ image' = [image EXCEPT ![a] = m]
    /\ job' = [job EXCEPT ![a] = "spawning"]
    /\ UNCHANGED tracked

(* Mutant: the entry in _actors is not made.                               *)
MutantSpawnUntracked(a) ==
    /\ job[a] = "spawning"
    /\ Named(a)
    /\ job' = [job EXCEPT ![a] = "spawned"]
    /\ UNCHANGED <<tracked, ctr, host, image>>

SpawnSeesName(a) ==
    /\ job[a] = "spawning"
    /\ Named(a)
    /\ Track(host[a], tracked[host[a]] \cup {a})
    /\ job' = [job EXCEPT ![a] = "spawned"]
    /\ UNCHANGED <<ctr, host, image>>

(* Mutants: the container is left running; the wait has no end.            *)
MutantTimeoutLeavesContainer(a) ==
    /\ job[a] = "spawning"
    /\ job' = [job EXCEPT ![a] = "failed"]
    /\ UNCHANGED <<tracked, ctr, host, image>>

MutantNoDeadline(a) == FALSE /\ UNCHANGED wmVars

(* The wait ends without the name; the container is stopped and removed,   *)
(* errors of docker are swallowed, and the exception goes to the caller.   *)
SpawnTimesOut(a) ==
    /\ job[a] = "spawning"
    /\ \/ ctr' = [ctr EXCEPT ![a] = "removed"]
       \/ "docker_error" \in Faults /\ UNCHANGED ctr
    /\ job' = [job EXCEPT ![a] = "failed"]
    /\ UNCHANGED <<tracked, host, image>>

-----------------------------------------------------------------------------
(* evict(actor_name): the entry goes first, then the actor, then the       *)
(* container.  An unknown name is answered at once, and no failure of Ray  *)
(* or docker reaches the caller.                                           *)

EvictCall(n, a) ==
    /\ job[a] = "none"
    /\ job' = [job EXCEPT ![a] = IF a \in tracked[n] THEN "evicting" ELSE "evicted"]
    /\ Track(n, tracked[n] \ {a})
    /\ UNCHANGED <<ctr, host, image>>

EvictStops(a) ==
    /\ job[a] = "evicting"
    /\ \/ ctr' = [ctr EXCEPT ![a] = "removed"]
       \/ "docker_error" \in Faults /\ ctr' = [ctr EXCEPT ![a] = "dead"]
    /\ job' = [job EXCEPT ![a] = "evicted"]
    /\ UNCHANGED <<tracked, host, image>>

(* The caller has the reply, or nobody waits for it any more.              *)
Reply(a) ==
    /\ job[a] \in Replies
    /\ job' = [job EXCEPT ![a] = "none"]
    /\ UNCHANGED <<tracked, ctr, host, image>>

(* The worker manager of n dies with its calls and is made anew with an    *)
(* empty table; the containers go on.                                      *)
WorkerRestarts(n) ==
    /\ "wm_crash" \in Faults
    /\ Track(n, {})
    /\ job' = [a \in Actor |-> IF host[a] = n THEN "none" ELSE job[a]]
    /\ UNCHANGED <<ctr, host, image>>

-----------------------------------------------------------------------------
(* heartbeat_payload: what the GPUs report, which is never more than they  *)
(* have, and the names in the table, whatever has become of their          *)
(* containers.                                                             *)

LoadedVram(n) ==
    LET loaded == {a \in Actor : ctr[a] = "serving" /\ host[a] = n}
    IN  MapThenSumSet(LAMBDA a : MinVram[image[a]], loaded)

UsedVram(n) == IF LoadedVram(n) \in 0..Gpu[n] THEN LoadedVram(n) ELSE Gpu[n]

Payloads(n) ==
    {[total |-> Gpu[n], used |-> UsedVram(n), alive |-> tracked[n]]} \cup
    (IF "gpu_query" \in Faults
     THEN {[total |-> 0, used |-> 0, alive |-> tracked[n]]} ELSE {})

=============================================================================
