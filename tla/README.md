# Verification of sayo-system

TLA+ models of the sayo speech-to-text backend (`src/`), TLC configurations that check
them on small instances, and proofs checked by TLAPS. The models are translated from the
Python code; `PROJECT.json` names, for each definition, the lines it stands for.

## 1. The system

| Part | Code | State it keeps | Operations |
|------|------|----------------|------------|
| MasterRouter | `sayo_host/router/router.py` | nodes with their VRAM, an `ActorRecord` per transcript actor, placements of sessions, a manifest cache, one `asyncio.Lock` | `acquire_session`, `release_session`, `heartbeat`, replacement by `main` |
| WorkerManager, one per node | `sayo_host/worker_manager/manager.py` | `_actors`: the containers it started | `spawn`, `evict`, `heartbeat_payload`, a heartbeat loop |
| Actor container | `sayo_image/transcript_actor/bootstrap.py` | a Ray worker with one `TranscriptActor` | register the name, load the model, shut down |
| TranscriptActor | `sayo_image/transcript_actor/actor.py` | a session table; per session two bounded queues, a closed flag and a thread | `open_session`, `feed`, `next_result`, `close_session`, `unload` |
| Gateway | `sayo_host/gateway/server.py` | one handler per stream, with a feed task and a prefetched `next_result` | `StreamingRecognize`, `HealthCheck` |
| Model registry | `sayo_host/registry/*.py` | manifests in memory and on disk, actor images | register, unregister, list, get |
| Silero VAD | `sayo_image/vad/silero.py` | the gate of one session | `is_speech` |
| Model repository, settings, logging, admin HTTP, `sayoctl`, proto, deploy | | none that changes after start | |

How they interact. A stream reaches the gateway, which calls the router's
`acquire_session`. The router fetches the manifest (HTTP, outside its lock), then under
its lock reuses an actor with a free slot, or evicts and spawns through a worker manager,
awaiting both calls with the lock held. The worker manager starts a container and polls Ray
for the actor's name. The gateway then talks to the actor directly: `open_session`,
concurrently `feed` and `next_result`, `close_session`, and at last calls the router's
`release_session`. Every five seconds a worker manager sends the router its GPU reading and
its list of actors; that call waits for the router's lock like any other.

What is hard here:

* methods of asyncio actors interleave at every `await`, and the router awaits inside its
  critical section while heartbeats, releases and other acquires queue for the lock;
* heartbeats carry state that may be old when the router gets the lock for them;
* worker managers and routers are made anew with empty tables while containers run on;
* in the transcript actor an event loop and threads share bounded queues, puts have time
  limits but are not withdrawn, and sessions are closed while calls wait on them;
* the gateway's handler is an async generator, cancelled in different ways at an await
  and at a yield.

What makes each part correct:

* router: counters equal placements, no actor is given more sessions than it admits,
  nothing in use is evicted or dropped, the room found for a spawn is still there when it
  is used, every acquire ends;
* router and worker managers: the tables agree, no running container is unknown to
  everyone, no actor in use is stopped, VRAM is not overcommitted, dead actors go;
* transcript actor: transcripts arrive complete and in order, threads end, calls are
  answered;
* gateway: every stream ends, the session is closed and then released;
* streams, router and actors together: what the router has placed and what the actors have
  open stay compatible, slots come back, nobody is refused by the actor they were given,
  no actor in use is evicted;
* the audio path: the actor is fed the client's bytes whole and in order, in chunks that
  decode, and the gate closes exactly after the silence that was asked for;
* registry: memory, disk and images agree, whatever registrations overlap or fail.

## 2. Modules

| Module | What it is |
|--------|------------|
| `SessionPool` | abstract specification: which sessions are placed on which actors |
| `MasterRouter` | the router, one action per stretch of code between awaits |
| `MasterRouter_proofs` | theorems about it |
| `WorkerManager` | worker managers and containers |
| `ControlPlane` | router, worker managers and containers composed, with calls, replies, the lock's queue and heartbeats under way |
| `TranscriptSession` | one session inside a transcript actor |
| `StreamingRecognize` | the gateway's handler composed with such a session and a client |
| `SessionLifecycle` | several streams against the router's slots, its manifest cache and the actors' session tables |
| `AudioPath` | what becomes of a client's audio, as functions: chunk sizes, the feed loop, decoding, the VAD gate |
| `AudioSession` | a session and its audio: what `AudioPath` states, of every session that is about to open |
| `Registry` | the model registry: catalog, registration pipeline, actor image tags, admin requests |
| `ControlPlane_proofs`, `TranscriptSession_proofs`, `StreamingRecognize_proofs`, `SessionLifecycle_proofs`, `AudioPath_proofs`, `AudioSession_proofs`, `Registry_proofs` | theorems about the module each is named after |
| `MCMasterRouter`, `MCControlPlane`, `MCSessionLifecycle`, `MCTranscript`, `MCRegistry` | values of the constants for TLC |

### MasterRouter

`known`, `vramTotal` and `vramUsed` are `_nodes`; `record` holds the `ActorRecord`s of all
nodes (`NoRecord` where there is none); `placement` is `_placements`; `cached` the keys of
`_manifest_cache`; `lock` the acquire that holds `_lock`. `last_used` is read for two things
only, so it is kept as those two: `recent` (less than thirty seconds ago; `Age` ends it) and
`older` (the order of two actors). `pc[s]` is the point at which the acquire of session `s`
awaits: `fetching` the manifest, `ready` for the lock, `evicting`, `spawning`; then `held`.
`target`, `victim` and `tried` are the locals of the one coroutine that holds the lock.

A method that awaits nothing under the lock (`release_session`, `heartbeat`, a reuse) is
one action guarded by `LockFree`. `acquire_session` with an eviction is `AcquireSession`,
`FetchReturns`, `BeginEvict`, then for each idle actor of the sweep one of `EvictMakesRoom`,
`EvictReturns`, `EvictRaises`, `EvictLookupRaises`, then `SpawnReturns` or `SpawnRaises`.
What the worker managers answer, what heartbeats list and what the GPUs report are
arbitrary here, so what is proved of the router does not rest on the worker managers. The
order of nodes and actors in dictionaries is arbitrary. A manifest never changes once it is
cached. VRAM is a natural number.

### WorkerManager and ControlPlane

`tracked[n]` is `_actors` of node `n`; `ctr`, `host` and `image` are the containers;
`job[a]` is the spawn or evict call about `a`, and then its reply. `spawn` is `SpawnRuns`
(docker run), then `SpawnSeesName` or `SpawnTimesOut`; `evict` is `EvictCall` (the entry
goes) and `EvictStops` (unload, kill, stop, remove). The constant `Faults` says which
failures a run admits.

`ControlPlane` gives each action of the router its counterpart: a call and its reply are
separate steps. `queue` is the waiters of `asyncio.Lock`, first come first served,
acquires, releases and heartbeats alike; `beat[n]` is the payload a worker manager is
waiting to deliver (a GPU reports no more than it has: `UsedVram`); `user[s]` is the actor name a gateway holds, which outlives a replaced
router. A payload is taken and put in the queue in one step: a payload that is old because
of the network, rather than of the wait for the lock, is not modelled.

### TranscriptSession and StreamingRecognize

`audioIn` and `resultsOut` are the two queues, `thread` the adapter thread, `puts` the puts
into `results_out` that have not landed (`future.result(timeout=5)` gives up waiting, it does
not cancel the put). The adapter may ask for a chunk, yield, raise, return, or hang; the VAD
gate may drop a chunk. `ActorDies` is the kill that follows an unload, or a crash.

`StreamingRecognize` is the handler from `open_session` on. `pc` is where it awaits or
yields. `ClientCancels` says what a cancellation does there: at an await the handler goes
to its clean-up; at the yield of a payload it is closed and first drains the prefetch; in
the wait for the feed task it is noted; in the await of `close_session` the rest of the
clean-up, `release_session` included, is skipped (`leaked`).

### SessionLifecycle

The streams of a gateway, each with its handler (`pc`, `name` = `actor_name`, `handle` = the
actor is not None), between two sets of books: the router's (`serves`, `holder`, taken from
`SessionPool`, which `MasterRouter` is proved to implement) and the actors' (`table[a]` =
`_sessions`). `atRouter[s]` and `sent[s]` are the calls of stream `s` under way, so that a
handler can be cancelled while its call goes on. `Cancel` says what that does: at
`acquire_session` (server.py:203) `actor_name` is never assigned, at `close_session` and
`release_session` the rest of the clean-up is skipped (`suppress(Exception)` lets a
`CancelledError` through), elsewhere the clean-up follows; the call is served all the same
or, if it has not arrived, was "never committed" (comment at server.py:449). gRPC cancels a
handler once. An eviction stops the process, a record dropped by a heartbeat (`Forget`) does
not, an actor may die, the router may be replaced. The gateway's process itself does not
crash here. A step of the router's book is a step of the pool: `LifecycleImplementsPool`
(section 5). The calls of one stream to one actor arrive in their order, as Ray delivers
them; those of different streams do not.

Manifests are three numbers here: what the registry says now (`registered`), what the router
has cached (`cached`), what the actor was started with (`limit`). An `acquire_session` looks
its manifest up or fetches it before it waits for the lock, and keeps it (`manifest[s]`);
`_find_reusable_actor` compares with it and not with the actor's record (router.py:209).
`NeverRefused` therefore rests on the cache: because a manifest is never fetched again while
the records live, the router counts with the number the actor has. `RegisterAlone` excludes
a new registration during the router's first query of that model. The code does not see to
that, and deploy/distributed/README.md:69 ("once per model") overlooks it: two first
acquires may both miss the cache and bring home different manifests; with `RegisterAlone`
FALSE, TLC finds the second of them placed on an actor that answers "actor at capacity".
The assumption keeps the rest of the property visible.

### AudioPath

Functions of their inputs, with no state: `ResolveChunkMs` and `TargetBytes` make the size of
a chunk, `FeedLoop` takes the client's messages through the buffer of `_feed_loop` and its
flush (a recursive function over the messages), `Decodes` says which chunks `chunk_to_float32` accepts, `IsSpeech` is one call of the
gate and `Passes` the warm-up and the gate over a session's chunks. Silero's probability is
only whether it reaches the threshold (`Hearing`); samples are counted and not heard. The
definition of the gate that `GateIsHysteresis` compares with knows no buffer and no counter:
a chunk is dropped when it completes no window of speech and enough silent windows end
there. These statements are constant. `AudioSession` makes them properties of a session that is
about to open (`MayOpen`), beside the states of `TranscriptSession`, which takes the gate's
verdict as arbitrary; `MCTranscript` gives the audio its values.

Seen while modelling: the comment at the warm-up (actor.py:314) lets the gate's state
"warm up", but the test `fed > warmup and not is_speech(...)` does not call the gate for
those chunks at all, so it hears its first chunk when the warm-up is over. `Passes` does as
the code does.

### Registry

`cache` and `disk` are the catalog's `_cache` and its files (`Torn` is a file that cannot be
parsed), `images` the actor images by tag. `at[c]`, `about`, `ref` and `option` are the
admin request `c`, which runs in a thread of its own; the catalog's lock makes each of its
methods one step, and between them requests interleave. A manifest is represented by its
`source_image`, a record of a repository, its last part, a tag and a digest; `ModelIn` is what
an image's `model.yaml` declares. `TagOf` composes the actor tag as `_compose_actor_tag` does,
of `Slug` (from the last part of the repository, or else from the model name the image declares) and `Suffix`
(the digest, or else the tag, or else "latest"); the cleaning of the characters is in the
constants `SlugOf` and `ModelSlug`. `Label` is the tag or
"latest", so that a name without a tag and the same name with `latest` spelt out are one version.
References to one version that differ in the repository, or in that spelling, share a tag
(`Mirrored`): the later build takes the tag from the earlier one, and
`ImageBehindManifest` excepts them. Builds, file writes,
deletions and image removals may fail, and `Restart` may cut a write short. The history
variable `failed` holds the models whose last call left memory and file apart and was
answered with an error.

`RemoveAlone` says that an unregistration with `remove_image` does not overlap other
requests about its model. The code does not see to that: without it a registration can save
a manifest whose image is removed under it (wrapper.py:201). The run assumes it, because
nothing in the repository promises more, and says what holds then.

## 3. Runs

| Run | Instance | Shows |
|-----|----------|-------|
| `router_safety` | 3 sessions, 2 models of 1 and 2 GB with 1 and 2 slots, 2 nodes, 3 actors | the safety of the router's tables; evictions take the least recently used actor |
| `router_liveness` | 2 sessions, 2 models, 2 nodes, 2 actors, the manifest of one model admits 0 sessions, that of the other 2 | every acquire ends; `MasterRouter` implements `SessionPool` |
| `control_plane` | 2 sessions, 2 models, 1 node of 2 GB, 3 actors; containers die | the two tables agree, no orphan; the inductive invariant of their agreement |
| `control_plane_faults` | 2 sessions, 1 model, 1 node, 1 actor name; every failure | nothing in use is stopped; no deadlock of router and worker manager |
| `overcommit` | no failures | **violated**: see finding 1 |
| `dead_actor` | containers die | **violated**: see finding 2 |
| `transcript` | queues of 2 and 1, 3 chunks, 3 results; streams of up to 3 messages, up to 4 chunks over 8 windows | order, completeness, ends of threads and calls; the audio path against its reference definitions |
| `streaming` | queues of 1, 2 chunks, 2 results | the handler ends and closes before it releases |
| `half_close` | the same | **violated**: see finding 3 |
| `lifecycle` | 3 streams of one model, 2 actors, manifests of 0 and 2 slots registered in turn | placements and session tables stay compatible |
| `slot_leak` | 1 stream, 1 actor | **violated**: see finding 4 |
| `registry` | 2 requests, 4 references (by tag, by digest, a mirror, a name of its own), 2 models; every failure | memory and files agree after a restart as before it; no manifest without its image |

The invariants whose names end in `Inv` are the inductive ones of section 5: each was checked
by TLC before it was proved, and stays in its run so that a mutant can be held against it.

The bounds and why they are enough. Three sessions let one evict for a second while a third
releases or reuses; two nodes let the sweep change nodes and heartbeats of another node
come in; two models with different sizes let an eviction make room, or not; three actor
names let one be evicted, one spawned and one in use. A name is never used twice by
`WorkerManager` (uuids); in `MasterRouter` a name without a record may be given again, which
only adds behaviours. A session id that has ended stands for a fresh one. In `transcript` the
queues hold fewer items than the session produces, so each is full at some time; messages of 0
to 5 bytes meet targets from 2 bytes up, so that a message holds no chunk, several, or parts
of two; silences are shorter than a window, one window and several; chunks end within windows
and at their ends. In `lifecycle` a third stream meets an actor whose two slots are taken or
just being given back, an actor of no slots admits one (actor.py:59), and a name is never
used twice, so two names let an actor be replaced once. In `registry` two requests reach
every overlap of one read and one write of the catalog, two versions of a model let a
manifest be replaced, and a mirror of one of them shares its tag. `MaxChunk`
and `MaxResult` bound the chunks and results of a session; an adapter past the bound can
still raise, return or hang. Deadlock is checked, except where a session really ends
(`transcript`, `streaming`, `half_close`).

Symmetry (of requests, sessions, nodes and actors as the MC modules define it) is used for safety runs only.

### Findings

1. `NoOvercommit`. `heartbeat` (router.py:75) replaces the reservation made at router.py:240
   by the GPU reading. `spawn` answers when the name is registered (manager.py:205), before
   the model is loaded, so the next reading does not count it yet and a second model is
   placed on the same memory: in the run a model of 2 GB beside one of 1 GB on a GPU of
   2 GB. README.md:22 promises VRAM-aware placement.
2. `DeadActorsForgotten`. The heartbeat's list is the worker manager's dictionary, not what
   runs (manager.py:192), although router.py:76 takes it for the truth about running
   actors. A dead actor is handed to sessions for ever.
3. `HalfCloseEnds`. The end of a client's audio reaches nobody (server.py:452-454), so a
   client that waits for the end of the results, as tests/smoke/run.py:89 does, waits until
   the adapter ends by itself.
4. `SlotReturned`. README.md:27 ends the request path with `release_session`. A handler that is
   cancelled while it awaits `acquire_session` (server.py:203) or `close_session`
   (server.py:332) never calls it, and nothing else in the router removes a placement: the
   slot is lost and its actor never idle again. `SlotsReturned` says that these awaits, and a
   `release_session` that was never committed, are the only ways to lose a slot.

### Mutants

Definitions named `Mutant...` are not part of the models. Each is a plausible mistake in the
definition that follows it, and PROJECT.json says which property finds it.

## 4. Fairness

* `MasterRouter`: weak fairness of the answers to an HTTP or worker manager call, strong
  fairness of `Enter`, since `asyncio.Lock` wakes its waiters in the order of their arrival
  and so none waits for ever while the lock is released again and again. `ControlPlane`
  models that queue itself and needs weak fairness only.
* The answers are fair because the waits have time limits: ten seconds for HTTP
  (router.py:63), `SAYO_ACTOR_REGISTER_TIMEOUT` for a spawn (manager.py:118), docker's own
  limits for stop and remove. One wait has none: `handle.unload.remote()` in `evict`
  (manager.py:152). `AcquireReturns` assumes that it ends, by an answer or by the actor's
  death.
* `ControlPlane!LiveSpec` adds that heartbeats go on, time passes and streams are released.
* `TranscriptSession`: the event loop and the thread run, the time-limited waits end, an
  unloaded actor is killed by its caller (manager.py:157, bootstrap.py:117). The adapter is
  not assumed to return from a call, except in `ThreadEnds` and in `StreamingRecognize`.
* `SessionLifecycle`: handlers run, calls that have arrived are answered, streams end
  (`StreamingRecognize` says when). Clients need not cancel, actors need not die.
* `StreamingRecognize`: the handler runs, clients read what they are sent. A client need not
  send, half-close or cancel.

## 5. Proofs

Every theorem holds for all values of the constants that satisfy the modules' `ASSUME`s,
which TLC checks on the instances of section 3. Each component has one inductive invariant
(`RouterInv`, `ControlInv`, `SessionInv`, `LifecycleInv`, `RegistryInv`), a conjunction of named
parts stated in its module; a lemma per part takes it over every action.

| Module | Safety properties proved | Needs |
|--------|--------------------------|-------|
| `MasterRouter` | all that its runs check, and `PoolSpec` | |
| `ControlPlane` | `TypeOK`, `NeverStopUsed`; it runs `MasterRouter`, so `RouterInv` and `PoolSpec` | |
| | `RecordedIsTracked` | no worker manager crashes |
| | `NoOrphan` | `Tidy`: docker does not refuse, no worker manager crashes, the router is not replaced |
| `TranscriptSession` | `TypeOK`, `TranscriptsInOrder`, `EndIsComplete` | |
| `StreamingRecognize` | it runs `TranscriptSession`, so the same; `TypeOK`, `ReleasedIsClosed` | |
| `SessionLifecycle` | `TypeOK`, `OpenIsPlaced`, `SlotsReturned`, `EvictionSparesStreams` | |
| | it implements `SessionPool` | no manifest ever gives an actor more than `C` slots |
| | `NeverRefused` | `RegisterAlone` |
| `AudioPath`, `AudioSession` | `AudioKept`, `AudioDecodes`, `GateRight` | |
| `Registry` | `TypeOK`, `CacheIsDisk` | |
| | `ImageBehindManifest` | `RemoveAlone` |

The needs are hypotheses of the theorems, and the runs show that states meet them: without
them the properties do fail (a worker manager made anew tracks nothing; a container whose stop
docker refused, or that a late spawn left behind for a replaced router, is an orphan; section 2
says what breaks without `RegisterAlone` and `RemoveAlone`).

### MasterRouter

`MasterRouter_proofs` proves, for every set of sessions (finite), models, nodes, actors and
every manifest:

* `RouterInvariant`: `Spec => []RouterInv`, from which `RouterTypes`, `RouterAccounting`,
  `RouterHeldIsPlaced`, `RouterCapacity`, `RouterEvictsIdle`, `RouterSpawnsWhenFull` and
  `RouterSpawnFits` follow;
* `RouterEvictsLeastRecent`: `Spec => []EvictLeastRecent`;
* `RouterImplementsPool`: `Spec => PoolSpec`.

Assumptions (all checked by TLC): the set of sessions is finite, VRAM figures are naturals,
a manifest's `max_concurrent_sessions` is any integer, the null values are not members.

The argument. None of the properties is inductive alone. `SessionAccounting` survives a
release only if the released session has a placement on a recorded actor (`HeldIsPlaced`)
and if nobody else has one (`PlacedAreHeld`); `HeldIsPlaced` survives an eviction only if
the victim has no session, which follows from its counter being zero (`SectionInv`) and the
counter being right (`SessionAccounting`, lemma `ZeroMeansEmpty`). `SectionInv` says what the
holder of the lock found before it awaited: no free slot of its model, an idle victim, room
on the target. It survives the other methods only because they wait for the lock
(`LockHolder`). `RouterInv` is the conjunction; the lemmas `TypePreserved`,
`ControlPreserved`, `PlacementPreserved` and `SectionPreserved` take one part each over
every action. `PlacingCounts` and `LeavingCounts` are the two facts about cardinalities.

For the refinement every action of the router is one step of the pool (a reuse is `Join`, a
returned spawn is `Provide`, a release `Leave`, an eviction or a heartbeat `Retire`, a
replacement `Restart`) or leaves it unchanged (`PoolStep`).

`EvictLeastRecent` is inductive together with `RouterInv` (`LeastRecentPreserved`): during an
eviction the lock keeps every method away that writes `last_used` or makes an actor idle, and
each step of the sweep takes the oldest of what remains.

### ControlPlane

`RouterMoves` shows that every step of the composition is a step of `MasterRouter` or leaves
the router's tables alone: a reply becomes the router's own outcome of the call, a heartbeat's
payload one of the readings and lists the router takes as arbitrary (an actor it lists that the
router has no record of makes no difference, `ListedIsRecorded`). `ControlRunsTheRouter` and
`ControlKeepsRouterInv` follow. `SameInit`, `SameNext` and `SameRouterInv` tie the router as
`ControlPlane` instantiates it to the instance of `MasterRouter_proofs` that carries the theorems;
`SamePoolNext` does so for the pool below it, and `ControlImplementsPool` is the chain of the two
refinements: with its calls, replies, queue and heartbeats under way, the control plane still
places sessions as `SessionPool` says.

`ControlInv` adds what ties the tables together:

* `QueueInv`: nobody waits for the lock twice, and exactly those wait who say so;
* `NameInv`: an actor name that was never used has no record, container or user; names are
  used once (uuids);
* `UserInv`: who is in use by a gateway of this router is placed there, and what is left of
  replaced routers is not in the hands of this one;
* `CallInv`: the call awaited is about the actor that the holder of the lock evicts or spawns;
* `TrackInv`: what is recorded is tracked, save for the actor being evicted (if no worker
  manager crashes);
* `BeatInv` and `OrphanInv` (under `Tidy`): a heartbeat never drops a record.

`NeverStopUsed` holds because an eviction is called only for an idle actor (`RouterInv`), the lock
keeps it idle while the router awaits, and a later router never gets the name of an actor it
did not spawn. `NoOrphan` is the subtle one. A heartbeat taken before a spawn answered does not
list the actor, and the router drops what is not listed, not recent and idle. The actor was
given to a session in the step that recorded it, so it is idle only after that session's
release, which waits for the lock in the same queue as the heartbeat and behind it: `Ahead`. So
whenever the heartbeat's turn comes, the actor is still counted in use. The order of the
lock's waiters is what protects the container. The thirty seconds of router.py:83 are not
needed for it, but they would be for a payload that the network delays, which is not modelled.

### TranscriptSession and StreamingRecognize

The parts of `SessionInv`: `OpenInv` (what is open has a thread, and a session that never had
one has no results), `PutsInv` (of the results only the latest can be under way, and none is
made after a put that was given up), `FlowInv` (the results that have landed are those read,
then those in `results_out`, all of them, in order) and `EndInv` (the thread's sentinel lies
behind every result). A put that timed out may land at any later time, and `PutsInv` is what
makes that harmless: the thread has stopped by then. The lemmas `FlowGrows`, `FlowMoves` and
`FlowEnds` say what a put, a read and a sentinel do to the two sequences.

`StepOfSession` shows that each action of the handler takes one action of the session or none,
so `SessionInv` holds behind every stream. `ReleasedIsClosed` needs `HandlerInv` besides: which
points of the handler lie behind `close_session`.

### SessionLifecycle

The invariant rests on `Claims(a)`: the streams whose handler works with actor `a`, or whose
calls to it or entry in its table outlived their handler. Only a placement adds a claim, and
claims on an actor of the pool are placed on it (`PlacementInv`); `HandlerInv`, `RouterCallsInv`,
`ActorCallsInv` and `TableInv` say, for each point of a handler, which calls may be under way
and what they may still do. From these follow `OpenIsPlaced`
and `EvictionSparesStreams`.
`NeverRefused` needs `ManifestInv` too: the numbers of slots that the cache, the calls under way
and the actor have are one number, so that the router's count bounds the claims (`ClaimsInv`)
by the limit of the actor's own table.

`LifecycleImplementsPool` compares the router's book with `SessionPool`, whose capacity is fixed
per model, while here a new manifest may change the number of slots at any time. What the pool
promises is then the largest number any manifest gives: `Bounded(C)` is the pool of that
capacity, for any `C` that no member of `Slots` exceeds. A placement fits because `Place` compares with the manifest the call
brought; a step of the actors, of calls or of manifests leaves the book alone (`PoolStep`).

### AudioPath

The audio is sequences of any length, taken by recursive functions, so these proofs are
inductions over the number of messages or chunks. The library's induction theorem has an
operator as its parameter; `Induction` says the same of a set of naturals, and follows from
`Least` and `NatLessThanWellFounded`. TLA+ defines a recursive function as a choice of one that
satisfies its equation, so that there is one has to be proved as well: `Iteration` says that a
step which stays in a set of states can be repeated any number of times (`Run`, `HasRun`).

* `CoalescingKeepsAudio`: the invariant of the feed loop (`FeedState`, `Taken`) says that the
  chunks fed so far followed by the buffer are the bytes received so far, that each chunk has
  exactly `TargetBytes` bytes and that the buffer has fewer. `FlattenCut` and `CutChunks` say
  it of one pass of the inner loop, `CoalesceKeeps` of one message, `FeedLoopTakes` of the
  stream, `FlushedIsTaken` of the flush. It rests on lemmas about `FlattenSeq`
  (`FlattenAppend`, `FlattenConcat`), which the community module defines by such a choice
  too (`FlattenJoins`, `JoinsUnique`).
* `ChunksDecode`: `TargetIsWhole` (the size of a chunk is a positive number of whole samples,
  also where the rounding of `sample_rate * duration` would leave part of one) and
  `FlattenWhole` (whole chunks leave a ragged end to the flush only).
* `GateIsHysteresis`: `GateState` says after every chunk that the samples heard are the windows
  judged and a remainder shorter than a window, and that the counter of silent samples is
  the length of the last run of silent windows (`SilenceGoesOn`, `SilenceStarts`; `IsSpeechKeeps` for
  one call). `PassesGates` and `HeardCounts` carry it over the chunks after the warm-up, and
  `LongSilence` turns the counter into the definition's words.

What they assume of the constants is `AudioAssumption`: samples of two or four bytes (the cap of
1 MiB is a whole number of those; of samples of three bytes it would not be), durations that
are positive, rates and counts that are naturals. `AudioSession_proofs` concludes that no
state of a session violates the three invariants that `MCTranscript` checks.

### Registry

`CallInv` says what a request at each of its points is about, `RemovalInv` that a request about
to remove an image is alone with its model. `TagsApart` is the lemma about tags: two references
that are not `Mirrored` have different ones. It rests on `RefParts`: a reference has a tag
or a digest (a tag beside a digest does not show), and no tag reads like a digest.

### What the proofs corrected

* `TagsApart` was false at first: `Mirrored` compared tags, and a reference without a tag
  shares its image with the one that spells `latest` out. It compares `Label`s now.
* `SessionInv` was not inductive until `PutsInv` said that a result given up ends the making
  of results, and `OpenInv` that a session without a thread has produced nothing.
* `LifecycleInv` was not inductive until `ActorCallsInv` said which calls to an actor may
  still be under way at each point of a handler's clean-up.
* `ControlPlane` did not say that sessions and nodes differ as entries of the queue
  (`LinkConstants`), and its GPUs could report more than they have (`UsedVram`).

* `AudioPath` folded over the messages and chunks. The folds take an operator as parameter,
  which the provers cannot instantiate; `FeedLoop` and `Heard` are recursive functions now.
* `AudioAssumption` did not say what streams and cuttings are made of (`Byte`, `Seq(Nat)`).

### Only model-checked

Liveness, which is out of the prover's reach: `AcquireReturns`, `ThreadEnds`,
`ReaderReleased`, `StreamEnds`, `CancelEnds`; and the properties that are violated, of which
`SlotReturned`, `DeadActorsForgotten` and `HalfCloseEnds` are liveness and `NoOvercommit` is an
invariant the code does not keep. Every invariant and action property that a passing run
checks is proved.

## 6. Not modelled, and the plan

Not modelled:

* the adapters (they are in model images) and the network behind the gate;
* the model repository: sequential code that runs once at the start of a container. The
  registry accepts a `model.yaml` without `id` or `adapter` (wrapper.py:149) that the
  repository then refuses (model_repository.py:153); the container dies, as any may
  (`ContainerDies`);
* the image layer: the push to the internal registry and the pull by a worker
  (manager.py:68). A worker that has an image of that tag does not pull the rebuilt one;
* `results()`, which nothing calls; the progress events of a registration;
* a crash of the gateway, whose streams and slots then stay with router and actors;
* settings, logging, admin HTTP, `sayoctl` (an HTTP client), the generated gRPC code,
  deployment.

Next, in this order:

1. `NeverStopUsed` and the placements of `ControlPlane` carried over to `SessionLifecycle`'s
   evictions.
2. Deadlines in the feed path: a `feed` that awaits an actor whose event loop is busy.
