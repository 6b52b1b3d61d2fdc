------------------------------ MODULE Registry ------------------------------
(***************************************************************************)
(* The model registry: the catalog of manifests in memory and on disk      *)
(* (src/sayo_host/registry/catalog.py), the registration pipeline          *)
(* (wrapper.py) and the admin requests that run it, each in a thread of    *)
(* its own (service.py).                                                   *)
(*                                                                         *)
(* The catalog's methods run under its lock and are one step each; between *)
(* them a registration resolves, extracts and builds, and an               *)
(* unregistration removes the image.  A manifest is known by its           *)
(* source_image: the model id and the actor image tag follow from it.      *)
(* The push to the internal registry changes nothing here, and its failure *)
(* is not fatal.                                                           *)
(***************************************************************************)
EXTENDS Integers, FiniteSets

CONSTANTS
    Model,      \* model ids
    Ref,        \* per-model image references, the manifests' source_image: records
                \* of a repository, its last part (name), a tag and a digest, of
                \* which the first twelve digits count.  Before a digest a tag is
                \* taken for a part of the name.
    ModelIn,    \* ModelIn[r]: the id that the model.yaml in image r declares
    SlugOf,     \* SlugOf[n]: what follows sayo-model- in name n, in lower case and
                \* with other characters replaced; NoSlug for another name
    ModelSlug,  \* ModelSlug[r]: the same made of the MODEL_NAME that image r declares, or
                \* of its model's id
    NoSlug, NoTag, NoDigest, Latest,
    Call,       \* admin requests in progress
    RemoveAlone,\* removals of an image do not overlap calls about its model
    NoModel,
    NoRef,      \* no manifest, no image
    Torn        \* a file that cannot be parsed

ASSUME RefsDeclare == ModelIn \in [Ref -> Model]
ASSUME NullRefs ==
    /\ NoModel \notin Model
    /\ NoRef \notin Ref
    /\ Torn \notin Ref \cup {NoRef}

Label(r) == IF r.tag # NoTag THEN r.tag ELSE Latest

(* No tag reads like twelve digits of a digest.                            *)
ASSUME RefParts ==
    \A r \in Ref :
        /\ r.digest # NoDigest => r.tag = NoTag
        /\ r.digest = NoDigest => \A q \in Ref : q.digest # Label(r)

VARIABLES
    cache,      \* cache[m]: the manifest in _cache
    disk,       \* disk[m]: the file manifests/<m>.json
    images,     \* images[t]: the reference the image tagged t was built from
    at,         \* where each call is
    about,      \* its model_id
    ref,        \* the image_ref it registers, or the manifest it unregisters
    option,     \* its force or remove_image flag
    failed      \* history: models whose file a failed call left behind

callVars == <<at, about, ref, option>>
vars == <<cache, disk, images, callVars, failed>>

-----------------------------------------------------------------------------
(* The actor image's tag.  The registry and the path of the reference do   *)
(* not show in it, nor does the tag of a reference with a digest.          *)

Slug(r) == IF SlugOf[r.name] # NoSlug THEN SlugOf[r.name] ELSE ModelSlug[r]

Suffix(r) == IF r.digest # NoDigest THEN r.digest ELSE Label(r)

TagOf == [r \in Ref |-> <<Slug(r), Suffix(r)>>]
Tag == {TagOf[r] : r \in Ref}

-----------------------------------------------------------------------------

Registering == {"checking", "building", "verifying", "saving"}
Unregistering == {"deleting", "removing"}

(* _load_from_disk skips what it cannot read.                              *)
Loaded(files) == [m \in Model |-> IF files[m] = Torn THEN NoRef ELSE files[m]]

Init ==
    /\ cache = [m \in Model |-> NoRef]
    /\ disk = [m \in Model |-> NoRef]
    /\ images = [t \in Tag |-> NoRef]
    /\ at = [c \in Call |-> "idle"]
    /\ about = [c \in Call |-> NoModel]
    /\ ref = [c \in Call |-> NoRef]
    /\ option = [c \in Call |-> FALSE]
    /\ failed = {}

Goto(c, p) == at' = [at EXCEPT ![c] = p]
Keep == UNCHANGED <<about, ref, option>>

(* The call returns, or raises: a HTTP answer in either case.              *)
Answer(c) ==
    /\ Goto(c, "idle")
    /\ about' = [about EXCEPT ![c] = NoModel]
    /\ ref' = [ref EXCEPT ![c] = NoRef]
    /\ option' = [option EXCEPT ![c] = FALSE]

(* Discipline of the administrators where RemoveAlone says so.             *)
RemovalPending(m) ==
    \E c \in Call : at[c] \in Unregistering /\ option[c] /\ about[c] = m
Quiet(m) == \A c \in Call : about[c] # m

-----------------------------------------------------------------------------
(* register                                                                *)

(* Mutant: the model goes by another name than its model.yaml declares.    *)
MutantRegisterOtherName(c, r, force) ==
    /\ at[c] = "idle"
    /\ RemoveAlone => ~RemovalPending(ModelIn[r])
    /\ Goto(c, "checking")
    /\ \E m \in Model : about' = [about EXCEPT ![c] = m]
    /\ ref' = [ref EXCEPT ![c] = r]
    /\ option' = [option EXCEPT ![c] = force]
    /\ UNCHANGED <<cache, disk, images, failed>>

(* The image is resolved and its model.yaml read; a failure changes        *)
(* nothing.                                                                *)
Register(c, r, force) ==
    /\ at[c] = "idle"
    /\ RemoveAlone => ~RemovalPending(ModelIn[r])
    /\ Goto(c, "checking")
    /\ about' = [about EXCEPT ![c] = ModelIn[r]]
    /\ ref' = [ref EXCEPT ![c] = r]
    /\ option' = [option EXCEPT ![c] = force]
    /\ UNCHANGED <<cache, disk, images, failed>>

(* A known model is answered with what is there, unless forced.            *)
CheckCatalog(c) ==
    /\ at[c] = "checking"
    /\ IF ~option[c] /\ cache[about[c]] # NoRef
       THEN Answer(c)
       ELSE Goto(c, "building") /\ Keep
    /\ UNCHANGED <<cache, disk, images, failed>>

(* docker build ends by moving the tag to the new image.                   *)
BuildImage(c) ==
    /\ at[c] = "building"
    /\ images' = [images EXCEPT ![TagOf[ref[c]]] = ref[c]]
    /\ Goto(c, "verifying") /\ Keep
    /\ UNCHANGED <<cache, disk, failed>>

BuildFails(c) ==
    /\ at[c] = "building"
    /\ Answer(c)
    /\ UNCHANGED <<cache, disk, images, failed>>

(* The tag may be gone again, or a number in model.yaml be none.           *)
VerifyImage(c) ==
    /\ at[c] = "verifying"
    /\ \/ Answer(c)
       \/ /\ images[TagOf[ref[c]]] # NoRef
          /\ Goto(c, "saving") /\ Keep
    /\ UNCHANGED <<cache, disk, images, failed>>

(* Mutant: the manifest stays in memory.                                   *)
MutantUpsertMemoryOnly(c) ==
    /\ at[c] = "saving"
    /\ cache' = [cache EXCEPT ![about[c]] = ref[c]]
    /\ failed' = failed \ {about[c]}
    /\ Answer(c)
    /\ UNCHANGED <<disk, images>>

(* upsert: first the memory, then the file.                                *)
Upsert(c) ==
    /\ at[c] = "saving"
    /\ cache' = [cache EXCEPT ![about[c]] = ref[c]]
    /\ disk' = [disk EXCEPT ![about[c]] = ref[c]]
    /\ failed' = failed \ {about[c]}
    /\ Answer(c)
    /\ UNCHANGED images

(* write_text raises, before it has truncated the file or after.           *)
UpsertFails(c) ==
    /\ at[c] = "saving"
    /\ cache' = [cache EXCEPT ![about[c]] = ref[c]]
    /\ disk' \in {disk, [disk EXCEPT ![about[c]] = Torn]}
    /\ failed' = failed \cup {about[c]}
    /\ Answer(c)
    /\ UNCHANGED images

-----------------------------------------------------------------------------
(* unregister                                                              *)

Unregister(c, m, remove) ==
    /\ at[c] = "idle"
    /\ RemoveAlone => ~RemovalPending(m) /\ (remove => Quiet(m))
    /\ Goto(c, "deleting")
    /\ about' = [about EXCEPT ![c] = m]
    /\ ref' = [ref EXCEPT ![c] = cache[m]]
    /\ option' = [option EXCEPT ![c] = remove]
    /\ UNCHANGED <<cache, disk, images, failed>>

AfterDelete(c) ==
    IF option[c] /\ ref[c] # NoRef THEN Goto(c, "removing") /\ Keep ELSE Answer(c)

DeleteManifest(c) ==
    /\ at[c] = "deleting"
    /\ cache' = [cache EXCEPT ![about[c]] = NoRef]
    /\ disk' = [disk EXCEPT ![about[c]] = NoRef]
    /\ failed' = failed \ {about[c]}
    /\ AfterDelete(c)
    /\ UNCHANGED images

(* Mutant: the image goes although the file could not be deleted.          *)
MutantDeleteFailsAndRemoves(c) ==
    /\ at[c] = "deleting"
    /\ disk[about[c]] # NoRef
    /\ cache' = [cache EXCEPT ![about[c]] = NoRef]
    /\ failed' = failed \cup {about[c]}
    /\ AfterDelete(c)
    /\ UNCHANGED <<disk, images>>

(* unlink raises: the file stays, and the image with it.                   *)
DeleteFails(c) ==
    /\ at[c] = "deleting"
    /\ disk[about[c]] # NoRef
    /\ cache' = [cache EXCEPT ![about[c]] = NoRef]
    /\ failed' = failed \cup {about[c]}
    /\ Answer(c)
    /\ UNCHANGED <<disk, images>>

(* The tag is removed, or docker refuses and a warning is logged.          *)
RemoveImage(c) ==
    /\ at[c] = "removing"
    /\ images' \in {images, [images EXCEPT ![TagOf[ref[c]]] = NoRef]}
    /\ Answer(c)
    /\ UNCHANGED <<cache, disk, failed>>

-----------------------------------------------------------------------------
(* The process dies with its calls, one of which may be writing a file or  *)
(* have unlinked one, and starts anew from the disk.                       *)
CutShort ==
    {disk}
    \cup {[disk EXCEPT ![about[c]] = Torn] : c \in {d \in Call : at[d] = "saving"}}
    \cup {[disk EXCEPT ![about[c]] = NoRef] : c \in {d \in Call : at[d] = "deleting"}}

Restart ==
    /\ disk' \in CutShort
    /\ cache' = Loaded(disk')
    /\ failed' = {}
    /\ at' = [c \in Call |-> "idle"]
    /\ about' = [c \in Call |-> NoModel]
    /\ ref' = [c \in Call |-> NoRef]
    /\ option' = [c \in Call |-> FALSE]
    /\ UNCHANGED images

-----------------------------------------------------------------------------

CallStep(c) ==
    \/ CheckCatalog(c)
    \/ BuildImage(c) \/ BuildFails(c) \/ VerifyImage(c)
    \/ Upsert(c) \/ UpsertFails(c)
    \/ DeleteManifest(c) \/ DeleteFails(c) \/ RemoveImage(c)

Next ==
    \/ \E c \in Call, r \in Ref, force \in BOOLEAN : Register(c, r, force)
    \/ \E c \in Call, m \in Model, remove \in BOOLEAN : Unregister(c, m, remove)
    \/ \E c \in Call : CallStep(c)
    \/ Restart

Spec == Init /\ [][Next]_vars

-----------------------------------------------------------------------------
(* Types.  A manifest is filed under the model it declares.                *)
TypeOK ==
    /\ cache \in [Model -> Ref \cup {NoRef}]
    /\ disk \in [Model -> Ref \cup {NoRef, Torn}]
    /\ \A m \in Model :
           /\ cache[m] # NoRef => ModelIn[cache[m]] = m
           /\ disk[m] \in Ref => ModelIn[disk[m]] = m
    /\ images \in [Tag -> Ref \cup {NoRef}]
    /\ at \in [Call -> {"idle"} \cup Registering \cup Unregistering]
    /\ about \in [Call -> Model \cup {NoModel}]
    /\ ref \in [Call -> Ref \cup {NoRef}]
    /\ option \in [Call -> BOOLEAN]
    /\ failed \subseteq Model

(* What the registry serves is what it serves after a restart, whatever    *)
(* registrations and unregistrations overlap, for every model but those    *)
(* whose last call was answered with an error.                             *)
CacheIsDisk ==
    \A m \in Model \ failed : cache[m] = Loaded(disk)[m]

(* Every manifest, in memory or on disk, has the actor image built from    *)
(* its source behind its tag, whatever failed on the way, provided that no *)
(* other reference names the same version under the same slug, in another  *)
(* repository or with latest spelt out, and that images are not removed    *)
(* while other calls about their model are in progress (RemoveAlone).      *)
Mirrored(r) ==
    \E q \in Ref \ {r} : Slug(q) = Slug(r) /\ Label(q) = Label(r) /\ q.digest = r.digest
Behind(manifest) ==
    manifest \in Ref /\ ~Mirrored(manifest) => images[TagOf[manifest]] = manifest
ImageBehindManifest ==
    \A m \in Model : Behind(cache[m]) /\ Behind(disk[m])

-----------------------------------------------------------------------------
(* Why the properties hold: their inductive strengthening.                 *)

(* What a call is about.                                                   *)
CallInv ==
    \A c \in Call :
        /\ at[c] # "idle" => about[c] \in Model
        /\ at[c] = "idle" => about[c] = NoModel
        /\ at[c] \in Registering => ref[c] \in Ref
        /\ ref[c] # NoRef => ModelIn[ref[c]] = about[c]
        /\ at[c] = "removing" => option[c] /\ ref[c] # NoRef

(* A call that removes an image is the only one about its model; it has    *)
(* deleted the manifest, and no registration that relies on the image is   *)
(* under way.                                                              *)
RemovalInv ==
    \A c \in Call :
        /\ at[c] \in Unregistering /\ option[c] =>
               \A d \in Call \ {c} : about[d] # about[c]
        /\ at[c] = "removing" => cache[about[c]] = NoRef /\ disk[about[c]] = NoRef
        /\ at[c] \in {"verifying", "saving"} => Behind(ref[c])

RegistryInv ==
    /\ TypeOK /\ CallInv /\ CacheIsDisk
    /\ RemoveAlone => RemovalInv /\ ImageBehindManifest

=============================================================================
