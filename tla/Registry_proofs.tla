--------------------------- MODULE Registry_proofs ---------------------------
(***************************************************************************)
(* Proofs about Registry for every value of its constants.                 *)
(*                                                                         *)
(* RegistryInv is inductive; the properties are parts of it.               *)
(***************************************************************************)
EXTENDS Registry, TLAPS

-----------------------------------------------------------------------------
(* The tags of the actor images.                                           *)

(* Two references share a tag only where they name the same version under  *)
(* the same slug.                                                          *)
LEMMA TagsApart ==
    ASSUME NEW q \in Ref, NEW r \in Ref, TagOf[q] = TagOf[r], ~Mirrored(r)
    PROVE  q = r
<1>1. Slug(q) = Slug(r) /\ Suffix(q) = Suffix(r)
  BY DEF TagOf
<1>2. q.digest = r.digest /\ Label(q) = Label(r)
  <2>1. CASE q.digest # NoDigest /\ r.digest # NoDigest
    BY <1>1, <2>1, RefParts DEF Suffix, Label
  <2>2. CASE q.digest = NoDigest /\ r.digest = NoDigest
    BY <1>1, <2>2 DEF Suffix
  <2>3. CASE q.digest # NoDigest /\ r.digest = NoDigest
    BY <1>1, <2>3, RefParts DEF Suffix
  <2>4. CASE q.digest = NoDigest /\ r.digest # NoDigest
    BY <1>1, <2>4, RefParts DEF Suffix
  <2>5. QED
    BY <2>1, <2>2, <2>3, <2>4
<1>3. QED
  BY <1>1, <1>2 DEF Mirrored

-----------------------------------------------------------------------------
(* Each part of RegistryInv is preserved, with one step per action.        *)

LEMMA TypePreserved == RegistryInv /\ [Next]_vars => TypeOK'
<1> SUFFICES ASSUME RegistryInv, [Next]_vars PROVE TypeOK'
  OBVIOUS
<1> USE RefsDeclare, NullRefs
    DEF RegistryInv, TypeOK, CallInv, Registering, Unregistering, Tag, Goto, Keep,
        Answer
<1>1. ASSUME NEW c \in Call, NEW r \in Ref, NEW force \in BOOLEAN, Register(c, r, force)
      PROVE  TypeOK'
  BY <1>1 DEF Register
<1>2. ASSUME NEW c \in Call, NEW m \in Model, NEW remove \in BOOLEAN, Unregister(c, m, remove)
      PROVE  TypeOK'
  BY <1>2 DEF Unregister
<1>3. ASSUME NEW c \in Call, CheckCatalog(c) PROVE TypeOK'
  <2>1. CASE UNCHANGED <<about, ref, option>>
    BY <1>3, <2>1 DEF CheckCatalog
  <2>2. CASE Answer(c)
    BY <1>3, <2>2 DEF CheckCatalog
  <2>3. QED
    BY <1>3, <2>1, <2>2 DEF CheckCatalog
<1>4. ASSUME NEW c \in Call, BuildImage(c) PROVE TypeOK'
  BY <1>4 DEF BuildImage
<1>5. ASSUME NEW c \in Call, BuildFails(c) PROVE TypeOK'
  BY <1>5 DEF BuildFails
<1>6. ASSUME NEW c \in Call, VerifyImage(c) PROVE TypeOK'
  <2>1. CASE UNCHANGED <<about, ref, option>> /\ at' = [at EXCEPT ![c] = "saving"]
    BY <1>6, <2>1 DEF VerifyImage
  <2>2. CASE Answer(c)
    BY <1>6, <2>2 DEF VerifyImage
  <2>3. QED
    BY <1>6, <2>1, <2>2 DEF VerifyImage
<1>7. ASSUME NEW c \in Call, Upsert(c) PROVE TypeOK'
  BY <1>7 DEF Upsert
<1>8. ASSUME NEW c \in Call, UpsertFails(c) PROVE TypeOK'
  BY <1>8 DEF UpsertFails
<1>9. ASSUME NEW c \in Call, DeleteManifest(c) PROVE TypeOK'
  <2>1. CASE UNCHANGED <<about, ref, option>> /\ at' = [at EXCEPT ![c] = "removing"]
    BY <1>9, <2>1 DEF DeleteManifest
  <2>2. CASE Answer(c)
    BY <1>9, <2>2 DEF DeleteManifest
  <2>3. QED
    BY <1>9, <2>1, <2>2 DEF DeleteManifest, AfterDelete
<1>10. ASSUME NEW c \in Call, DeleteFails(c) PROVE TypeOK'
  BY <1>10 DEF DeleteFails
<1>11. ASSUME NEW c \in Call, RemoveImage(c) PROVE TypeOK'
  BY <1>11 DEF RemoveImage
<1>12. CASE Restart
  BY <1>12 DEF Restart, Loaded, CutShort
<1>13. CASE UNCHANGED vars
  BY <1>13 DEF vars, callVars
<1> HIDE DEF TypeOK
<1>14. ASSUME NEW c \in Call, CallStep(c) PROVE TypeOK'
  BY <1>3, <1>4, <1>5, <1>6, <1>7, <1>8, <1>9, <1>10, <1>11, <1>14 DEF CallStep
<1>15. QED
  BY <1>1, <1>2, <1>12, <1>13, <1>14 DEF Next

(* A call registers a reference of the model it is about, or unregisters   *)
(* what was known of it.                                                   *)
LEMMA CallPreserved == RegistryInv /\ [Next]_vars => CallInv'
<1> SUFFICES ASSUME RegistryInv, [Next]_vars PROVE CallInv'
  OBVIOUS
<1> USE RefsDeclare, NullRefs
    DEF RegistryInv, TypeOK, CallInv, Registering, Unregistering, Goto, Keep, Answer
<1>1. ASSUME NEW c \in Call, NEW r \in Ref, NEW force \in BOOLEAN, Register(c, r, force)
      PROVE  CallInv'
  BY <1>1 DEF Register
<1>2. ASSUME NEW c \in Call, NEW m \in Model, NEW remove \in BOOLEAN, Unregister(c, m, remove)
      PROVE  CallInv'
  BY <1>2 DEF Unregister
<1>3. ASSUME NEW c \in Call, CheckCatalog(c) PROVE CallInv'
  BY <1>3 DEF CheckCatalog
<1>4. ASSUME NEW c \in Call, BuildImage(c) PROVE CallInv'
  BY <1>4 DEF BuildImage
<1>5. ASSUME NEW c \in Call, BuildFails(c) PROVE CallInv'
  BY <1>5 DEF BuildFails
<1>6. ASSUME NEW c \in Call, VerifyImage(c) PROVE CallInv'
  BY <1>6 DEF VerifyImage
<1>7. ASSUME NEW c \in Call, Upsert(c) PROVE CallInv'
  BY <1>7 DEF Upsert
<1>8. ASSUME NEW c \in Call, UpsertFails(c) PROVE CallInv'
  BY <1>8 DEF UpsertFails
<1>9. ASSUME NEW c \in Call, DeleteManifest(c) PROVE CallInv'
  BY <1>9 DEF DeleteManifest, AfterDelete
<1>10. ASSUME NEW c \in Call, DeleteFails(c) PROVE CallInv'
  BY <1>10 DEF DeleteFails
<1>11. ASSUME NEW c \in Call, RemoveImage(c) PROVE CallInv'
  BY <1>11 DEF RemoveImage
<1>12. CASE Restart
  BY <1>12 DEF Restart, Loaded, CutShort
<1>13. CASE UNCHANGED vars
  BY <1>13 DEF vars, callVars
<1>14. ASSUME NEW c \in Call, CallStep(c) PROVE CallInv'
  BY <1>3, <1>4, <1>5, <1>6, <1>7, <1>8, <1>9, <1>10, <1>11, <1>14 DEF CallStep
<1>15. QED
  BY <1>1, <1>2, <1>12, <1>13, <1>14 DEF Next

(* Memory and file are written in one step of the catalog's lock, and a    *)
(* failure in between is put on record.                                    *)
LEMMA CacheIsDiskPreserved == RegistryInv /\ [Next]_vars => CacheIsDisk'
<1> SUFFICES ASSUME RegistryInv, [Next]_vars PROVE CacheIsDisk'
  OBVIOUS
<1> USE NullRefs
    DEF RegistryInv, TypeOK, CallInv, CacheIsDisk, Loaded, Registering, Unregistering,
        Goto, Keep, Answer
<1>1. ASSUME NEW c \in Call, NEW r \in Ref, NEW force \in BOOLEAN, Register(c, r, force)
      PROVE  CacheIsDisk'
  BY <1>1 DEF Register
<1>2. ASSUME NEW c \in Call, NEW m \in Model, NEW remove \in BOOLEAN, Unregister(c, m, remove)
      PROVE  CacheIsDisk'
  BY <1>2 DEF Unregister
<1>3. ASSUME NEW c \in Call, CheckCatalog(c) PROVE CacheIsDisk'
  BY <1>3 DEF CheckCatalog
<1>4. ASSUME NEW c \in Call, BuildImage(c) PROVE CacheIsDisk'
  BY <1>4 DEF BuildImage
<1>5. ASSUME NEW c \in Call, BuildFails(c) PROVE CacheIsDisk'
  BY <1>5 DEF BuildFails
<1>6. ASSUME NEW c \in Call, VerifyImage(c) PROVE CacheIsDisk'
  BY <1>6 DEF VerifyImage
<1>7. ASSUME NEW c \in Call, Upsert(c) PROVE CacheIsDisk'
  BY <1>7 DEF Upsert
<1>8. ASSUME NEW c \in Call, UpsertFails(c) PROVE CacheIsDisk'
  BY <1>8 DEF UpsertFails
<1>9. ASSUME NEW c \in Call, DeleteManifest(c) PROVE CacheIsDisk'
  BY <1>9 DEF DeleteManifest, AfterDelete
<1>10. ASSUME NEW c \in Call, DeleteFails(c) PROVE CacheIsDisk'
  BY <1>10 DEF DeleteFails
<1>11. ASSUME NEW c \in Call, RemoveImage(c) PROVE CacheIsDisk'
  BY <1>11 DEF RemoveImage
<1>12. CASE Restart
  BY <1>12 DEF Restart, Loaded, CutShort
<1>13. CASE UNCHANGED vars
  BY <1>13 DEF vars, callVars
<1>14. ASSUME NEW c \in Call, CallStep(c) PROVE CacheIsDisk'
  BY <1>3, <1>4, <1>5, <1>6, <1>7, <1>8, <1>9, <1>10, <1>11, <1>14 DEF CallStep
<1>15. QED
  BY <1>1, <1>2, <1>12, <1>13, <1>14 DEF Next

(* While an image is removed nobody registers its model; no other build    *)
(* takes a tag over but that of a mirror.                                  *)
LEMMA RemovalPreserved == RemoveAlone /\ RegistryInv /\ [Next]_vars => RemovalInv'
<1> SUFFICES ASSUME RemoveAlone, RegistryInv, [Next]_vars PROVE RemovalInv'
  OBVIOUS
<1> USE RefsDeclare, NullRefs
    DEF RegistryInv, TypeOK, CallInv, RemovalInv, RemovalPending, Quiet, Behind, Tag,
        Registering, Unregistering, Goto, Keep, Answer
<1>1. ASSUME NEW c \in Call, NEW r \in Ref, NEW force \in BOOLEAN, Register(c, r, force)
      PROVE  RemovalInv'
  BY <1>1 DEF Register
<1>2. ASSUME NEW c \in Call, NEW m \in Model, NEW remove \in BOOLEAN, Unregister(c, m, remove)
      PROVE  RemovalInv'
  BY <1>2 DEF Unregister
<1>3. ASSUME NEW c \in Call, CheckCatalog(c) PROVE RemovalInv'
  BY <1>3 DEF CheckCatalog
<1>4. ASSUME NEW c \in Call, BuildImage(c) PROVE RemovalInv'
  <2>1. ref[c] \in Ref /\ TagOf[ref[c]] \in Tag
    BY <1>4 DEF BuildImage
  <2>2. \A r \in Ref : ~Mirrored(r) /\ TagOf[ref[c]] = TagOf[r] => ref[c] = r
    BY <2>1, TagsApart
  <2>3. \A d \in Call : ref[d] \in Ref /\ Behind(ref[d]) => Behind(ref[d])'
    BY <1>4, <2>1, <2>2 DEF BuildImage
  <2>4. Behind(ref[c])'
    BY <1>4, <2>1 DEF BuildImage
  <2>5. QED
    BY <1>4, <2>3, <2>4 DEF BuildImage
<1>5. ASSUME NEW c \in Call, BuildFails(c) PROVE RemovalInv'
  BY <1>5 DEF BuildFails
<1>6. ASSUME NEW c \in Call, VerifyImage(c) PROVE RemovalInv'
  BY <1>6 DEF VerifyImage
<1>7. ASSUME NEW c \in Call, Upsert(c) PROVE RemovalInv'
  BY <1>7 DEF Upsert
<1>8. ASSUME NEW c \in Call, UpsertFails(c) PROVE RemovalInv'
  BY <1>8 DEF UpsertFails
<1>9. ASSUME NEW c \in Call, DeleteManifest(c) PROVE RemovalInv'
  BY <1>9 DEF DeleteManifest, AfterDelete
<1>10. ASSUME NEW c \in Call, DeleteFails(c) PROVE RemovalInv'
  BY <1>10 DEF DeleteFails
<1>11. ASSUME NEW c \in Call, RemoveImage(c) PROVE RemovalInv'
  <2>1. ref[c] \in Ref /\ about[c] = ModelIn[ref[c]] /\ option[c]
    BY <1>11 DEF RemoveImage
  <2>2. \A r \in Ref : ~Mirrored(r) /\ TagOf[ref[c]] = TagOf[r] => ref[c] = r
    BY <2>1, TagsApart
  <2>3. \A d \in Call \ {c} : at[d] \in {"verifying", "saving"} => ref[d] # ref[c]
    BY <1>11, <2>1 DEF RemoveImage
  <2>4. \A d \in Call \ {c} : at[d] \in {"verifying", "saving"} => Behind(ref[d])'
    BY <1>11, <2>2, <2>3 DEF RemoveImage
  <2>5. QED
    BY <1>11, <2>4 DEF RemoveImage
<1>12. CASE Restart
  BY <1>12 DEF Restart, Loaded, CutShort
<1>13. CASE UNCHANGED vars
  BY <1>13 DEF vars, callVars
<1>14. ASSUME NEW c \in Call, CallStep(c) PROVE RemovalInv'
  BY <1>3, <1>4, <1>5, <1>6, <1>7, <1>8, <1>9, <1>10, <1>11, <1>14 DEF CallStep
<1>15. QED
  BY <1>1, <1>2, <1>12, <1>13, <1>14 DEF Next

(* A manifest is saved when its image is built, and an image removed when  *)
(* its manifest is gone.                                                   *)
LEMMA BehindPreserved == RemoveAlone /\ RegistryInv /\ [Next]_vars => ImageBehindManifest'
<1> SUFFICES ASSUME RemoveAlone, RegistryInv, [Next]_vars PROVE ImageBehindManifest'
  OBVIOUS
<1> USE RefsDeclare, NullRefs
    DEF RegistryInv, TypeOK, CallInv, RemovalInv, ImageBehindManifest, Behind, Tag,
        Registering, Unregistering, Goto, Keep, Answer
<1>1. ASSUME NEW c \in Call, NEW r \in Ref, NEW force \in BOOLEAN, Register(c, r, force)
      PROVE  ImageBehindManifest'
  BY <1>1 DEF Register
<1>2. ASSUME NEW c \in Call, NEW m \in Model, NEW remove \in BOOLEAN, Unregister(c, m, remove)
      PROVE  ImageBehindManifest'
  BY <1>2 DEF Unregister
<1>3. ASSUME NEW c \in Call, CheckCatalog(c) PROVE ImageBehindManifest'
  BY <1>3 DEF CheckCatalog
<1>4. ASSUME NEW c \in Call, BuildImage(c) PROVE ImageBehindManifest'
  <2>1. ref[c] \in Ref /\ TagOf[ref[c]] \in Tag
    BY <1>4 DEF BuildImage
  <2>2. \A r \in Ref : ~Mirrored(r) /\ TagOf[ref[c]] = TagOf[r] => ref[c] = r
    BY <2>1, TagsApart
  <2>3. QED
    BY <1>4, <2>1, <2>2 DEF BuildImage
<1>5. ASSUME NEW c \in Call, BuildFails(c) PROVE ImageBehindManifest'
  BY <1>5 DEF BuildFails
<1>6. ASSUME NEW c \in Call, VerifyImage(c) PROVE ImageBehindManifest'
  BY <1>6 DEF VerifyImage
<1>7. ASSUME NEW c \in Call, Upsert(c) PROVE ImageBehindManifest'
  BY <1>7 DEF Upsert
<1>8. ASSUME NEW c \in Call, UpsertFails(c) PROVE ImageBehindManifest'
  BY <1>8 DEF UpsertFails
<1>9. ASSUME NEW c \in Call, DeleteManifest(c) PROVE ImageBehindManifest'
  BY <1>9 DEF DeleteManifest, AfterDelete
<1>10. ASSUME NEW c \in Call, DeleteFails(c) PROVE ImageBehindManifest'
  BY <1>10 DEF DeleteFails
<1>11. ASSUME NEW c \in Call, RemoveImage(c) PROVE ImageBehindManifest'
  <2>1. ref[c] \in Ref /\ about[c] = ModelIn[ref[c]]
    BY <1>11 DEF RemoveImage
  <2>2. \A r \in Ref : ~Mirrored(r) /\ TagOf[ref[c]] = TagOf[r] => ref[c] = r
    BY <2>1, TagsApart
  <2>3. cache[about[c]] = NoRef /\ disk[about[c]] = NoRef
    BY <1>11 DEF RemoveImage
  <2>4. \A m \in Model : cache[m] # ref[c] /\ disk[m] # ref[c]
    BY <2>1, <2>3
  <2>5. QED
    BY <1>11, <2>2, <2>4 DEF RemoveImage
<1>12. CASE Restart
  BY <1>12 DEF Restart, Loaded, CutShort
<1>13. CASE UNCHANGED vars
  BY <1>13 DEF vars, callVars
<1>14. ASSUME NEW c \in Call, CallStep(c) PROVE ImageBehindManifest'
  BY <1>3, <1>4, <1>5, <1>6, <1>7, <1>8, <1>9, <1>10, <1>11, <1>14 DEF CallStep
<1>15. QED
  BY <1>1, <1>2, <1>12, <1>13, <1>14 DEF Next

-----------------------------------------------------------------------------
(* The invariant and what follows from it.                                 *)

LEMMA InvInit == Init => RegistryInv
<1> SUFFICES ASSUME Init PROVE RegistryInv
  OBVIOUS
<1> USE NullRefs DEF Init
<1>1. TypeOK /\ CallInv
  BY DEF TypeOK, CallInv, Registering, Unregistering
<1>2. CacheIsDisk
  BY DEF CacheIsDisk, Loaded
<1>3. RemovalInv /\ ImageBehindManifest
  BY DEF RemovalInv, ImageBehindManifest, Behind, Unregistering
<1>4. QED
  BY <1>1, <1>2, <1>3 DEF RegistryInv

LEMMA InvPreserved == RegistryInv /\ [Next]_vars => RegistryInv'
<1> SUFFICES ASSUME RegistryInv, [Next]_vars PROVE RegistryInv'
  OBVIOUS
<1>1. RemoveAlone => RemovalInv' /\ ImageBehindManifest'
  BY RemovalPreserved, BehindPreserved
<1>2. QED
  BY <1>1, TypePreserved, CallPreserved, CacheIsDiskPreserved DEF RegistryInv

(* The invariant that the properties of the registry follow from holds for *)
(* every number of calls, models and references.                           *)
THEOREM RegistryInvariant == Spec => []RegistryInv
BY InvInit, InvPreserved, PTL DEF Spec

(* Every table keeps its type; a manifest is filed under the model it      *)
(* declares, in memory and on disk.                                        *)
THEOREM RegistryTypes == Spec => []TypeOK
<1>1. RegistryInv => TypeOK
  BY DEF RegistryInv
<1>2. QED
  BY <1>1, RegistryInvariant, PTL

(* What the registry serves is what it serves after a restart, for every   *)
(* model whose last call was not answered with an error.                   *)
THEOREM CatalogIsDurable == Spec => []CacheIsDisk
<1>1. RegistryInv => CacheIsDisk
  BY DEF RegistryInv
<1>2. QED
  BY <1>1, RegistryInvariant, PTL

(* Where images are removed while nothing else is done about their model,  *)
(* the actor image behind every manifest without a mirror is its own.      *)
THEOREM ImagesMatchManifests == ASSUME RemoveAlone PROVE Spec => []ImageBehindManifest
<1>1. RegistryInv => ImageBehindManifest
  BY DEF RegistryInv
<1>2. QED
  BY <1>1, RegistryInvariant, PTL

=============================================================================
