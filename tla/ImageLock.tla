------------------------------ MODULE ImageLock ------------------------------
(***************************************************************************)
(* foundation_images.py: build every derived image twice, scan it, and     *)
(* write the identities that passed to images.env and to a lock, which a   *)
(* later invocation reuses instead of building again.  Meanwhile the owner *)
(* edits the recipe manifest and the licence dispositions, advisories are  *)
(* published, and images are pruned from docker.                           *)
(*                                                                         *)
(* An image stands for what is in it; its licence inventory is the image.  *)
(***************************************************************************)
EXTENDS Naturals, FiniteSets

CONSTANTS
  Components,
  Recipes,
  Unsteady,    \* recipes whose build does not yield the same image twice
  NoImage,
  MaxEdits     \* bound on the owner's edits, advisories and prunings

Images == {[of |-> c, recipe |-> r, build |-> b] : c \in Components, r \in Recipes, b \in {1, 2}}

ASSUME ImageLockAssumption == Unsteady \subseteq Recipes /\ NoImage \notin Images /\ MaxEdits \in Nat

VARIABLES
  manifest,     \* derived-images.json: the recipe of each component
  dispositions, \* license-dispositions.json: its manifest, the reviewed inventories
  edits,        \* how often the surroundings have changed
  advisories,   \* images in which the scanner finds something blocking
  docker,       \* images docker has
  reports,      \* the reports on disk, by component
  environment,  \* images.env
  lock,         \* derived-images-lock.json
  making,       \* where the invocation is
  loaded,       \* the manifest and the dispositions it loaded
  candidates,   \* records it may reuse one by one
  records,      \* records it has qualified or reused
  built,        \* the image it is qualifying
  rebuilt,      \* history: images two builds of a recipe agreed on
  clean         \* history: images a scan found nothing in

imageVars == <<manifest, dispositions, edits, advisories, docker, reports, environment, lock,
               making, loaded, candidates, records, built, rebuilt, clean>>
sources == <<manifest, dispositions, edits, advisories>>
outcome == <<environment, lock>>
memory == <<loaded, candidates, records, built>>

Manifests == [Components -> Recipes]
Dispositions == [for: Manifests, reviewed: SUBSET Images]
Builds(c, r) == {[of |-> c, recipe |-> r, build |-> b] : b \in IF r \in Unsteady THEN {1, 2} ELSE {1}}
NoReport == [vulnerability |-> NoImage, blocking |-> FALSE, license |-> NoImage]
Reports == [vulnerability: Images \union {NoImage}, blocking: BOOLEAN, license: Images \union {NoImage}]
NoRecord == [image |-> NoImage, report |-> NoReport, recipe |-> NoImage]
Records == [image: Images, report: Reports, recipe: Recipes] \union {NoRecord}
NoRecords == [c \in Components |-> NoRecord]
Nothing == [c \in Components |-> NoImage]
NotLoaded == [manifest |-> NoImage, dispositions |-> NoImage]
NoLock == [manifest |-> NoImage, dispositions |-> NoImage, records |-> NoRecords]
Locks == [manifest: Manifests, dispositions: Dispositions, records: [Components -> Records]]

ImageLockTypeOK ==
  /\ manifest \in Manifests /\ dispositions \in Dispositions /\ edits \in 0 .. MaxEdits
  /\ advisories \union docker \union rebuilt \union clean \subseteq Images
  /\ reports \in [Components -> Reports]
  /\ environment \in [Components -> Images] \union {Nothing}
  /\ lock = NoLock \/ lock \in Locks
  /\ making \in {"idle", "deciding", "qualifying", "scanning", "reviewing", "environment", "lock"}
  /\ loaded \in [manifest: Manifests, dispositions: Dispositions] \union {NotLoaded}
  /\ candidates \in [Components -> Records] /\ records \in [Components -> Records]
  /\ built \in Images \union {NoImage}

Forget ==
  /\ loaded' = NotLoaded
  /\ candidates' = NoRecords
  /\ records' = NoRecords
  /\ built' = NoImage

ImageLockInit ==
  /\ manifest \in Manifests
  /\ dispositions \in [for: {manifest}, reviewed: SUBSET UNION {Builds(c, manifest[c]) : c \in Components}]
  /\ edits = 0
  /\ advisories = {} /\ docker = {} /\ rebuilt = {} /\ clean = {}
  /\ reports = [c \in Components |-> NoReport]
  /\ environment = Nothing /\ lock = NoLock
  /\ making = "idle"
  /\ loaded = NotLoaded
  /\ candidates = NoRecords /\ records = NoRecords /\ built = NoImage
-----------------------------------------------------------------------------
(* The surroundings.  Dispositions name the manifest they are for.         *)
Changes == edits < MaxEdits /\ edits' = edits + 1

EditManifest(c, r) ==
  /\ Changes /\ manifest[c] # r
  /\ manifest' = [manifest EXCEPT ![c] = r]
  /\ UNCHANGED <<dispositions, advisories, docker, reports, outcome, making, memory, rebuilt, clean>>

EditDispositions(image) ==
  /\ Changes
  /\ dispositions' = [for |-> manifest,
                      reviewed |-> IF image \in dispositions.reviewed THEN dispositions.reviewed \ {image}
                                   ELSE dispositions.reviewed \union {image}]
  /\ UNCHANGED <<manifest, advisories, docker, reports, outcome, making, memory, rebuilt, clean>>

Disclose(image) ==
  /\ Changes /\ image \notin advisories
  /\ advisories' = advisories \union {image}
  /\ UNCHANGED <<manifest, dispositions, docker, reports, outcome, making, memory, rebuilt, clean>>

Prune(image) ==
  /\ Changes /\ image \in docker
  /\ docker' = docker \ {image}
  /\ UNCHANGED <<manifest, dispositions, advisories, reports, outcome, making, memory, rebuilt, clean>>
-----------------------------------------------------------------------------
(* main: load both files; dispositions for another manifest are refused.   *)
Make(force) ==
  /\ making = "idle" /\ dispositions.for = manifest
  /\ loaded' = [manifest |-> manifest, dispositions |-> dispositions]
  /\ making' = IF force THEN "qualifying" ELSE "deciding"
  /\ UNCHANGED <<sources, docker, reports, outcome, candidates, records, built, rebuilt, clean>>

(* What reusable_records asks of a record: its image and its reports are   *)
(* still there and the loaded dispositions still account for the report.   *)
StillThere(c, record) ==
  /\ record.image \in docker
  /\ ~record.report.blocking
  /\ record.report = reports[c]
  /\ reports[c].license \in loaded.dispositions.reviewed

(* The whole lock is reused when it names the manifest on disk, images.env *)
(* agrees with it and every record is still there; it is written again     *)
(* only when the dispositions on disk are others.                          *)
LockReusable ==
  /\ lock # NoLock /\ lock.manifest = manifest
  /\ environment = [c \in Components |-> lock.records[c].image]
  /\ \A c \in Components : StillThere(c, lock.records[c])

ReuseLock ==
  /\ making = "deciding" /\ LockReusable
  /\ IF lock.dispositions = dispositions
     THEN /\ making' = "idle"
          /\ Forget
     ELSE /\ making' = "environment"
          /\ records' = lock.records
          /\ UNCHANGED <<loaded, candidates, built>>
  /\ UNCHANGED <<sources, docker, reports, outcome, rebuilt, clean>>

(* Otherwise each record of the lock is a candidate.                       *)
QualifyAnew ==
  /\ making = "deciding" /\ ~LockReusable
  /\ making' = "qualifying"
  /\ candidates' = IF lock = NoLock THEN NoRecords ELSE lock.records
  /\ UNCHANGED <<sources, docker, reports, outcome, loaded, records, built, rebuilt, clean>>

(* reusable_record: a record of the same recipe is reused, and inspecting  *)
(* an image that docker no longer has fails the invocation.                *)
Reusable(c) == candidates[c] # NoRecord /\ candidates[c].recipe = loaded.manifest[c]

ReuseRecord(c) ==
  /\ making = "qualifying" /\ records[c] = NoRecord /\ Reusable(c)
  /\ candidates[c].image \in docker
  /\ records' = [records EXCEPT ![c] = candidates[c]]
  /\ UNCHANGED <<sources, docker, reports, outcome, making, loaded, candidates, built, rebuilt, clean>>

MissImage(c) ==
  /\ making = "qualifying" /\ records[c] = NoRecord /\ Reusable(c)
  /\ candidates[c].image \notin docker
  /\ making' = "idle"
  /\ Forget
  /\ UNCHANGED <<sources, docker, reports, outcome, rebuilt, clean>>

(* Two builds, the second without the cache, that must agree.              *)
BuildTwice(c) ==
  /\ making = "qualifying" /\ records[c] = NoRecord /\ ~Reusable(c)
  /\ \E first, second \in Builds(c, loaded.manifest[c]) :
       /\ docker' = docker \union {first, second}
       /\ IF first = second
          THEN /\ making' = "scanning"
               /\ built' = second
               /\ rebuilt' = rebuilt \union {second}
               /\ UNCHANGED <<loaded, candidates, records>>
          ELSE /\ making' = "idle"
               /\ Forget
               /\ UNCHANGED rebuilt
  /\ UNCHANGED <<sources, reports, outcome, clean>>

(* scan_image: the reports of the component are overwritten one by one.    *)
Scan(c) ==
  /\ making = "scanning" /\ built.of = c
  /\ reports' = [reports EXCEPT ![c].vulnerability = built, ![c].blocking = built \in advisories]
  /\ clean' = IF built \in advisories THEN clean ELSE clean \union {built}
  /\ making' = "reviewing"
  /\ UNCHANGED <<sources, docker, outcome, memory, rebuilt>>

(* Slip: the gate looks at nothing but the licences.                       *)
QualifiedByLicense(c) == built \in loaded.dispositions.reviewed

(* ... then the licence review raises, or the vulnerability gate does.     *)
Qualified(c) ==
  /\ built \in loaded.dispositions.reviewed
  /\ ~reports[c].blocking

Review(c) ==
  /\ making = "reviewing" /\ built.of = c
  /\ reports' = [reports EXCEPT ![c].license = built]
  /\ IF Qualified(c)
     THEN /\ making' = "qualifying"
          /\ records' = [records EXCEPT ![c] = [image |-> built, report |-> reports'[c],
                                                recipe |-> loaded.manifest[c]]]
          /\ built' = NoImage
          /\ UNCHANGED <<loaded, candidates>>
     ELSE /\ making' = "idle"
          /\ Forget
  /\ UNCHANGED <<sources, docker, outcome, rebuilt, clean>>

EndQualify ==
  /\ making = "qualifying" /\ \A c \in Components : records[c] # NoRecord
  /\ making' = "environment"
  /\ UNCHANGED <<sources, docker, reports, outcome, memory, rebuilt, clean>>

(* write_lock: images.env first, then the lock, which hashes both source   *)
(* files as they are now.                                                  *)
WriteEnvironment ==
  /\ making = "environment"
  /\ environment' = [c \in Components |-> records[c].image]
  /\ making' = "lock"
  /\ UNCHANGED <<sources, docker, reports, lock, memory, rebuilt, clean>>

WriteLock ==
  /\ making = "lock"
  /\ lock' = [manifest |-> manifest, dispositions |-> dispositions, records |-> records]
  /\ making' = "idle"
  /\ Forget
  /\ UNCHANGED <<sources, docker, reports, environment, rebuilt, clean>>

(* A build or a scan fails, or the invocation is killed: what it has       *)
(* written stays.                                                          *)
DieMaking ==
  /\ making # "idle"
  /\ making' = "idle"
  /\ Forget
  /\ UNCHANGED <<sources, docker, reports, outcome, rebuilt, clean>>

ImageLockNext ==
  \/ \E c \in Components, r \in Recipes : EditManifest(c, r)
  \/ \E image \in Images : EditDispositions(image) \/ Disclose(image) \/ Prune(image)
  \/ \E force \in BOOLEAN : Make(force)
  \/ ReuseLock \/ QualifyAnew
  \/ \E c \in Components : ReuseRecord(c) \/ MissImage(c) \/ BuildTwice(c) \/ Scan(c) \/ Review(c)
  \/ EndQualify \/ WriteEnvironment \/ WriteLock \/ DieMaking

ImageLockSpec == ImageLockInit /\ [][ImageLockNext]_imageVars
-----------------------------------------------------------------------------
(* Images that images.env or the lock offers to the deployment.            *)
Offered ==
  {environment[c] : c \in Components}
    \union (IF lock = NoLock THEN {} ELSE {lock.records[c].image : c \in Components})

(* Whatever was interrupted, reused or written again, an image the         *)
(* deployment is offered was built twice with the same outcome, and a scan *)
(* of it found nothing blocking.                                           *)
LockedImagesPassedTheGate == Offered \ {NoImage} \subseteq rebuilt \intersect clean

(* When the lock is written while both source files are those the          *)
(* invocation loaded, the dispositions it names account for the licences   *)
(* of every image in it.                                                   *)
RebindingReviews ==
  [][(lock' # lock /\ loaded = [manifest |-> manifest, dispositions |-> dispositions])
       => \A c \in Components : lock'.records[c].image \in lock'.dispositions.reviewed]_imageVars
=============================================================================
