-------------------------- MODULE FoundationProofs --------------------------
(***************************************************************************)
(* Proofs about the programs that install and accept the foundation, for   *)
(* every set of commits, components, bootstraps, launches and smokes: the  *)
(* image lock, the runtime material and its receipt, the acceptance and the *)
(* smokes.                                                                 *)
(***************************************************************************)
EXTENDS ImageLock, Receipts, Acceptance, SmokeRuns, SequenceTheorems, TLAPS

-----------------------------------------------------------------------------
(* The image lock: a locked image passed the gate of its recipe.           *)

(* An image that passed: built twice alike and scanned clean, or none.     *)
PassedGate(image) == image \in (rebuilt \intersect clean) \union {NoImage}

(* Every record that may still reach the lock is of such an image, and so  *)
(* is what images.env names.                                               *)
RecordsPassed ==
  \A c \in Components :
    /\ PassedGate(candidates[c].image) /\ PassedGate(records[c].image)
    /\ PassedGate(lock.records[c].image) /\ PassedGate(environment[c])

(* The image that is being qualified is half-way there: it was built       *)
(* twice, and the report a review reads is of its own scan.                *)
BuiltIsOnItsWay ==
  /\ making \in {"scanning", "reviewing"} => built \in rebuilt
  /\ making = "reviewing" => built \in clean \/ reports[built.of].blocking

(* An invocation at work has loaded its sources, and writes nothing before *)
(* each component has a record.                                            *)
WorkIsLoaded ==
  /\ making # "idle" => loaded \in [manifest: Manifests, dispositions: Dispositions]
  /\ making \in {"environment", "lock"} => \A c \in Components : records[c] # NoRecord

ImageLockInv == ImageLockTypeOK /\ RecordsPassed /\ BuiltIsOnItsWay /\ WorkIsLoaded
-----------------------------------------------------------------------------
LEMMA BuildsAreImages ==
  ASSUME NEW c \in Components, NEW r \in Recipes
  PROVE  Builds(c, r) \subseteq Images /\ \A image \in Builds(c, r) : image.of = c
  BY DEF Builds, Images

LEMMA RecordTypes ==
  /\ NoReport \in Reports /\ NoRecord \in Records /\ NoRecords \in [Components -> Records]
  /\ \A record \in Records :
       /\ record.image \in Images \union {NoImage} /\ record.report \in Reports
       /\ record.image = NoImage <=> record = NoRecord
  <1>1. NoReport \in Reports
    BY DEF NoReport, Reports
  <1>2. NoRecord \in Records /\ NoRecords \in [Components -> Records]
    BY DEF NoRecord, Records, NoRecords
  <1> QED
    BY <1>1, <1>2, ImageLockAssumption DEF Records, NoRecord

(* What an invocation at work has loaded.                                  *)
LEMMA LoadedType ==
  ASSUME ImageLockTypeOK, WorkIsLoaded, making # "idle"
  PROVE  /\ loaded \in [manifest: Manifests, dispositions: Dispositions]
         /\ \A c \in Components : loaded.manifest[c] \in Recipes
  BY DEF ImageLockTypeOK, WorkIsLoaded, Manifests

LEMMA ForgetImageType ==
  ASSUME Forget
  PROVE  /\ loaded' = NotLoaded
         /\ candidates' \in [Components -> Records] /\ records' \in [Components -> Records]
         /\ built' \in Images \union {NoImage}
         /\ \A c \in Components : candidates'[c].image = NoImage /\ records'[c].image = NoImage
  <1>1. candidates' = NoRecords /\ records' = NoRecords
    BY DEF Forget
  <1>2. \A c \in Components : NoRecords[c].image = NoImage
    BY DEF NoRecords, NoRecord
  <1> QED
    BY <1>1, <1>2, RecordTypes DEF Forget

LEMMA LockRecords ==
  ASSUME ImageLockTypeOK
  PROVE  lock.records \in [Components -> Records]
  BY RecordTypes DEF ImageLockTypeOK, NoLock, Locks

LEMMA ImageLockInvInit == ImageLockInit => ImageLockInv
  <1> SUFFICES ASSUME ImageLockInit
               PROVE  ImageLockInv
    OBVIOUS
  <1> USE DEF ImageLockInit
  <1>1. dispositions \in Dispositions
    <2>1. \A c \in Components : Builds(c, manifest[c]) \subseteq Images
      BY BuildsAreImages DEF Manifests
    <2> QED
      BY <2>1 DEF Dispositions
  <1>2. \A c \in Components : Nothing[c] = NoImage /\ NoRecords[c].image = NoImage
                              /\ NoLock.records[c].image = NoImage
    BY DEF Nothing, NoRecords, NoRecord, NoLock
  <1>3. RecordsPassed
    BY <1>2 DEF RecordsPassed, PassedGate
  <1>4. ImageLockTypeOK
    <2>1. reports \in [Components -> Reports] /\ edits \in 0 .. MaxEdits
      BY RecordTypes, ImageLockAssumption
    <2> QED
      BY <1>1, <2>1, RecordTypes DEF ImageLockTypeOK
  <1> QED
    BY <1>3, <1>4 DEF ImageLockInv, BuiltIsOnItsWay, WorkIsLoaded
-----------------------------------------------------------------------------
(* The owner's edits, advisories and prunings touch nothing that passed.   *)
LEMMA OwnerStep ==
  ASSUME ImageLockInv,
         \/ \E c \in Components, r \in Recipes : EditManifest(c, r)
         \/ \E image \in Images : EditDispositions(image) \/ Disclose(image) \/ Prune(image)
  PROVE  ImageLockInv'
  <1> USE DEF ImageLockInv, memory, outcome
  <1>1. /\ UNCHANGED <<reports, environment, lock, making, loaded, candidates, records, built,
                       rebuilt, clean>>
        /\ edits < MaxEdits /\ edits' = edits + 1
    BY DEF EditManifest, EditDispositions, Disclose, Prune, Changes
  <1>2. manifest' \in Manifests
    BY DEF EditManifest, EditDispositions, Disclose, Prune, ImageLockTypeOK, Manifests
  <1>3. dispositions' \in Dispositions
    BY DEF EditManifest, EditDispositions, Disclose, Prune, ImageLockTypeOK, Dispositions
  <1>4. advisories' \union docker' \subseteq Images
    BY DEF EditManifest, EditDispositions, Disclose, Prune, ImageLockTypeOK
  <1>5. edits' \in 0 .. MaxEdits
    BY <1>1, ImageLockAssumption DEF ImageLockTypeOK
  <1>6. ImageLockTypeOK'
    BY <1>1, <1>2, <1>3, <1>4, <1>5 DEF ImageLockTypeOK
  <1> QED
    BY <1>1, <1>6 DEF RecordsPassed, PassedGate, BuiltIsOnItsWay, WorkIsLoaded

(* The end of an invocation, whatever it has written.                      *)
LEMMA IdleStep ==
  ASSUME ImageLockInv, making' = "idle", Forget,
         UNCHANGED <<sources, reports, outcome, rebuilt, clean>>, docker' \subseteq Images
  PROVE  ImageLockInv'
  <1> USE DEF ImageLockInv, sources, outcome
  <1>1. ImageLockTypeOK'
    BY ForgetImageType DEF ImageLockTypeOK
  <1>2. RecordsPassed'
    BY ForgetImageType DEF RecordsPassed, PassedGate
  <1> QED
    BY <1>1, <1>2 DEF BuiltIsOnItsWay, WorkIsLoaded

LEMMA BeginStep ==
  ASSUME ImageLockInv,
         \/ \E force \in BOOLEAN : Make(force)
         \/ ReuseLock \/ QualifyAnew \/ EndQualify
  PROVE  ImageLockInv'
  <1> USE DEF ImageLockInv, sources, outcome, memory
  <1>1. ASSUME NEW force \in BOOLEAN, Make(force)
        PROVE  ImageLockInv'
    <2>1. [manifest |-> manifest, dispositions |-> dispositions]
            \in [manifest: Manifests, dispositions: Dispositions]
      BY DEF ImageLockTypeOK
    <2>2. loaded' \in [manifest: Manifests, dispositions: Dispositions]
      BY <1>1, <2>1 DEF Make
    <2>3. ImageLockTypeOK'
      BY <1>1, <2>1 DEF Make, ImageLockTypeOK
    <2> QED
      BY <1>1, <2>2, <2>3 DEF Make, RecordsPassed, PassedGate, BuiltIsOnItsWay, WorkIsLoaded
  <1>2. CASE ReuseLock
    <2>1. CASE lock.dispositions = dispositions
      BY <1>2, <2>1, IdleStep DEF ReuseLock, ImageLockTypeOK
    <2>2. CASE lock.dispositions # dispositions
      <3>1. /\ making = "deciding" /\ making' = "environment" /\ records' = lock.records
            /\ UNCHANGED <<loaded, candidates, built, manifest, dispositions, edits, advisories,
                           docker, reports, environment, lock, rebuilt, clean>>
        BY <1>2, <2>2 DEF ReuseLock
      <3>2. \A c \in Components : lock.records[c].image \in Images
        BY <1>2 DEF ReuseLock, LockReusable, StillThere, ImageLockTypeOK
      <3>3. \A c \in Components : lock.records[c] # NoRecord
        BY <3>2, ImageLockAssumption DEF NoRecord
      <3>4. ImageLockTypeOK'
        BY <3>1, LockRecords DEF ImageLockTypeOK
      <3> QED
        BY <3>1, <3>3, <3>4 DEF RecordsPassed, PassedGate, BuiltIsOnItsWay, WorkIsLoaded
    <2> QED
      BY <2>1, <2>2
  <1>3. CASE QualifyAnew
    <2>1. candidates' \in {NoRecords, lock.records}
      BY <1>3 DEF QualifyAnew
    <2>2. candidates' \in [Components -> Records]
      BY <2>1, LockRecords, RecordTypes
    <2>3. \A c \in Components : PassedGate(candidates'[c].image)
      BY <2>1 DEF NoRecords, NoRecord, PassedGate, RecordsPassed
    <2>4. ImageLockTypeOK'
      BY <1>3, <2>2 DEF QualifyAnew, ImageLockTypeOK
    <2> QED
      BY <1>3, <2>3, <2>4
      DEF QualifyAnew, RecordsPassed, PassedGate, BuiltIsOnItsWay, WorkIsLoaded
  <1>4. CASE EndQualify
    BY <1>4 DEF EndQualify, ImageLockTypeOK, RecordsPassed, PassedGate, BuiltIsOnItsWay,
                WorkIsLoaded
  <1> QED
    BY <1>1, <1>2, <1>3, <1>4

(* From two builds to a record.                                            *)
LEMMA QualifyStep ==
  ASSUME ImageLockInv, NEW c \in Components,
         ReuseRecord(c) \/ MissImage(c) \/ BuildTwice(c) \/ Scan(c) \/ Review(c)
  PROVE  ImageLockInv'
  <1> USE DEF ImageLockInv, sources, outcome, memory
  <1>1. CASE ReuseRecord(c)
    <2>1. records' \in [Components -> Records]
      BY <1>1 DEF ReuseRecord, ImageLockTypeOK
    <2>2. \A d \in Components : PassedGate(records'[d].image)
      BY <1>1 DEF ReuseRecord, ImageLockTypeOK, RecordsPassed
    <2>3. ImageLockTypeOK'
      BY <1>1, <2>1 DEF ReuseRecord, ImageLockTypeOK
    <2> QED
      BY <1>1, <2>2, <2>3
      DEF ReuseRecord, RecordsPassed, PassedGate, BuiltIsOnItsWay, WorkIsLoaded
  <1>2. CASE BuildTwice(c)
    <2>1. PICK first, second \in Builds(c, loaded.manifest[c]) :
            /\ docker' = docker \union {first, second}
            /\ IF first = second
               THEN /\ making' = "scanning"
                    /\ built' = second
                    /\ rebuilt' = rebuilt \union {second}
                    /\ UNCHANGED <<loaded, candidates, records>>
               ELSE /\ making' = "idle"
                    /\ Forget
                    /\ UNCHANGED rebuilt
      BY <1>2 DEF BuildTwice
    <2>2. making = "qualifying"
      BY <1>2 DEF BuildTwice
    <2>3. first \in Images /\ second \in Images
      BY <2>2, LoadedType, BuildsAreImages
    <2>4. docker' \subseteq Images
      BY <2>1, <2>3 DEF ImageLockTypeOK
    <2>5. CASE first # second
      BY <1>2, <2>1, <2>4, <2>5, IdleStep DEF BuildTwice
    <2>6. CASE first = second
      <3>1. /\ making' = "scanning" /\ built' = second /\ rebuilt' = rebuilt \union {second}
            /\ UNCHANGED <<manifest, dispositions, edits, advisories, loaded, candidates, records,
                           reports, environment, lock, clean>>
        BY <1>2, <2>1, <2>6 DEF BuildTwice
      <3>2. ImageLockTypeOK'
        BY <2>3, <2>4, <3>1 DEF ImageLockTypeOK
      <3>3. RecordsPassed'
        BY <3>1 DEF RecordsPassed, PassedGate
      <3> QED
        BY <2>2, <3>1, <3>2, <3>3 DEF BuiltIsOnItsWay, WorkIsLoaded
    <2> QED
      BY <2>5, <2>6
  <1>3. CASE Scan(c)
    <2>1. /\ making = "scanning" /\ making' = "reviewing" /\ built.of = c /\ built \in Images
          /\ clean' = IF built \in advisories THEN clean ELSE clean \union {built}
          /\ UNCHANGED <<manifest, dispositions, edits, advisories, docker, environment, lock,
                         loaded, candidates, records, built, rebuilt>>
      BY <1>3 DEF Scan, BuiltIsOnItsWay, ImageLockTypeOK
    <2>2. reports' = [reports EXCEPT ![c].vulnerability = built,
                                     ![c].blocking = built \in advisories]
      BY <1>3 DEF Scan
    <2>3. reports' \in [Components -> Reports] /\ reports'[c].blocking = (built \in advisories)
      <3> DEFINE written == [vulnerability |-> built, blocking |-> built \in advisories,
                            license |-> reports[c].license]
      <3>1. reports[c] \in Reports
        BY DEF ImageLockTypeOK
      <3>2. written \in Reports
        BY <2>1, <3>1 DEF Reports
      <3>3. reports' = [reports EXCEPT ![c] = written]
        <4>1. DOMAIN reports' = Components /\ \A d \in Components \ {c} : reports'[d] = reports[d]
          BY <2>2 DEF ImageLockTypeOK
        <4>2. reports'[c] = [[reports[c] EXCEPT !.vulnerability = built]
                               EXCEPT !.blocking = built \in advisories]
          BY <2>2 DEF ImageLockTypeOK
        <4>3. reports'[c] = written
          BY <3>1, <4>2 DEF Reports
        <4>4. reports \in [Components -> Reports]
          BY DEF ImageLockTypeOK
        <4> HIDE DEF written
        <4> QED
          BY <2>2, <4>1, <4>3, <4>4
      <3> QED
        BY <3>2, <3>3 DEF ImageLockTypeOK
    <2>4. ImageLockTypeOK'
      BY <2>1, <2>3 DEF ImageLockTypeOK
    <2>5. RecordsPassed'
      BY <2>1 DEF RecordsPassed, PassedGate
    <2>6. built \in clean' \/ reports'[c].blocking
      BY <2>1, <2>3
    <2> QED
      BY <2>1, <2>4, <2>5, <2>6 DEF BuiltIsOnItsWay, WorkIsLoaded
  <1>4. CASE Review(c)
    <2>1. /\ making = "reviewing" /\ built.of = c /\ built \in Images /\ built \in rebuilt
          /\ reports' = [reports EXCEPT ![c].license = built]
          /\ UNCHANGED <<manifest, dispositions, edits, advisories, docker, environment, lock,
                         rebuilt, clean>>
      BY <1>4 DEF Review, BuiltIsOnItsWay, ImageLockTypeOK
    <2>2. reports' \in [Components -> Reports]
      BY <2>1 DEF ImageLockTypeOK, Reports
    <2>3. CASE Qualified(c)
      <3>1. /\ making' = "qualifying" /\ built' = NoImage
            /\ records' = [records EXCEPT ![c] = [image |-> built, report |-> reports'[c],
                                                  recipe |-> loaded.manifest[c]]]
            /\ UNCHANGED <<loaded, candidates>>
        BY <1>4, <2>3 DEF Review
      <3>2. built \in clean
        BY <2>1, <2>3 DEF Qualified, BuiltIsOnItsWay
      <3>3. [image |-> built, report |-> reports'[c], recipe |-> loaded.manifest[c]] \in Records
        BY <2>1, <2>2, LoadedType DEF Records
      <3>4. records' \in [Components -> Records]
        BY <3>1, <3>3 DEF ImageLockTypeOK
      <3>5. ImageLockTypeOK'
        BY <2>1, <2>2, <3>1, <3>4 DEF ImageLockTypeOK
      <3>6. \A d \in Components : PassedGate(records'[d].image)
        BY <2>1, <3>1, <3>2 DEF ImageLockTypeOK, RecordsPassed, PassedGate
      <3> QED
        BY <2>1, <3>1, <3>5, <3>6 DEF RecordsPassed, PassedGate, BuiltIsOnItsWay, WorkIsLoaded
    <2>4. CASE ~Qualified(c)
      <3>1. making' = "idle" /\ Forget
        BY <1>4, <2>4 DEF Review
      <3>2. ImageLockTypeOK'
        BY <2>1, <2>2, <3>1, ForgetImageType DEF ImageLockTypeOK
      <3>3. RecordsPassed'
        BY <2>1, <3>1, ForgetImageType DEF RecordsPassed, PassedGate
      <3> QED
        BY <3>1, <3>2, <3>3 DEF BuiltIsOnItsWay, WorkIsLoaded
    <2> QED
      BY <2>3, <2>4
  <1>5. CASE MissImage(c)
    BY <1>5, IdleStep DEF MissImage, ImageLockTypeOK
  <1> QED
    BY <1>1, <1>2, <1>3, <1>4, <1>5

(* The two files, one after the other.                                     *)
LEMMA WriteStep ==
  ASSUME ImageLockInv, WriteEnvironment \/ WriteLock \/ DieMaking
  PROVE  ImageLockInv'
  <1> USE DEF ImageLockInv, sources, outcome, memory
  <1>1. CASE WriteEnvironment
    <2>1. \A c \in Components : records[c].image \in Images
      BY <1>1, RecordTypes DEF WriteEnvironment, WorkIsLoaded, ImageLockTypeOK
    <2>2. environment' \in [Components -> Images]
      BY <1>1, <2>1 DEF WriteEnvironment
    <2>3. ImageLockTypeOK'
      BY <1>1, <2>2 DEF WriteEnvironment, ImageLockTypeOK
    <2> QED
      BY <1>1, <2>3 DEF WriteEnvironment, RecordsPassed, PassedGate, BuiltIsOnItsWay, WorkIsLoaded
  <1>2. CASE WriteLock
    <2>1. /\ making' = "idle" /\ lock' = [manifest |-> manifest, dispositions |-> dispositions,
                                          records |-> records]
          /\ UNCHANGED <<manifest, dispositions, edits, advisories, docker, reports, environment,
                         rebuilt, clean>>
      BY <1>2 DEF WriteLock
    <2>2. lock' \in Locks /\ lock'.records = records
      BY <2>1 DEF Locks, ImageLockTypeOK
    <2>3. ImageLockTypeOK'
      BY <1>2, <2>1, <2>2, ForgetImageType DEF WriteLock, ImageLockTypeOK
    <2>4. RecordsPassed'
      BY <1>2, <2>1, <2>2, ForgetImageType DEF WriteLock, RecordsPassed, PassedGate
    <2> QED
      BY <2>1, <2>3, <2>4 DEF BuiltIsOnItsWay, WorkIsLoaded
  <1>3. CASE DieMaking
    BY <1>3, IdleStep DEF DieMaking, ImageLockTypeOK
  <1> QED
    BY <1>1, <1>2, <1>3

LEMMA ImageLockInvStep == ImageLockInv /\ [ImageLockNext]_imageVars => ImageLockInv'
  <1> SUFFICES ASSUME ImageLockInv, [ImageLockNext]_imageVars
               PROVE  ImageLockInv'
    OBVIOUS
  <1>1. CASE UNCHANGED imageVars
    BY <1>1 DEF imageVars, ImageLockInv, ImageLockTypeOK, RecordsPassed, PassedGate,
                BuiltIsOnItsWay, WorkIsLoaded
  <1> QED
    BY <1>1, OwnerStep, BeginStep, QualifyStep, WriteStep DEF ImageLockNext

(* Files, reports, records and the image at hand are well typed.           *)
THEOREM ImageLockTypeCorrect == ImageLockSpec => []ImageLockTypeOK
  <1>1. ImageLockInv => ImageLockTypeOK
    BY DEF ImageLockInv
  <1> QED
    BY <1>1, ImageLockInvInit, ImageLockInvStep, PTL DEF ImageLockSpec

(* Whatever is edited, disclosed, pruned, interrupted or reused: no image  *)
(* gets into images.env or the lock that two builds did not agree on, or   *)
(* that no scan passed.                                                    *)
THEOREM LockIsGated == ImageLockSpec => []LockedImagesPassedTheGate
  <1>1. ImageLockInv => LockedImagesPassedTheGate
    BY DEF ImageLockInv, RecordsPassed, PassedGate, LockedImagesPassedTheGate, Offered
  <1> QED
    BY <1>1, ImageLockInvInit, ImageLockInvStep, PTL DEF ImageLockSpec

-----------------------------------------------------------------------------
(* The material and the receipt: a pass rests on one bootstrap, and an     *)
(* acknowledged receipt is kept.                                           *)

(* A file a bootstrap is done with: its own, and whole while the power     *)
(* lasts.                                                                  *)
Done(f, b) == material[f].by = b /\ (material[f].whole \/ powerLost)

(* A bootstrap that is at a file has made all files before it, and the one *)
(* it has open; so where there is a runtime.env, one bootstrap made all.   *)
FilesAreOfOne ==
  /\ \A b \in Bootstraps : installing[b].at \in Files =>
       /\ \A f \in 1 .. installing[b].at - 1 : Done(f, b)
       /\ installing[b].open => material[installing[b].at].by = b
  /\ material[Env] # NoFile => \A f \in 1 .. SecretCount : Done(f, material[Env].by)

(* What a generator has bound is all of the bootstrap it reads from.       *)
Bound(l) ==
  /\ observed[l].env \in Bootstraps
  /\ \A file \in observed[l].binding :
       file[2].by = observed[l].env /\ (file[2].whole \/ powerLost)

Bindings(l) == {file[1] : file \in observed[l].binding}

ReadsOf(l) ==
  /\ launch[l] \in {"idle", "validating", "child"} => observed[l].secrets = {}
  /\ launch[l] \in {"secrets", "docker"} =>
       /\ Bound(l) /\ material[Env].by = observed[l].env
       /\ Bindings(l) = {Env} \union observed[l].secrets
  /\ launch[l] = "docker" => observed[l].secrets = 1 .. SecretCount
  /\ observed[l].verdict # "none" <=>
       launch[l] \in {"drift", "writing", "linking", "syncing", "acknowledged"}
  /\ observed[l].verdict = "LOCAL_PASS" => Bound(l) /\ Bindings(l) = Files

ReadsAreOfOne == \A l \in Launches : ReadsOf(l)

(* A receipt that has been linked is there, and once its directory is      *)
(* synchronised a power failure leaves it.                                 *)
LinkedIsThere ==
  \A l \in Launches :
    /\ launch[l] \in {"syncing", "acknowledged"} => receiptFile = ReceiptOf(l)
    /\ launch[l] = "acknowledged" => durableFile = receiptFile

ReceiptsInv == ReceiptsTypeOK /\ FilesAreOfOne /\ ReadsAreOfOne /\ LinkedIsThere
-----------------------------------------------------------------------------
LEMMA FileFacts ==
  /\ Env \in Files /\ Files \subseteq Nat /\ 1 .. SecretCount \subseteq Files
  /\ Files = {Env} \union (1 .. SecretCount)
  /\ NoFile.by \notin Bootstraps /\ NoFile \in Contents /\ ~NoFile.whole
  /\ \A c \in Contents : c.by \in Bootstraps <=> c # NoFile
  /\ \A b \in Bootstraps, w \in BOOLEAN : [by |-> b, whole |-> w] \in Contents
  /\ \A c \in Contents : c.whole \in BOOLEAN
  /\ \A c \in Contents : c.whole => c # NoFile
<1>1. /\ Env \in Files /\ Files \subseteq Nat /\ 1 .. SecretCount \subseteq Files
      /\ Files = {Env} \union (1 .. SecretCount)
  BY ReceiptsAssumption DEF Env, Files
<1>2. NoFile.by \notin Bootstraps /\ NoFile \in Contents /\ ~NoFile.whole
  BY ReceiptsAssumption DEF NoFile, Contents
<1>3. \A b \in Bootstraps, w \in BOOLEAN : [by |-> b, whole |-> w] \in Contents
  BY DEF Contents
<1>4. ASSUME NEW c \in Contents
      PROVE  /\ c.by \in Bootstraps <=> c # NoFile
             /\ c.whole \in BOOLEAN
             /\ c.whole => c # NoFile
  <2>1. CASE c = NoFile
    BY <1>2, <2>1 DEF NoFile
  <2>2. CASE c \in [by: Bootstraps, whole: BOOLEAN]
    BY <1>2, <2>2
  <2> QED
    BY <2>1, <2>2 DEF Contents
<1> QED
  BY <1>1, <1>2, <1>3, <1>4

LEMMA UnobservedType == Unobserved \in Observations
  BY ReceiptsAssumption DEF Unobserved, Observations, Verdict

LEMMA StepType ==
  ASSUME ReceiptsTypeOK, NEW l \in Launches, NEW from, NEW to, Step(l, from, to),
         to \in {"idle", "validating", "child", "secrets", "docker", "drift", "writing",
                 "linking", "syncing", "acknowledged", "failed"}
  PROVE  /\ launch' \in [Launches -> {"idle", "validating", "child", "secrets", "docker", "drift", "writing",
                                      "linking", "syncing", "acknowledged", "failed"}]
         /\ launch[l] = from /\ launch'[l] = to
         /\ \A m \in Launches \ {l} : launch'[m] = launch[m]
  BY DEF ReceiptsTypeOK, Step

(* What the steps that only write one launch's observation have to show.   *)
LEMMA ObservationType ==
  ASSUME ReceiptsTypeOK, UNCHANGED <<runtime, around, receipts>>,
         launch' \in [Launches -> {"idle", "validating", "child", "secrets", "docker", "drift", "writing",
                                  "linking", "syncing", "acknowledged", "failed"}],
         observed' \in [Launches -> Observations]
  PROVE  ReceiptsTypeOK'
  BY DEF ReceiptsTypeOK, runtime, around, receipts

LEMMA BootstrapType ==
  ASSUME ReceiptsTypeOK, NEW b \in Bootstraps,
         StartBootstrap(b) \/ OpenFile(b) \/ CloseFile(b) \/ DieBootstrapping(b)
  PROVE  ReceiptsTypeOK'
<1> USE FileFacts
<1>0. /\ Env \in Nat \ {0, 1} /\ Env + 1 \in 0 .. Env + 1 /\ 1 \in 0 .. Env + 1
      /\ \A n \in Files : n + 1 \in 0 .. Env + 1
  BY ReceiptsAssumption DEF Env, Files
<1>1. /\ material' \in [Files -> Contents]
      /\ installing' \in [Bootstraps -> [at: 0 .. Env + 1, open: BOOLEAN]]
  <2>0. installing[b] \in [at: 0 .. Env + 1, open: BOOLEAN]
    BY DEF ReceiptsTypeOK
  <2>1. CASE StartBootstrap(b)
    <3>1. [installing[b] EXCEPT !.at = 1] \in [at: 0 .. Env + 1, open: BOOLEAN]
      BY <2>0, <1>0
    <3> QED
      BY <3>1, <2>1 DEF StartBootstrap, ReceiptsTypeOK
  <2>2. CASE OpenFile(b)
    <3>1. /\ [installing[b] EXCEPT !.open = TRUE] \in [at: 0 .. Env + 1, open: BOOLEAN]
          /\ [installing[b] EXCEPT !.at = Env + 1] \in [at: 0 .. Env + 1, open: BOOLEAN]
      BY <2>0, <1>0
    <3>2. material' \in [Files -> Contents]
      BY <2>2 DEF OpenFile, ReceiptsTypeOK
    <3>3. PICK progress \in [at: 0 .. Env + 1, open: BOOLEAN] :
            installing' = [installing EXCEPT ![b] = progress]
      BY <3>1, <2>2 DEF OpenFile
    <3>4. installing' \in [Bootstraps -> [at: 0 .. Env + 1, open: BOOLEAN]]
      BY <3>3 DEF ReceiptsTypeOK
    <3> QED
      BY <3>2, <3>4
  <2>3. CASE CloseFile(b)
    BY <2>3, <1>0 DEF CloseFile, ReceiptsTypeOK
  <2>4. CASE DieBootstrapping(b)
    BY <2>4, <1>0 DEF DieBootstrapping, ReceiptsTypeOK
  <2> QED
    BY <2>1, <2>2, <2>3, <2>4
<1>2. \A c \in Bootstraps : installing'[c].open => installing'[c].at \in Files
  BY <1>0 DEF StartBootstrap, OpenFile, CloseFile, DieBootstrapping, ReceiptsTypeOK
<1>3. UNCHANGED <<kafkaUp, volume, around, launch, observed, receipts>>
  BY DEF StartBootstrap, OpenFile, CloseFile, DieBootstrapping
<1> QED
  BY <1>1, <1>2, <1>3 DEF ReceiptsTypeOK, around, receipts

LEMMA SurroundingsType ==
  ASSUME ReceiptsTypeOK, KafkaUp \/ KafkaDown \/ Reset \/ EditPlan \/ Drift
  PROVE  ReceiptsTypeOK' /\ UNCHANGED <<material, installing, powerLost, launch, observed, receipts>>
<1> USE FileFacts
<1>1. UNCHANGED <<material, installing, powerLost, launch, observed, receipts>>
  BY DEF KafkaUp, KafkaDown, Reset, EditPlan, Drift, runtime, around, receipts
<1>2. changes' \in 0 .. MaxChanges /\ subject' \in 0 .. changes'
  <2>1. MaxChanges \in Nat /\ changes \in 0 .. MaxChanges /\ subject \in 0 .. changes
    BY ReceiptsAssumption DEF ReceiptsTypeOK
  <2>2. \/ changes' = changes /\ subject' = subject
        \/ changes < MaxChanges /\ changes' = changes + 1 /\ subject' \in {subject, subject + 1}
    BY DEF KafkaUp, KafkaDown, Reset, EditPlan, Drift, Touches, runtime, around
  <2> QED
    BY <2>1, <2>2
<1>4. kafkaUp' \in BOOLEAN /\ approved' \in BOOLEAN
  BY DEF ReceiptsTypeOK, KafkaUp, KafkaDown, Reset, EditPlan, Drift, runtime, around
<1>3. volume' \in Bootstraps \union {Former, Absent}
  BY DEF ReceiptsTypeOK, KafkaUp, KafkaDown, Reset, EditPlan, Drift, runtime, around
<1> QED
  BY <1>1, <1>2, <1>3, <1>4 DEF ReceiptsTypeOK, receipts

LEMMA LosePowerType ==
  ASSUME ReceiptsTypeOK, LosePower
  PROVE  ReceiptsTypeOK'
<1> USE FileFacts
<1>1. material' \in [Files -> Contents]
  <2>1. PICK emptied \in SUBSET {f \in Files : material[f] # NoFile} :
          material' = [f \in Files |-> IF f \in emptied THEN [material[f] EXCEPT !.whole = FALSE] ELSE material[f]]
    BY DEF LosePower
  <2>2. \A c \in Contents : c # NoFile => [c EXCEPT !.whole = FALSE] \in Contents
    BY DEF Contents
  <2> QED
    BY <2>1, <2>2 DEF ReceiptsTypeOK
<1>2. /\ installing' \in [Bootstraps -> [at: 0 .. Env + 1, open: BOOLEAN]]
      /\ \A c \in Bootstraps : installing'[c].open => installing'[c].at \in Files
  <2>1. Env + 1 \in 0 .. Env + 1
    BY ReceiptsAssumption DEF Env
  <2> QED
    BY <2>1 DEF ReceiptsTypeOK, LosePower
<1>3. launch' \in [Launches -> {"idle", "validating", "child", "secrets", "docker", "drift", "writing",
                               "linking", "syncing", "acknowledged", "failed"}]
  BY DEF ReceiptsTypeOK, LosePower
<1>4. observed' \in [Launches -> Observations]
  BY UnobservedType DEF ReceiptsTypeOK, LosePower
<1>5. receiptFile' \in ReceiptTypes /\ durableFile' \in ReceiptTypes
  BY DEF ReceiptsTypeOK, LosePower
<1>6. kafkaUp' \in BOOLEAN /\ powerLost' \in BOOLEAN /\ UNCHANGED <<volume, approved, subject, changes>>
  BY DEF LosePower
<1> QED
  BY <1>1, <1>2, <1>3, <1>4, <1>5, <1>6 DEF ReceiptsTypeOK

(* The steps of a generator.                                               *)
Generates(l) ==
  \/ CaptureBefore(l) \/ ValidatePlan(l) \/ ReadEnvironment(l) \/ BindDocker(l) \/ ChildFails(l)
  \/ \E f \in 1 .. SecretCount : ReadSecret(l, f)
  \/ CaptureAfter(l) \/ WriteTemporary(l) \/ LinkReceipt(l) \/ FindReceipt(l) \/ SyncDirectory(l) \/ DieLaunched(l)

LEMMA LaunchType ==
  ASSUME ReceiptsTypeOK, NEW l \in Launches, Generates(l)
  PROVE  ReceiptsTypeOK'
<1> USE FileFacts
<1>1. UNCHANGED <<runtime, around>>
  BY DEF Generates, CaptureBefore, ValidatePlan, ReadEnvironment, BindDocker, ChildFails, Refuse, ReadSecret,
         CaptureAfter, WriteTemporary, LinkReceipt, FindReceipt, SyncDirectory, DieLaunched
<1>2. \E from, to \in {"idle", "validating", "child", "secrets", "docker", "drift", "writing",
                      "linking", "syncing", "acknowledged", "failed"} : Step(l, from, to)
  <2>1. CASE DieLaunched(l)
    BY <2>1 DEF DieLaunched, Step, ReceiptsTypeOK
  <2>2. CASE \E f \in 1 .. SecretCount : ReadSecret(l, f)
    BY <2>2 DEF ReadSecret
  <2>3. CASE ~DieLaunched(l) /\ ~\E f \in 1 .. SecretCount : ReadSecret(l, f)
    BY <2>3 DEF Generates, CaptureBefore, ValidatePlan, ReadEnvironment, BindDocker, ChildFails, Refuse,
         CaptureAfter, WriteTemporary, LinkReceipt, FindReceipt, SyncDirectory
  <2> QED
    BY <2>1, <2>2, <2>3
<1>3. launch' \in [Launches -> {"idle", "validating", "child", "secrets", "docker", "drift", "writing",
                               "linking", "syncing", "acknowledged", "failed"}]
  BY <1>2, StepType
<1>4. /\ observed[l] \in Observations /\ material \in [Files -> Contents] /\ subject \in 0 .. MaxChanges
      /\ observed \in [Launches -> Observations]
  BY ReceiptsAssumption DEF ReceiptsTypeOK
<1>5. UNCHANGED observed \/ \E o \in Observations : observed' = [observed EXCEPT ![l] = o]
  <2>1. CASE CaptureBefore(l)
    BY <2>1, <1>4 DEF CaptureBefore, Observations
  <2>2. CASE ReadEnvironment(l)
    <3>1. {<<Env, material[Env]>>} \in SUBSET (Files \X Contents) /\ material[Env].by \in Bootstraps
      BY <2>2, <1>4 DEF ReadEnvironment
    <3>2. [observed[l] EXCEPT !.env = material[Env].by, !.binding = {<<Env, material[Env]>>}] \in Observations
      BY <3>1, <1>4 DEF Observations
    <3>3. observed' = [observed EXCEPT ![l] = [observed[l] EXCEPT !.env = material[Env].by,
                                                                  !.binding = {<<Env, material[Env]>>}]]
      BY <2>2, <1>4 DEF ReadEnvironment
    <3> QED
      BY <3>2, <3>3
  <2>3. ASSUME NEW f \in 1 .. SecretCount, ReadSecret(l, f)
        PROVE  \E o \in Observations : observed' = [observed EXCEPT ![l] = o]
    <3>1. observed[l].binding \union {<<f, material[f]>>} \in SUBSET (Files \X Contents)
      BY <1>4 DEF Observations
    <3>2. [observed[l] EXCEPT !.secrets = @ \union {f}, !.binding = @ \union {<<f, material[f]>>}] \in Observations
      BY <3>1, <1>4 DEF Observations
    <3>3. observed' = [observed EXCEPT ![l] = [observed[l] EXCEPT !.secrets = @ \union {f},
                                                                  !.binding = @ \union {<<f, material[f]>>}]]
      BY <2>3, <1>4 DEF ReadSecret
    <3> QED
      BY <3>2, <3>3
  <2>4. CASE BindDocker(l)
    BY <2>4, <1>4 DEF BindDocker, Observations, Verdict
  <2>5. CASE ChildFails(l)
    BY <2>5, <1>4, UnobservedType DEF ChildFails, Refuse, Observations, Verdict
  <2>6. CASE CaptureAfter(l)
    BY <2>6, <1>4 DEF CaptureAfter, Observations, Verdict
  <2>7. CASE FindReceipt(l) \/ DieLaunched(l)
    BY <2>7, UnobservedType DEF FindReceipt, DieLaunched
  <2>8. CASE ValidatePlan(l) \/ WriteTemporary(l) \/ LinkReceipt(l) \/ SyncDirectory(l)
    BY <2>8 DEF ValidatePlan, WriteTemporary, LinkReceipt, SyncDirectory
  <2> QED
    BY <2>1, <2>2, <2>3, <2>4, <2>5, <2>6, <2>7, <2>8 DEF Generates
<1>6. observed' \in [Launches -> Observations]
  BY <1>4, <1>5
<1>7. receiptFile' \in ReceiptTypes /\ durableFile' \in ReceiptTypes
  <2>1. ReceiptOf(l) \in ReceiptTypes
    BY <1>4 DEF ReceiptOf, ReceiptTypes, Observations
  <2>2. receiptFile' \in {receiptFile, ReceiptOf(l)} /\ durableFile' \in {durableFile, receiptFile}
    BY DEF Generates, CaptureBefore, ValidatePlan, ReadEnvironment, BindDocker, ChildFails, Refuse, ReadSecret,
         CaptureAfter, WriteTemporary, LinkReceipt, FindReceipt, SyncDirectory, DieLaunched, receipts
  <2> QED
    BY <2>1, <2>2 DEF ReceiptsTypeOK
<1> QED
  BY <1>1, <1>3, <1>6, <1>7 DEF ReceiptsTypeOK, runtime, around

LEMMA ReceiptsTypeInit == ReceiptsInit => ReceiptsTypeOK
<1>1. 0 \in 0 .. Env + 1 /\ 0 \in 0 .. MaxChanges
  BY ReceiptsAssumption DEF Env
<1>2. NoReceipt \in ReceiptTypes
  BY DEF ReceiptTypes
<1> SUFFICES ASSUME ReceiptsInit
             PROVE  ReceiptsTypeOK
  OBVIOUS
<1>3. material \in [Files -> Contents] /\ observed \in [Launches -> Observations]
  BY FileFacts, UnobservedType DEF ReceiptsInit
<1>4. /\ installing \in [Bootstraps -> [at: 0 .. Env + 1, open: BOOLEAN]]
      /\ \A b \in Bootstraps : ~installing[b].open
  BY <1>1 DEF ReceiptsInit
<1>5. changes \in 0 .. MaxChanges /\ subject \in 0 .. changes
  BY <1>1 DEF ReceiptsInit
<1> QED
  BY <1>2, <1>3, <1>4, <1>5 DEF ReceiptsInit, ReceiptsTypeOK

LEMMA ReceiptsTypeStep == ReceiptsTypeOK /\ [ReceiptsNext]_receiptVars => ReceiptsTypeOK'
<1> SUFFICES ASSUME ReceiptsTypeOK, [ReceiptsNext]_receiptVars
             PROVE  ReceiptsTypeOK'
  OBVIOUS
<1>1. CASE UNCHANGED receiptVars
  BY <1>1 DEF receiptVars, around, ReceiptsTypeOK
<1>2. CASE ReceiptsNext
  BY <1>2, BootstrapType, SurroundingsType, LosePowerType, LaunchType DEF ReceiptsNext, Generates
<1> QED
  BY <1>1, <1>2

(* The material and what the generators have read of it have the shapes    *)
(* the model declares, in every reachable state.                           *)
THEOREM ReceiptsTypeCorrect == ReceiptsSpec => []ReceiptsTypeOK
  BY ReceiptsTypeInit, ReceiptsTypeStep, PTL DEF ReceiptsSpec
-----------------------------------------------------------------------------
(* Nobody writes a file that another bootstrap made.                       *)
FilesKeep ==
  /\ \A f \in Files : material[f] # NoFile =>
       /\ material'[f].by = material[f].by
       /\ material[f].whole => material'[f].whole \/ powerLost'
  /\ powerLost => powerLost'

LEMMA DoneKeeps ==
  ASSUME ReceiptsTypeOK, FilesKeep, NEW f \in Files, NEW b \in Bootstraps, Done(f, b)
  PROVE  Done(f, b)' /\ material[f] # NoFile
  BY FileFacts DEF FilesKeep, Done, ReceiptsTypeOK

LEMMA OpenerStep ==
  ASSUME ReceiptsTypeOK, FilesAreOfOne, NEW b \in Bootstraps,
         StartBootstrap(b) \/ OpenFile(b) \/ CloseFile(b) \/ DieBootstrapping(b)
  PROVE  FilesKeep /\ FilesAreOfOne'
<1> USE FileFacts
<1>0. /\ material \in [Files -> Contents] /\ installing \in [Bootstraps -> [at: 0 .. Env + 1, open: BOOLEAN]]
      /\ Env \in Nat \ {0, 1} /\ Env + 1 \notin Files
      /\ \A c \in Bootstraps \ {b} : installing'[c] = installing[c]
      /\ powerLost' = powerLost
  <2>1. Env \in Nat \ {0, 1} /\ Env + 1 \notin Files
    BY ReceiptsAssumption DEF Env, Files
  <2>2. material \in [Files -> Contents] /\ installing \in [Bootstraps -> [at: 0 .. Env + 1, open: BOOLEAN]]
    BY DEF ReceiptsTypeOK
  <2> QED
    BY <2>1, <2>2 DEF StartBootstrap, OpenFile, CloseFile, DieBootstrapping, around
<1>1. CASE StartBootstrap(b)
  <2>1. FilesKeep /\ UNCHANGED <<material, powerLost>>
    BY <1>1 DEF StartBootstrap, FilesKeep, around
  <2>2. installing'[b].at = 1 /\ installing'[b].open = installing[b].open
    BY <1>0, <1>1 DEF StartBootstrap
  <2>3. ~installing[b].open
    BY <1>1 DEF StartBootstrap, ReceiptsTypeOK, Files
  <2> QED
    BY <1>0, <2>1, <2>2, <2>3 DEF FilesAreOfOne, Done
<1>2. CASE OpenFile(b) /\ material[installing[b].at] # NoFile
  <2>1. FilesKeep /\ UNCHANGED <<material, powerLost>>
    BY <1>2 DEF OpenFile, FilesKeep, around
  <2>2. installing'[b].at = Env + 1
    BY <1>0, <1>2 DEF OpenFile
  <2> QED
    BY <1>0, <2>1, <2>2 DEF FilesAreOfOne, Done
<1>3. CASE OpenFile(b) /\ material[installing[b].at] = NoFile
  <2> DEFINE g == installing[b].at
  <2>1. /\ g \in Files /\ material' = [material EXCEPT ![g] = [by |-> b, whole |-> FALSE]]
        /\ installing' = [installing EXCEPT ![b].open = TRUE]
    BY <1>3 DEF OpenFile
  <2>2. installing'[b].at = g /\ installing'[b].open
    BY <1>0, <2>1
  <2>3. FilesKeep
    BY <1>0, <1>3, <2>1 DEF FilesKeep
  <2>4. \A c \in Bootstraps : installing'[c].at \in Files =>
          \A f \in 1 .. installing'[c].at - 1 : Done(f, c)'
    <3>1. \A c \in Bootstraps : installing'[c].at = installing[c].at
      BY <1>0, <2>2
    <3> QED
      BY <2>3, <3>1, DoneKeeps DEF FilesAreOfOne, Files
  <2>5. \A c \in Bootstraps : installing'[c].at \in Files /\ installing'[c].open =>
          material'[installing'[c].at].by = c
    <3>1. material'[g].by = b
      BY <1>0, <2>1
    <3> QED
      BY <1>0, <1>3, <2>2, <2>3, <3>1 DEF FilesAreOfOne, FilesKeep
  <2>6. material'[Env] # NoFile => \A f \in 1 .. SecretCount : Done(f, material[Env].by)'
    <3>1. CASE g = Env
      <4>1. material'[Env].by = b
        BY <1>0, <2>1, <3>1
      <4>2. \A f \in 1 .. SecretCount : Done(f, b)
        BY <2>1, <3>1, ReceiptsAssumption DEF FilesAreOfOne, Env
      <4>3. \A f \in 1 .. SecretCount : Done(f, b)'
        BY <2>3, <4>2, DoneKeeps
      <4> QED
        BY <4>1, <4>3 DEF Done
    <3>2. CASE g # Env /\ material[Env] # NoFile
      <4>1. material'[Env] = material[Env] /\ material[Env].by \in Bootstraps
        BY <1>0, <2>1, <3>2
      <4>2. \A f \in 1 .. SecretCount : Done(f, material[Env].by)
        BY <3>2 DEF FilesAreOfOne
      <4> QED
        BY <2>3, <4>1, <4>2, DoneKeeps DEF Done
    <3> QED
      BY <1>0, <2>1, <3>1, <3>2
  <2> QED
    BY <2>3, <2>4, <2>5, <2>6 DEF FilesAreOfOne
<1>4. CASE CloseFile(b)
  <2>1. PICK g \in Files : /\ g = installing[b].at /\ material[g].by = b /\ material[g] # NoFile
                           /\ \A f \in 1 .. g - 1 : Done(f, b)
    BY <1>0, <1>4 DEF CloseFile, ReceiptsTypeOK, FilesAreOfOne
  <2>2. /\ material' = [material EXCEPT ![g] = [by |-> b, whole |-> TRUE]]
        /\ installing'[b].at = g + 1 /\ ~installing'[b].open
    BY <1>0, <1>4, <2>1 DEF CloseFile
  <2>3. FilesKeep /\ Done(g, b)'
    <3>1. /\ material'[g].by = b /\ material'[g].whole
          /\ \A f \in Files \ {g} : material'[f] = material[f]
      BY <1>0, <2>1, <2>2
    <3> QED
      BY <1>0, <2>1, <3>1 DEF FilesKeep, Done
  <2>4. \A f \in 1 .. g : Done(f, b)'
    <3>1. \A f \in 1 .. g : f \in Files /\ (f = g \/ f \in 1 .. g - 1)
      BY <1>0, <2>1 DEF Files
    <3> QED
      BY <2>1, <2>3, <3>1, DoneKeeps
  <2>5. \A c \in Bootstraps : installing'[c].at \in Files =>
          /\ \A f \in 1 .. installing'[c].at - 1 : Done(f, c)'
          /\ installing'[c].open => material'[installing'[c].at].by = c
    <3>1. ASSUME NEW c \in Bootstraps \ {b}, installing'[c].at \in Files
          PROVE  /\ \A f \in 1 .. installing'[c].at - 1 : Done(f, c)'
                 /\ installing'[c].open => material'[installing'[c].at].by = c
      <4>1. /\ installing'[c] = installing[c]
            /\ \A f \in 1 .. installing[c].at - 1 : f \in Files /\ Done(f, c)
            /\ installing[c].open => material[installing[c].at].by = c
        BY <1>0, <3>1 DEF FilesAreOfOne, Files
      <4> QED
        BY <1>0, <2>3, <3>1, <4>1, DoneKeeps DEF FilesKeep
    <3> QED
      BY <2>1, <2>2, <2>4, <3>1 DEF Files
  <2>6. material'[Env] # NoFile => \A f \in 1 .. SecretCount : Done(f, material[Env].by)'
    <3>1. material[Env] # NoFile => /\ material'[Env].by = material[Env].by /\ material[Env].by \in Bootstraps
                                    /\ \A f \in 1 .. SecretCount : Done(f, material[Env].by)
      BY <1>0, <2>3 DEF FilesKeep, FilesAreOfOne
    <3>2. material'[Env] # NoFile => material[Env] # NoFile
      BY <1>0, <2>1, <2>2
    <3> QED
      BY <2>3, <3>1, <3>2, DoneKeeps DEF Done
  <2> QED
    BY <2>3, <2>5, <2>6 DEF FilesAreOfOne
<1>5. CASE DieBootstrapping(b)
  <2>1. FilesKeep /\ UNCHANGED <<material, powerLost>>
    BY <1>5 DEF DieBootstrapping, FilesKeep, around
  <2>2. installing'[b].at = Env + 1
    BY <1>0, <1>5 DEF DieBootstrapping
  <2> QED
    BY <1>0, <2>1, <2>2 DEF FilesAreOfOne, Done
<1> QED
  BY <1>1, <1>2, <1>3, <1>4, <1>5

LEMMA PowerStep ==
  ASSUME ReceiptsTypeOK, FilesAreOfOne, LosePower
  PROVE  FilesKeep /\ FilesAreOfOne' /\ (\A f \in Files : material[f] = NoFile => material'[f] = NoFile)
<1> USE FileFacts
<1>1. PICK emptied \in SUBSET {f \in Files : material[f] # NoFile} :
        material' = [f \in Files |-> IF f \in emptied THEN [material[f] EXCEPT !.whole = FALSE] ELSE material[f]]
  BY DEF LosePower
<1>2. \A f \in Files :
        /\ material[f] # NoFile => material'[f].by = material[f].by
        /\ material[f] = NoFile => material'[f] = NoFile
  <2>1. \A c \in Contents : c # NoFile => [c EXCEPT !.whole = FALSE].by = c.by
    BY DEF Contents
  <2> QED
    BY <1>1, <2>1 DEF ReceiptsTypeOK
<1>3. powerLost' /\ FilesKeep
  BY <1>2 DEF LosePower, FilesKeep
<1>4. \A b \in Bootstraps : installing'[b].at \notin Files
  <2>1. Env + 1 \notin Files
    BY ReceiptsAssumption DEF Env, Files
  <2> QED
    BY <2>1 DEF LosePower
<1>5. material'[Env] # NoFile => \A f \in 1 .. SecretCount : Done(f, material[Env].by)'
  <2>0. material[Env] \in Contents /\ Env \in Files
    BY DEF ReceiptsTypeOK
  <2>3. material'[Env] # NoFile => material[Env] # NoFile
    BY <1>2, <2>0
  <2>4. material[Env] # NoFile => material'[Env].by = material[Env].by
    BY <1>2, <2>0
  <2>1. material'[Env] # NoFile =>
          material[Env] # NoFile /\ material'[Env].by = material[Env].by /\ material[Env].by \in Bootstraps
    BY <2>0, <2>3, <2>4
  <2>2. material[Env] # NoFile => \A f \in 1 .. SecretCount : Done(f, material[Env].by)
    BY DEF FilesAreOfOne
  <2> QED
    BY <1>3, <2>1, <2>2, DoneKeeps DEF Done
<1> QED
  BY <1>2, <1>3, <1>4, <1>5 DEF FilesAreOfOne

(* What the generators have read stays true of the files whatever the      *)
(* bootstraps do to those.                                                 *)
LEMMA ReadsKeep ==
  ASSUME ReceiptsTypeOK, ReadsAreOfOne, FilesKeep, UNCHANGED <<launch, observed>>
  PROVE  ReadsAreOfOne'
<1>1. \A l \in Launches : Bound(l) => Bound(l)'
  BY DEF Bound, FilesKeep
<1>2. \A l \in Launches : Bound(l) /\ material[Env].by = observed[l].env => material'[Env].by = observed[l].env
  BY FileFacts DEF Bound, FilesKeep, ReceiptsTypeOK
<1> QED
  BY <1>1, <1>2 DEF ReadsAreOfOne, ReadsOf, Bindings

LEMMA BoundFiles ==
  ASSUME NEW binding, NEW f, NEW content
  PROVE  {file[1] : file \in binding \union {<<f, content>>}} = {file[1] : file \in binding} \union {f}
<1>1. <<f, content>>[1] = f
  OBVIOUS
<1>2. ASSUME NEW g \in {file[1] : file \in binding \union {<<f, content>>}}
      PROVE  g \in {file[1] : file \in binding} \union {f}
  BY <1>1
<1>3. ASSUME NEW g \in {file[1] : file \in binding} \union {f}
      PROVE  g \in {file[1] : file \in binding \union {<<f, content>>}}
  BY <1>1
<1> QED
  BY <1>2, <1>3

LEMMA ReadingStep ==
  ASSUME ReceiptsTypeOK, FilesAreOfOne, ReadsAreOfOne, NEW l \in Launches, Generates(l)
  PROVE  ReadsAreOfOne' /\ (\A m \in Launches \ {l} : launch'[m] = launch[m] /\ observed'[m] = observed[m])
<1> USE FileFacts
<1>0. /\ material' = material /\ powerLost' = powerLost
      /\ material \in [Files -> Contents] /\ observed \in [Launches -> Observations]
      /\ observed[l] \in Observations /\ ReadsOf(l)
      /\ launch \in [Launches -> {"idle", "validating", "child", "secrets", "docker", "drift", "writing",
                                  "linking", "syncing", "acknowledged", "failed"}]
  BY DEF Generates, CaptureBefore, ValidatePlan, ReadEnvironment, BindDocker, ChildFails, Refuse, ReadSecret,
         CaptureAfter, WriteTemporary, LinkReceipt, FindReceipt, SyncDirectory, DieLaunched, runtime, around,
         ReceiptsTypeOK, ReadsAreOfOne
<1>1. \A m \in Launches \ {l} : launch'[m] = launch[m] /\ observed'[m] = observed[m]
  BY <1>0 DEF Generates, CaptureBefore, ValidatePlan, ReadEnvironment, BindDocker, ChildFails, Refuse, ReadSecret,
         CaptureAfter, WriteTemporary, LinkReceipt, FindReceipt, SyncDirectory, DieLaunched, Step
<1>2. ReadsOf(l)'
  <2>1. CASE CaptureBefore(l)
    <3>1. /\ launch[l] = "idle" /\ launch'[l] = "validating"
          /\ observed'[l] = [observed[l] EXCEPT !.before = subject]
      BY <1>0, <2>1 DEF CaptureBefore, Step
    <3>2. /\ observed'[l].secrets = {} /\ observed'[l].verdict = "none"
      BY <1>0, <3>1 DEF ReadsOf, Observations
    <3> QED
      BY <3>1, <3>2 DEF ReadsOf
  <2>2. CASE ValidatePlan(l)
    <3>1. /\ launch[l] = "validating" /\ launch'[l] = "child" /\ observed'[l] = observed[l]
      BY <1>0, <2>2 DEF ValidatePlan, Step
    <3> QED
      BY <1>0, <3>1 DEF ReadsOf
  <2>3. CASE ReadEnvironment(l)
    <3>1. /\ launch[l] = "child" /\ launch'[l] = "secrets" /\ material[Env].whole
          /\ observed'[l] = [[observed[l] EXCEPT !.env = material[Env].by] EXCEPT !.binding = {<<Env, material[Env]>>}]
      BY <1>0, <2>3 DEF ReadEnvironment, Step
    <3>2. /\ observed'[l].env = material[Env].by /\ observed'[l].binding = {<<Env, material[Env]>>}
          /\ observed'[l].secrets = {} /\ observed'[l].verdict = "none"
      BY <1>0, <3>1 DEF ReadsOf, Observations
    <3>3. Bound(l)' /\ Bindings(l)' = {Env}
      BY <1>0, <3>1, <3>2 DEF Bound, Bindings
    <3> QED
      BY <1>0, <3>1, <3>2, <3>3 DEF ReadsOf
  <2>4. ASSUME NEW f \in 1 .. SecretCount, ReadSecret(l, f)
        PROVE  ReadsOf(l)'
    <3>1. /\ launch[l] = "secrets" /\ launch'[l] = IF f = SecretCount THEN "docker" ELSE "secrets"
          /\ observed'[l] = [[observed[l] EXCEPT !.secrets = @ \union {f}]
                                         EXCEPT !.binding = @ \union {<<f, material[f]>>}]
          /\ observed[l].secrets = 1 .. f - 1 /\ material[f] # NoFile
      BY <1>0, <2>4 DEF ReadSecret, Step, Readable
    <3>2. /\ observed'[l].env = observed[l].env /\ observed'[l].verdict = "none"
          /\ observed'[l].binding = observed[l].binding \union {<<f, material[f]>>}
          /\ observed'[l].secrets = observed[l].secrets \union {f}
      BY <1>0, <3>1 DEF ReadsOf, Observations
    <3>3. Bound(l) /\ Bindings(l) = {Env} \union observed[l].secrets /\ material[Env].by = observed[l].env
      BY <1>0, <3>1 DEF ReadsOf
    <3>4. material[Env] # NoFile /\ Done(f, observed[l].env)
      BY <1>0, <3>3 DEF Bound, FilesAreOfOne
    <3>5. Bound(l)'
      BY <1>0, <3>2, <3>3, <3>4 DEF Bound, Done
    <3>6. Bindings(l)' = Bindings(l) \union {f}
      <4>1. Bindings(l)' = {file[1] : file \in observed[l].binding \union {<<f, material[f]>>}}
        BY <3>2 DEF Bindings
      <4> QED
        BY <4>1, BoundFiles DEF Bindings
    <3>7. f = SecretCount => observed'[l].secrets = 1 .. SecretCount
      BY <3>1, <3>2, ReceiptsAssumption
    <3> QED
      BY <1>0, <3>1, <3>2, <3>3, <3>5, <3>6, <3>7 DEF ReadsOf
  <2>5. CASE BindDocker(l)
    <3>1. /\ launch[l] = "docker" /\ launch'[l] = "drift"
          /\ observed'[l] = [observed[l] EXCEPT !.verdict = "LOCAL_PASS"]
      BY <1>0, <2>5 DEF BindDocker, Step
    <3>2. /\ observed'[l].env = observed[l].env /\ observed'[l].verdict = "LOCAL_PASS"
          /\ observed'[l].binding = observed[l].binding
      BY <1>0, <3>1 DEF Observations
    <3>3. Bound(l)' /\ Bindings(l)' = Files
      BY <1>0, <3>1, <3>2 DEF ReadsOf, Bound, Bindings
    <3> QED
      BY <3>1, <3>2, <3>3 DEF ReadsOf
  <2>6. CASE ChildFails(l)
    <3>1. launch'[l] = "drift" /\ observed'[l].verdict = "NO-GO"
      BY <1>0, <2>6 DEF ChildFails, Refuse, Step, Unobserved
    <3> QED
      BY <3>1 DEF ReadsOf
  <2>7. CASE CaptureAfter(l)
    <3>1. /\ launch[l] = "drift" /\ launch'[l] = "writing" /\ observed[l].verdict # "none"
          /\ observed'[l].verdict \in {observed[l].verdict, "NO-GO"}
          /\ observed'[l].env = observed[l].env /\ observed'[l].binding = observed[l].binding
      BY <1>0, <2>7 DEF CaptureAfter, Step, Observations, ReadsOf
    <3> QED
      BY <1>0, <3>1 DEF ReadsOf, Bound, Bindings
  <2>8. CASE WriteTemporary(l) \/ LinkReceipt(l) \/ SyncDirectory(l)
    <3>1. /\ launch[l] \in {"writing", "linking", "syncing"} /\ launch'[l] \in {"linking", "syncing", "acknowledged"}
          /\ observed'[l] = observed[l]
      BY <1>0, <2>8 DEF WriteTemporary, LinkReceipt, SyncDirectory, Step
    <3> QED
      BY <1>0, <3>1 DEF ReadsOf, Bound, Bindings
  <2>9. CASE FindReceipt(l) \/ DieLaunched(l)
    <3>1. launch'[l] = "failed" /\ observed'[l].verdict = "none"
      BY <1>0, <2>9 DEF FindReceipt, DieLaunched, Step, Unobserved
    <3> QED
      BY <3>1 DEF ReadsOf
  <2> QED
    BY <2>1, <2>2, <2>3, <2>4, <2>5, <2>6, <2>7, <2>8, <2>9 DEF Generates
<1>3. ASSUME NEW m \in Launches \ {l}
      PROVE  ReadsOf(m)'
  <2>1. /\ ReadsOf(m) /\ launch'[m] = launch[m] /\ observed'[m] = observed[m]
        /\ UNCHANGED <<material, powerLost>>
    BY <1>0, <1>1, <1>3 DEF ReadsAreOfOne
  <2>2. Bound(m)' = Bound(m) /\ Bindings(m)' = Bindings(m)
    BY <2>1 DEF Bound, Bindings
  <2> QED
    BY <2>1, <2>2 DEF ReadsOf
<1> QED
  BY <1>1, <1>2, <1>3 DEF ReadsAreOfOne

LEMMA KeptStep ==
  ASSUME ReceiptsTypeOK, ReadsAreOfOne, LinkedIsThere, NEW l \in Launches, Generates(l),
         \A m \in Launches \ {l} : launch'[m] = launch[m] /\ observed'[m] = observed[m]
  PROVE  LinkedIsThere'
<1>0. /\ observed \in [Launches -> Observations]
      /\ launch \in [Launches -> {"idle", "validating", "child", "secrets", "docker", "drift", "writing",
                                  "linking", "syncing", "acknowledged", "failed"}]
  BY DEF ReceiptsTypeOK
<1>1. \A m \in Launches \ {l} : ReceiptOf(m)' = ReceiptOf(m)
  BY DEF ReceiptOf
<1>2. CASE LinkReceipt(l)
  <2>1. \A m \in Launches : launch[m] \in {"syncing", "acknowledged"} => ReceiptOf(m) # NoReceipt
    BY DEF ReadsAreOfOne, ReadsOf, ReceiptOf, NoReceipt
  <2>2. \A m \in Launches \ {l} : launch'[m] \notin {"syncing", "acknowledged"}
    BY <1>2, <2>1 DEF LinkReceipt, LinkedIsThere
  <2>3. launch'[l] = "syncing" /\ receiptFile' = ReceiptOf(l)'
    BY <1>0, <1>2 DEF LinkReceipt, Step, ReceiptOf
  <2> QED
    BY <2>2, <2>3 DEF LinkedIsThere
<1>3. CASE SyncDirectory(l)
  <2>1. /\ receiptFile' = receiptFile /\ durableFile' = receiptFile /\ observed' = observed
        /\ launch[l] = "syncing"
    BY <1>3 DEF SyncDirectory, Step
  <2> QED
    BY <1>1, <2>1 DEF LinkedIsThere, ReceiptOf
<1>4. CASE ~LinkReceipt(l) /\ ~SyncDirectory(l)
  <2>1. UNCHANGED receipts
    BY <1>4 DEF Generates, CaptureBefore, ValidatePlan, ReadEnvironment, BindDocker, ChildFails, Refuse, ReadSecret,
         CaptureAfter, WriteTemporary, FindReceipt, DieLaunched
  <2>2. launch'[l] \notin {"syncing", "acknowledged"}
    BY <1>0, <1>4 DEF Generates, CaptureBefore, ValidatePlan, ReadEnvironment, BindDocker, ChildFails, Refuse,
         ReadSecret, CaptureAfter, WriteTemporary, FindReceipt, DieLaunched, Step
  <2> QED
    BY <1>1, <2>1, <2>2 DEF LinkedIsThere, receipts
<1> QED
  BY <1>2, <1>3, <1>4

LEMMA PowerKeeps ==
  ASSUME ReceiptsTypeOK, ReadsAreOfOne, LinkedIsThere, FilesKeep, LosePower
  PROVE  ReadsAreOfOne' /\ LinkedIsThere'
<1>1. \A l \in Launches :
        \/ launch[l] \in {"idle", "acknowledged"} /\ launch'[l] = launch[l] /\ observed'[l] = observed[l]
        \/ launch'[l] = "failed" /\ observed'[l] = Unobserved
  BY DEF LosePower, ReceiptsTypeOK
<1>2. ASSUME NEW l \in Launches
      PROVE  ReadsOf(l)'
  <2>1. CASE launch'[l] = "failed" /\ observed'[l] = Unobserved
    BY <2>1 DEF ReadsOf, Unobserved
  <2>2. CASE launch[l] \in {"idle", "acknowledged"} /\ launch'[l] = launch[l] /\ observed'[l] = observed[l]
    <3>1. (Bound(l) => Bound(l)') /\ Bindings(l)' = Bindings(l)
      BY <2>2 DEF Bound, Bindings, FilesKeep
    <3> QED
      BY <2>2, <3>1 DEF ReadsAreOfOne, ReadsOf
  <2> QED
    BY <1>1, <2>1, <2>2
<1>3. LinkedIsThere'
  <2>1. ASSUME NEW l \in Launches, launch'[l] \in {"syncing", "acknowledged"}
        PROVE  receiptFile' = ReceiptOf(l)' /\ durableFile' = receiptFile'
    <3>1. launch[l] = "acknowledged" /\ observed'[l] = observed[l]
      BY <1>1, <2>1
    <3>2. receiptFile = ReceiptOf(l) /\ durableFile = receiptFile
      BY <3>1 DEF LinkedIsThere
    <3> QED
      BY <3>1, <3>2 DEF LosePower, ReceiptOf
  <2> QED
    BY <2>1 DEF LinkedIsThere
<1> QED
  BY <1>2, <1>3 DEF ReadsAreOfOne

LEMMA ReceiptsInvInit == ReceiptsInit => ReceiptsInv
<1> SUFFICES ASSUME ReceiptsInit
             PROVE  ReceiptsInv
  OBVIOUS
<1>1. ReceiptsTypeOK
  BY ReceiptsTypeInit
<1>2. FilesAreOfOne
  BY FileFacts DEF ReceiptsInit, FilesAreOfOne, Files
<1>3. ReadsAreOfOne
  BY DEF ReceiptsInit, ReadsAreOfOne, ReadsOf, Unobserved
<1>4. LinkedIsThere
  BY DEF ReceiptsInit, LinkedIsThere
<1> QED
  BY <1>1, <1>2, <1>3, <1>4 DEF ReceiptsInv

LEMMA ReceiptsInvStep == ReceiptsInv /\ [ReceiptsNext]_receiptVars => ReceiptsInv'
<1> SUFFICES ASSUME ReceiptsInv, [ReceiptsNext]_receiptVars
             PROVE  ReceiptsInv'
  OBVIOUS
<1>0. ReceiptsTypeOK /\ FilesAreOfOne /\ ReadsAreOfOne /\ LinkedIsThere /\ ReceiptsTypeOK'
  BY ReceiptsTypeStep DEF ReceiptsInv
<1>1. ASSUME UNCHANGED <<material, installing, powerLost, launch, observed, receipts>>
      PROVE  ReceiptsInv'
  <2>1. FilesKeep /\ FilesAreOfOne'
    BY <1>0, <1>1 DEF FilesKeep, FilesAreOfOne, Done
  <2>2. LinkedIsThere'
    BY <1>0, <1>1 DEF LinkedIsThere, ReceiptOf, receipts
  <2> QED
    BY <1>0, <1>1, <2>1, <2>2, ReadsKeep DEF ReceiptsInv
<1>2. ASSUME NEW b \in Bootstraps, StartBootstrap(b) \/ OpenFile(b) \/ CloseFile(b) \/ DieBootstrapping(b)
      PROVE  ReceiptsInv'
  <2>1. FilesKeep /\ FilesAreOfOne' /\ UNCHANGED <<launch, observed, receipts>>
    BY <1>0, <1>2, OpenerStep DEF StartBootstrap, OpenFile, CloseFile, DieBootstrapping
  <2>2. LinkedIsThere'
    BY <1>0, <2>1 DEF LinkedIsThere, ReceiptOf, receipts
  <2> QED
    BY <1>0, <2>1, <2>2, ReadsKeep DEF ReceiptsInv
<1>3. ASSUME NEW l \in Launches, Generates(l)
      PROVE  ReceiptsInv'
  <2>1. UNCHANGED <<runtime, powerLost>>
    BY <1>3 DEF Generates, CaptureBefore, ValidatePlan, ReadEnvironment, BindDocker, ChildFails, Refuse, ReadSecret,
         CaptureAfter, WriteTemporary, LinkReceipt, FindReceipt, SyncDirectory, DieLaunched, around
  <2>2. FilesAreOfOne'
    BY <1>0, <2>1 DEF FilesAreOfOne, Done, runtime
  <2> QED
    BY <1>0, <1>3, <2>2, ReadingStep, KeptStep DEF ReceiptsInv
<1>4. CASE LosePower
  BY <1>0, <1>4, PowerStep, PowerKeeps DEF ReceiptsInv
<1>5. CASE UNCHANGED receiptVars
  <2>1. UNCHANGED <<material, installing, powerLost, launch, observed, receipts>>
    BY <1>5 DEF receiptVars, around, receipts
  <2> QED
    BY <1>1, <2>1
<1>6. CASE KafkaUp \/ KafkaDown \/ Reset \/ EditPlan \/ Drift
  <2>1. UNCHANGED <<material, installing, powerLost, launch, observed, receipts>>
    BY <1>0, <1>6, SurroundingsType
  <2> QED
    BY <1>1, <2>1
<1> QED
  BY <1>2, <1>3, <1>4, <1>5, <1>6 DEF ReceiptsNext, Generates

(* PassBindsOneRuntime: what a verdict of LOCAL_PASS rests on is all files *)
(* of one bootstrap, however many bootstraps and generators race.          *)
THEOREM PassIsOfOneBootstrap == ReceiptsSpec => []PassBindsOneRuntime
<1>1. ReceiptsInv => PassBindsOneRuntime
  BY DEF ReceiptsInv, ReadsAreOfOne, ReadsOf, Bound, Bindings, PassBindsOneRuntime
<1> QED
  BY <1>1, ReceiptsInvInit, ReceiptsInvStep, PTL DEF ReceiptsSpec

(* ReceiptIsKept: an acknowledged receipt is never replaced and no loss of *)
(* power removes it.                                                       *)
THEOREM AcknowledgedIsKept == ReceiptsSpec => []ReceiptIsKept
<1>1. ReceiptsInv => ReceiptIsKept
  BY DEF ReceiptsInv, LinkedIsThere, ReceiptIsKept
<1> QED
  BY <1>1, ReceiptsInvInit, ReceiptsInvStep, PTL DEF ReceiptsSpec

-----------------------------------------------------------------------------
(* The smokes: a pass of the recovery smoke shows that a marker survived.  *)

(* A recovery smoke writes its row and its message before it restarts the  *)
(* services, so what a store then forgets of it stays forgotten; and past  *)
(* the step that reads a store back, that store is one that keeps its data. *)
ForgottenStaysSo ==
  \A s \in Recovery :
    /\ smoking[s] >= 7 /\ "postgres" \notin persistent => s \notin rows
    /\ smoking[s] >= 7 /\ "kafka" \notin persistent => \A i \in 1 .. Len(log) : log[i] # s
    /\ smoking[s] >= 8 => "postgres" \in persistent
    /\ smoking[s] >= 9 => "kafka" \in persistent
    /\ verdict[s] = "pass" => smoking[s] = Len(RecoveryPlan) + 1

SmokeInv == SmokeTypeOK /\ ForgottenStaysSo
-----------------------------------------------------------------------------
(* A plan ends with "done", and nothing before it is called that.          *)
LEMMA PlanEnds ==
  ASSUME NEW s \in Smokes
  PROVE  /\ Len(PlanOf(s)) \in 1 .. 14
         /\ \A n \in 1 .. Len(PlanOf(s)) : PlanOf(s)[n] = "done" <=> n = Len(PlanOf(s))
  <1>1. /\ Len(FastPlan) = 13
        /\ \A n \in 1 .. 13 : FastPlan[n] = "done" <=> n = 13
    BY DEF FastPlan
  <1>2. /\ Len(RecoveryPlan) = 14
        /\ \A n \in 1 .. 14 : RecoveryPlan[n] = "done" <=> n = 14
    BY DEF RecoveryPlan
  <1>3. CASE s \in Fast
    <2>1. PlanOf(s) = FastPlan
      BY <1>3 DEF PlanOf
    <2>2. Len(PlanOf(s)) = 13
      BY <1>1, <2>1
    <2>3. \A n \in 1 .. 13 : PlanOf(s)[n] = "done" <=> n = 13
      BY <1>1, <2>1
    <2> QED
      BY <2>2, <2>3
  <1>4. CASE s \notin Fast
    <2>1. PlanOf(s) = RecoveryPlan
      BY <1>4 DEF PlanOf
    <2>2. Len(PlanOf(s)) = 14
      BY <1>2, <2>1
    <2>3. \A n \in 1 .. 14 : PlanOf(s)[n] = "done" <=> n = 14
      BY <1>2, <2>1
    <2> QED
      BY <2>2, <2>3
  <1> QED
    BY <1>3, <1>4

(* Where the steps that matter stand in the plan of a recovery smoke.      *)
LEMMA RecoverySteps ==
  ASSUME NEW s \in Recovery, NEW n \in 1 .. Len(PlanOf(s))
  PROVE  /\ Len(RecoveryPlan) = 14 /\ Len(PlanOf(s)) = 14 /\ s \in Smokes
         /\ PlanOf(s)[n] = "insert" => n = 2
         /\ PlanOf(s)[n] = "publish" => n = 4
         /\ PlanOf(s)[n] = "restart" <=> n = 6
         /\ PlanOf(s)[n] = "rows" <=> n = 7
         /\ PlanOf(s)[n] = "log" <=> n = 8
         /\ PlanOf(s)[n] = "done" <=> n = 14
  <1>1. PlanOf(s) = RecoveryPlan /\ s \in Smokes
    BY SmokeAssumption DEF PlanOf, Smokes
  <1> QED
    BY <1>1 DEF RecoveryPlan

(* One step of a plan: a smoke that has not ended goes on by one, and      *)
(* stays within its plan unless the step was the last.                     *)
SmokingOK ==
  /\ smoking \in [Smokes -> Nat]
  /\ \A s \in Smokes : smoking[s] \in 1 .. Len(PlanOf(s)) + (IF verdict[s] = "pass" THEN 1 ELSE 0)

LEMMA TakesType ==
  ASSUME SmokeTypeOK, NEW s \in Smokes, NEW name, Takes(s, name),
         \/ name # "done" /\ UNCHANGED verdict
         \/ name = "done" /\ verdict' = [verdict EXCEPT ![s] = "pass"]
  PROVE  SmokingOK'
  <1>1. /\ smoking \in [Smokes -> Nat] /\ smoking' = [smoking EXCEPT ![s] = @ + 1]
        /\ verdict \in [Smokes -> {"none", "pass", "fail", "killed"}]
    BY DEF SmokeTypeOK, Takes
  <1>2. verdict[s] = "none" /\ smoking[s] \in 1 .. Len(PlanOf(s)) /\ PlanOf(s)[smoking[s]] = name
    BY PlanEnds DEF SmokeTypeOK, Takes
  <1>3. smoking' \in [Smokes -> Nat]
    BY <1>1
  <1>4. ASSUME NEW q \in Smokes
        PROVE  smoking'[q] \in 1 .. Len(PlanOf(q)) + (IF verdict'[q] = "pass" THEN 1 ELSE 0)
    <2>1. CASE q # s
      <3>1. smoking'[q] = smoking[q] /\ verdict'[q] = verdict[q]
        BY <1>1, <2>1
      <3> QED
        BY <3>1 DEF SmokeTypeOK
    <2>2. CASE q = s
      <3>1. smoking'[q] = smoking[s] + 1
        BY <1>1, <2>2
      <3>2. CASE name # "done" /\ UNCHANGED verdict
        BY <1>2, <2>2, <3>1, <3>2, PlanEnds
      <3>3. CASE name = "done" /\ verdict' = [verdict EXCEPT ![s] = "pass"]
        BY <1>1, <1>2, <2>2, <3>1, <3>3, PlanEnds
      <3> QED
        BY <3>2, <3>3
    <2> QED
      BY <2>1, <2>2
  <1> QED
    BY <1>3, <1>4 DEF SmokingOK

LEMMA SmokeTypeInit == SmokeInit => SmokeTypeOK
  <1> SUFFICES ASSUME SmokeInit
               PROVE  SmokeTypeOK
    OBVIOUS
  <1>1. SmokingOK
    <2>1. smoking \in [Smokes -> Nat]
      BY DEF SmokeInit
    <2>2. \A s \in Smokes : smoking[s] = 1 /\ verdict[s] # "pass"
      BY DEF SmokeInit
    <2>3. \A s \in Smokes : Len(PlanOf(s)) \in 1 .. 14
      BY PlanEnds
    <2>4. \A n \in 1 .. 14 : 1 \in 1 .. n + 0
      OBVIOUS
    <2> QED
      BY <2>1, <2>2, <2>3, <2>4 DEF SmokingOK
  <1>2. log \in Seq(Smokes) /\ Len(log) <= MaxLog
    BY SmokeAssumption DEF SmokeInit
  <1>3. offset \in [Smokes -> 0 .. MaxLog]
    BY SmokeAssumption DEF SmokeInit
  <1>4. restoring \in [Smokes -> (SUBSET Smokes) \union {NotThere}]
    BY DEF SmokeInit
  <1> QED
    BY <1>1, <1>2, <1>3, <1>4 DEF SmokeInit, SmokeTypeOK, SmokingOK
-----------------------------------------------------------------------------
(* The steps that only look.                                               *)
LEMMA LookType ==
  ASSUME SmokeTypeOK, NEW s \in Smokes,
         \/ CheckSetup(s) \/ Consume(s) \/ VerifyRows(s) \/ VerifyLog(s) \/ Observe(s) \/ SeeAlert(s)
  PROVE  SmokeTypeOK'
  <1> USE DEF stores, alerting, own
  <1>1. UNCHANGED <<persistent, rows, log, exporterUp, firing, restoring, offset, dumped, expired,
                    verdict>>
    BY DEF CheckSetup, Consume, VerifyRows, VerifyLog, Observe, SeeAlert
  <1>2. \E name : name # "done" /\ Takes(s, name)
    BY DEF CheckSetup, Consume, VerifyRows, VerifyLog, Observe, SeeAlert
  <1>3. SmokingOK'
    BY <1>1, <1>2, TakesType
  <1> QED
    BY <1>1, <1>3 DEF SmokeTypeOK, SmokingOK

LEMMA WriteType ==
  ASSUME SmokeTypeOK, NEW s \in Smokes,
         \/ MeasureLog(s) \/ InsertRow(s) \/ PublishMessage(s) \/ Restart(s)
         \/ StopExporter(s) \/ StartExporter(s)
  PROVE  SmokeTypeOK'
  <1> USE DEF stores, alerting, own
  <1>1. Len(log) \in 0 .. MaxLog /\ log \in Seq(Smokes)
    BY LenProperties, SmokeAssumption DEF SmokeTypeOK
  <1>2. UNCHANGED <<persistent, firing, restoring, dumped, expired, verdict>>
    BY DEF MeasureLog, InsertRow, PublishMessage, Restart, StopExporter, StartExporter
  <1>3. \E name : name # "done" /\ Takes(s, name)
    BY DEF MeasureLog, InsertRow, PublishMessage, Restart, StopExporter, StartExporter
  <1>4. SmokingOK'
    BY <1>2, <1>3, TakesType
  <1>5. offset' \in [Smokes -> 0 .. MaxLog]
    BY <1>1 DEF MeasureLog, InsertRow, PublishMessage, Restart, StopExporter, StartExporter,
                SmokeTypeOK
  <1>6. rows' \subseteq Smokes /\ exporterUp' \in BOOLEAN
    BY DEF MeasureLog, InsertRow, PublishMessage, Restart, StopExporter, StartExporter, SmokeTypeOK
  <1>7. log' \in Seq(Smokes) /\ Len(log') <= MaxLog
    <2>1. CASE PublishMessage(s)
      BY <1>1, <2>1, AppendProperties, SmokeAssumption DEF PublishMessage
    <2>2. CASE log' = <<>>
      BY <2>2, SmokeAssumption
    <2> QED
      BY <1>1, <2>1, <2>2 DEF MeasureLog, InsertRow, Restart, StopExporter, StartExporter
  <1> QED
    BY <1>2, <1>4, <1>5, <1>6, <1>7 DEF SmokeTypeOK, SmokingOK

LEMMA RestoreType ==
  ASSUME SmokeTypeOK, NEW s \in Smokes,
         DumpFoundation(s) \/ CreateRestore(s) \/ RestoreDump(s) \/ DropRestore(s)
  PROVE  SmokeTypeOK'
  <1> USE DEF stores, alerting, own
  <1>1. UNCHANGED <<persistent, rows, log, exporterUp, firing, offset, expired, verdict>>
    BY DEF DumpFoundation, CreateRestore, RestoreDump, DropRestore
  <1>2. \E name : name # "done" /\ Takes(s, name)
    BY DEF DumpFoundation, CreateRestore, RestoreDump, DropRestore
  <1>3. SmokingOK'
    BY <1>1, <1>2, TakesType
  <1>4. dumped' \in [Smokes -> SUBSET Smokes]
    BY DEF DumpFoundation, CreateRestore, RestoreDump, DropRestore, SmokeTypeOK
  <1>5. restoring' \in [Smokes -> (SUBSET Smokes) \union {NotThere}]
    <2>1. PICK there \in (SUBSET Smokes) \union {NotThere} :
            restoring' = restoring \/ restoring' = [restoring EXCEPT ![s] = there]
      BY DEF DumpFoundation, CreateRestore, RestoreDump, DropRestore, SmokeTypeOK
    <2> QED
      BY <2>1 DEF SmokeTypeOK
  <1> QED
    BY <1>1, <1>3, <1>4, <1>5 DEF SmokeTypeOK, SmokingOK

LEMMA EndType ==
  ASSUME SmokeTypeOK, NEW s \in Smokes, Pass(s) \/ FailSmoke(s) \/ Expire(s) \/ KillSmoke(s)
  PROVE  SmokeTypeOK'
  <1> USE DEF stores, alerting, own
  <1>1. /\ UNCHANGED <<persistent, rows, log, firing, offset, dumped>> /\ exporterUp' \in BOOLEAN
        /\ expired' \in [Smokes -> BOOLEAN]
    BY DEF Pass, FailSmoke, Expire, KillSmoke, SmokeTypeOK
  <1>2. restoring' \in [Smokes -> (SUBSET Smokes) \union {NotThere}]
    BY DEF Pass, FailSmoke, Expire, KillSmoke, SmokeTypeOK
  <1>3. verdict' \in [Smokes -> {"none", "pass", "fail", "killed"}]
    BY DEF Pass, FailSmoke, Expire, KillSmoke, SmokeTypeOK
  <1>4. SmokingOK'
    <2>1. CASE Pass(s)
      BY <2>1, TakesType DEF Pass
    <2>2. CASE FailSmoke(s) \/ Expire(s) \/ KillSmoke(s)
      <3>1. /\ UNCHANGED smoking
            /\ \A q \in Smokes : verdict'[q] = "pass" <=> verdict[q] = "pass"
        BY <2>2 DEF FailSmoke, Expire, KillSmoke, SmokeTypeOK
      <3> QED
        BY <3>1 DEF SmokeTypeOK, SmokingOK
    <2> QED
      BY <2>1, <2>2
  <1> QED
    BY <1>1, <1>2, <1>3, <1>4 DEF SmokeTypeOK, SmokingOK

LEMMA SmokeTypeStep == SmokeTypeOK /\ [SmokeNext]_smokeVars => SmokeTypeOK'
  <1> SUFFICES ASSUME SmokeTypeOK, [SmokeNext]_smokeVars
               PROVE  SmokeTypeOK'
    OBVIOUS
  <1>1. CASE UNCHANGED smokeVars
    BY <1>1 DEF smokeVars, SmokeTypeOK
  <1>2. CASE Evaluate
    BY <1>2 DEF Evaluate, stores, own, SmokeTypeOK
  <1> QED
    BY <1>1, <1>2, LookType, WriteType, RestoreType, EndType DEF SmokeNext
-----------------------------------------------------------------------------
(* What a recovery smoke that takes a step is at.                          *)
LEMMA RecoveryTakes ==
  ASSUME SmokeTypeOK, NEW s \in Recovery, NEW name, Takes(s, name)
  PROVE  /\ smoking[s] \in 1 .. 14 /\ smoking'[s] = smoking[s] + 1
         /\ PlanOf(s)[smoking[s]] = name /\ smoking[s] \in 1 .. Len(PlanOf(s))
  <1>1. s \in Smokes /\ PlanOf(s) = RecoveryPlan
    BY SmokeAssumption DEF PlanOf, Smokes
  <1>2. Len(PlanOf(s)) = 14 /\ verdict[s] = "none"
    BY <1>1 DEF Takes, RecoveryPlan
  <1>3. smoking[s] \in 1 .. Len(PlanOf(s)) + (IF verdict[s] = "pass" THEN 1 ELSE 0)
    BY <1>1 DEF SmokeTypeOK
  <1>4. smoking[s] \in 1 .. 14
    <2>1. smoking[s] \in 1 .. 14 + 0
      BY <1>2, <1>3
    <2> QED
      BY <2>1
  <1> QED
    BY <1>1, <1>2, <1>4 DEF SmokeTypeOK, Takes

(* What a step of another smoke, or of nobody, must leave of one smoke.    *)
LEMMA OthersKeep ==
  ASSUME SmokeInv, NEW s \in Recovery, UNCHANGED persistent,
         smoking'[s] = smoking[s], verdict'[s] # "pass" \/ verdict[s] = "pass",
         s \in rows' => s \in rows,
         (\A i \in 1 .. Len(log) : log[i] # s) => \A i \in 1 .. Len(log') : log'[i] # s
  PROVE  /\ smoking'[s] >= 7 /\ "postgres" \notin persistent' => s \notin rows'
         /\ smoking'[s] >= 7 /\ "kafka" \notin persistent' => \A i \in 1 .. Len(log') : log'[i] # s
         /\ smoking'[s] >= 8 => "postgres" \in persistent'
         /\ smoking'[s] >= 9 => "kafka" \in persistent'
         /\ verdict'[s] = "pass" => smoking'[s] = Len(RecoveryPlan) + 1
  BY DEF SmokeInv, ForgottenStaysSo

(* A step that changes neither table nor topic, other than one that reads  *)
(* a store back, and is not the last.                                      *)
LEMMA QuietStep ==
  ASSUME SmokeInv, NEW s \in Smokes, NEW name, Takes(s, name),
         UNCHANGED <<persistent, rows, log>>,
         \/ name \notin {"restart", "rows", "log", "done"} /\ UNCHANGED verdict
         \/ name = "rows" /\ s \in rows /\ UNCHANGED verdict
         \/ name = "log" /\ Holds(s) /\ UNCHANGED verdict
         \/ name = "done" /\ verdict' = [verdict EXCEPT ![s] = "pass"]
  PROVE  ForgottenStaysSo'
  <1> SUFFICES ASSUME NEW r \in Recovery
               PROVE  /\ smoking'[r] >= 7 /\ "postgres" \notin persistent' => r \notin rows'
                      /\ smoking'[r] >= 7 /\ "kafka" \notin persistent'
                           => \A i \in 1 .. Len(log') : log'[i] # r
                      /\ smoking'[r] >= 8 => "postgres" \in persistent'
                      /\ smoking'[r] >= 9 => "kafka" \in persistent'
                      /\ verdict'[r] = "pass" => smoking'[r] = Len(RecoveryPlan) + 1
    BY DEF ForgottenStaysSo
  <1> USE DEF SmokeInv
  <1>1. r \in Smokes
    BY DEF Smokes
  <1>2. CASE r # s
    <2>1. smoking'[r] = smoking[r] /\ verdict'[r] = verdict[r]
      BY <1>1, <1>2 DEF Takes, SmokeTypeOK
    <2> QED
      BY <2>1, OthersKeep
  <1>3. CASE r = s
    <2>1. /\ smoking[r] \in 1 .. 14 /\ smoking'[r] = smoking[r] + 1
          /\ name = "restart" <=> smoking[r] = 6
          /\ name = "rows" <=> smoking[r] = 7
          /\ name = "log" <=> smoking[r] = 8
          /\ name = "done" <=> smoking[r] = 14
          /\ Len(RecoveryPlan) = 14
      <3>1. /\ smoking[r] \in 1 .. 14 /\ smoking'[r] = smoking[r] + 1
            /\ PlanOf(r)[smoking[r]] = name /\ smoking[r] \in 1 .. Len(PlanOf(r))
        BY <1>3, RecoveryTakes
      <3> QED
        BY <3>1, RecoverySteps
    <2>2. /\ smoking[r] >= 7 /\ "postgres" \notin persistent => r \notin rows
          /\ smoking[r] >= 7 /\ "kafka" \notin persistent => \A i \in 1 .. Len(log) : log[i] # r
          /\ smoking[r] >= 8 => "postgres" \in persistent
          /\ smoking[r] >= 9 => "kafka" \in persistent
      BY DEF ForgottenStaysSo
    <2>3. Holds(r) => \E i \in 1 .. Len(log) : log[i] = r
      <3>1. log \in Seq(Smokes) /\ offset[r] \in Nat
        BY <1>1, SmokeAssumption DEF SmokeTypeOK
      <3>2. Len(log) \in Nat
        BY <3>1, LenProperties
      <3> QED
        BY <3>1, <3>2 DEF Holds
    <2>4. smoking[r] = 7 => "postgres" \in persistent
      BY <1>3, <2>1, <2>2
    <2>5. smoking[r] = 8 => "kafka" \in persistent
      BY <1>3, <2>1, <2>2, <2>3
    <2>6. verdict'[r] = "pass" => smoking[r] = 14
      <3>1. verdict[r] = "none"
        BY <1>3 DEF Takes
      <3> QED
        BY <1>3, <2>1, <3>1
    <2> QED
      BY <2>1, <2>2, <2>4, <2>5, <2>6
  <1> QED
    BY <1>2, <1>3

(* The steps that write: before the restart of the same smoke.             *)
LEMMA WritingStep ==
  ASSUME SmokeInv, NEW s \in Smokes, InsertRow(s) \/ PublishMessage(s) \/ Restart(s)
  PROVE  ForgottenStaysSo'
  <1> SUFFICES ASSUME NEW r \in Recovery
               PROVE  /\ smoking'[r] >= 7 /\ "postgres" \notin persistent' => r \notin rows'
                      /\ smoking'[r] >= 7 /\ "kafka" \notin persistent'
                           => \A i \in 1 .. Len(log') : log'[i] # r
                      /\ smoking'[r] >= 8 => "postgres" \in persistent'
                      /\ smoking'[r] >= 9 => "kafka" \in persistent'
                      /\ verdict'[r] = "pass" => smoking'[r] = Len(RecoveryPlan) + 1
    BY DEF ForgottenStaysSo
  <1> USE DEF SmokeInv, alerting, own
  <1>1. r \in Smokes /\ log \in Seq(Smokes)
    BY DEF Smokes, SmokeTypeOK
  <1>2. UNCHANGED <<persistent, verdict>>
    BY DEF InsertRow, PublishMessage, Restart
  <1>3. PICK name \in {"insert", "publish", "restart"} : Takes(s, name)
    BY DEF InsertRow, PublishMessage, Restart
  <1>4. \/ log' = log \/ log' = <<>>
        \/ log' = Append(log, s)
    BY DEF InsertRow, PublishMessage, Restart
  <1>5. CASE r # s
    <2>1. smoking'[r] = smoking[r]
      BY <1>1, <1>3, <1>5 DEF Takes, SmokeTypeOK
    <2>2. r \in rows' => r \in rows
      BY <1>5 DEF InsertRow, PublishMessage, Restart
    <2>3. (\A i \in 1 .. Len(log) : log[i] # r) => \A i \in 1 .. Len(log') : log'[i] # r
      <3>1. CASE log' = Append(log, s)
        BY <1>1, <1>5, <3>1, AppendProperties, LenProperties
      <3>2. CASE log' = <<>>
        BY <3>2
      <3> QED
        BY <1>4, <3>1, <3>2
    <2> QED
      BY <1>2, <2>1, <2>2, <2>3, OthersKeep
  <1>6. CASE r = s
    <2>1. /\ smoking[r] \in {2, 4, 6} /\ smoking'[r] = smoking[r] + 1
          /\ smoking[r] = 6 => name = "restart"
      BY <1>3, <1>6, RecoveryTakes, RecoverySteps
    <2>2. verdict'[r] # "pass"
      BY <1>2, <1>3, <1>6 DEF Takes
    <2>3. ASSUME smoking'[r] >= 7
          PROVE  Restart(s)
      <3>1. PlanOf(s)[smoking[s]] = "restart"
        BY <1>3, <1>6, <2>1, <2>3 DEF Takes
      <3> QED
        BY <3>1 DEF InsertRow, PublishMessage, Restart, Takes
    <2>4. Restart(s) => /\ "postgres" \notin persistent => rows' = {}
                        /\ "kafka" \notin persistent => log' = <<>>
      BY DEF Restart
    <2> QED
      BY <1>2, <2>1, <2>2, <2>3, <2>4
  <1> QED
    BY <1>5, <1>6

LEMMA ForgottenStep == SmokeInv /\ [SmokeNext]_smokeVars => ForgottenStaysSo'
  <1> SUFFICES ASSUME SmokeInv, [SmokeNext]_smokeVars
               PROVE  ForgottenStaysSo'
    OBVIOUS
  <1> USE DEF stores, alerting, own
  <1>1. CASE UNCHANGED <<persistent, rows, log, smoking>>
             /\ \A r \in Smokes : verdict'[r] = "pass" => verdict[r] = "pass"
    BY <1>1 DEF SmokeInv, ForgottenStaysSo, Smokes
  <1>2. ASSUME NEW s \in Smokes,
               \/ CheckSetup(s) \/ MeasureLog(s) \/ Consume(s) \/ Observe(s)
               \/ StopExporter(s) \/ SeeAlert(s) \/ StartExporter(s)
               \/ DumpFoundation(s) \/ CreateRestore(s) \/ RestoreDump(s) \/ DropRestore(s)
        PROVE  ForgottenStaysSo'
    <2>1. UNCHANGED <<persistent, rows, log, verdict>>
      BY <1>2 DEF CheckSetup, MeasureLog, Consume, Observe, StopExporter, SeeAlert, StartExporter,
                  DumpFoundation, CreateRestore, RestoreDump, DropRestore
    <2>2. \E name : name \notin {"restart", "rows", "log", "done"} /\ Takes(s, name)
      BY <1>2 DEF CheckSetup, MeasureLog, Consume, Observe, StopExporter, SeeAlert, StartExporter,
                  DumpFoundation, CreateRestore, RestoreDump, DropRestore
    <2> QED
      BY <2>1, <2>2, QuietStep
  <1>3. ASSUME NEW s \in Smokes, VerifyRows(s) \/ VerifyLog(s) \/ Pass(s)
        PROVE  ForgottenStaysSo'
    BY <1>3, QuietStep DEF VerifyRows, VerifyLog, Pass
  <1>4. ASSUME NEW s \in Smokes, FailSmoke(s) \/ Expire(s) \/ KillSmoke(s)
        PROVE  ForgottenStaysSo'
    BY <1>1, <1>4 DEF FailSmoke, Expire, KillSmoke, SmokeInv, SmokeTypeOK
  <1>5. CASE Evaluate \/ UNCHANGED smokeVars
    BY <1>1, <1>5 DEF Evaluate, smokeVars
  <1> QED
    BY <1>2, <1>3, <1>4, <1>5, WritingStep DEF SmokeNext

LEMMA SmokeInvInit == SmokeInit => SmokeInv
  <1> SUFFICES ASSUME SmokeInit
               PROVE  SmokeInv
    OBVIOUS
  <1>1. \A s \in Recovery : s \in Smokes /\ smoking[s] = 1 /\ verdict[s] = "none"
    BY DEF SmokeInit, Smokes
  <1> QED
    BY <1>1, SmokeTypeInit DEF SmokeInit, SmokeInv, ForgottenStaysSo

LEMMA SmokeInvStep == SmokeInv /\ [SmokeNext]_smokeVars => SmokeInv'
  BY SmokeTypeStep, ForgottenStep DEF SmokeInv, SmokeTypeOK

(* Stores, exporter, plans and verdicts of the smokes are well typed, and  *)
(* no smoke goes past the end of its plan.                                 *)
THEOREM SmokeTypeCorrect == SmokeSpec => []SmokeTypeOK
  <1> QED
    BY SmokeTypeInit, SmokeTypeStep, PTL DEF SmokeSpec

(* However many smokes write to the same table and topic, restart them,    *)
(* run out of time or die: a recovery smoke passes only where both stores  *)
(* keep their data over a restart.                                         *)
THEOREM SmokeProvesPersistence == SmokeSpec => []SmokePassProvesPersistence
  <1>1. SmokeInv => SmokePassProvesPersistence
    <2> SUFFICES ASSUME SmokeInv, NEW s \in Recovery, verdict[s] = "pass"
                 PROVE  persistent = Stores
      BY DEF SmokePassProvesPersistence
    <2>1. smoking[s] = Len(RecoveryPlan) + 1 /\ Len(RecoveryPlan) = 14
      BY DEF SmokeInv, ForgottenStaysSo, RecoveryPlan
    <2>2. "postgres" \in persistent /\ "kafka" \in persistent
      BY <2>1 DEF SmokeInv, ForgottenStaysSo
    <2> QED
      BY <2>2 DEF SmokeInv, SmokeTypeOK, Stores
  <1> QED
    BY <1>1, SmokeInvInit, SmokeInvStep, PTL DEF SmokeSpec

-----------------------------------------------------------------------------
(* The acceptance: a pass is about one commit.                             *)

USE AcceptanceAssumption

(* From the step after bootstrap on the runtime root is there.             *)
RootIsThere == step \in 3 .. Len(Plan) \/ step = Passing => rootThere

(* The summary holds both smokes, as passes of commit c that were read     *)
(* from the root.                                                          *)
SummaryProves(c) ==
  /\ {record.mode : record \in summary} = Modes
  /\ \A record \in summary : record.commit = c /\ record.result = "pass"
  /\ summary \subseteq evidence

(* An acceptance that runs knows the commit it is about, and has a summary *)
(* that proves it once it is about to report a pass.                       *)
RunsForACommit ==
  /\ step # 0 => commit \in Commits
  /\ step = Passing => SummaryProves(commit)

AcceptanceInv == AcceptanceTypeOK /\ RootIsThere /\ RunsForACommit /\ PassIsAboutOneCommit
-----------------------------------------------------------------------------
(* Where the named steps stand in the plan.                                *)
LEMMA PlanSteps ==
  /\ Len(Plan) = 14 /\ Reporting = 15 /\ Passing = 16
  /\ At("check") => step = 1
  /\ \A name \in {"bootstrap", "override", "images", "artifacts", "config", "policy",
                  "supply-chain"} : At(name) => step \in 2 .. 8
  /\ At("up") => step = 9
  /\ At("inventory") => step = 10
  /\ At("fast") => step = 11
  /\ At("recovery") => step = 12
  /\ At("stop") => step = 13
  /\ At("summary") => step = 14
  /\ step = 2 => At("bootstrap")
  BY DEF Plan, At, Reporting, Passing

(* A record of a smoke.                                                    *)
LEMMA SmokedType ==
  ASSUME AcceptanceTypeOK, NEW mode \in Modes, NEW result \in Results
  PROVE  Smoked(mode, result) \subseteq Evidence
  BY DEF AcceptanceTypeOK, Smoked, Evidence

LEMMA AcceptanceInvInit == AcceptanceInit => AcceptanceInv
  <1> SUFFICES ASSUME AcceptanceInit
               PROVE  AcceptanceInv
    OBVIOUS
  <1>1. AcceptanceTypeOK
    <2>1. rootThere \in BOOLEAN /\ mayExist \in BOOLEAN
      BY DEF AcceptanceInit
    <2>2. /\ head \in Commits /\ dirty \in BOOLEAN /\ normalUp \in BOOLEAN
          /\ services = "none" /\ evidence = {} /\ summary = {} /\ report = NoVerdict
          /\ step = 0 /\ commit = NoCommit /\ ownSmokes = 0
      BY DEF AcceptanceInit
    <2> QED
      BY <2>1, <2>2, PlanSteps DEF AcceptanceTypeOK
  <1>2. step = 0 /\ report.result # "pass"
    BY DEF AcceptanceInit, NoVerdict
  <1>3. RootIsThere /\ RunsForACommit /\ PassIsAboutOneCommit
    BY <1>2, PlanSteps DEF RootIsThere, RunsForACommit, PassIsAboutOneCommit
  <1> QED
    BY <1>1, <1>3 DEF AcceptanceInv

-----------------------------------------------------------------------------
(* The steps of the others: commits, edits, the normal stack and smokes of *)
(* the operator, which only add evidence.                                  *)
LEMMA OthersStep ==
  ASSUME AcceptanceInv,
         \/ \E c \in Commits : CheckOut(c)
         \/ EditTree \/ NormalStack \/ OwnRestart
         \/ \E mode \in Modes, result \in Results : OwnSmoke(mode, result)
  PROVE  AcceptanceInv'
  <1> USE DEF acceptance, repository
  <1>1. /\ UNCHANGED <<rootThere, summary, report, step, commit, mayExist>>
        /\ evidence \subseteq evidence'
    BY DEF CheckOut, EditTree, NormalStack, OwnRestart, OwnSmoke, Smoked
  <1>2. RootIsThere' /\ RunsForACommit' /\ PassIsAboutOneCommit'
    BY <1>1 DEF AcceptanceInv, RootIsThere, RunsForACommit, SummaryProves, PassIsAboutOneCommit
  <1>3. AcceptanceTypeOK'
    <2>1. ASSUME NEW c \in Commits, CheckOut(c)
          PROVE  AcceptanceTypeOK'
      BY <2>1 DEF CheckOut, AcceptanceInv, AcceptanceTypeOK
    <2>2. CASE EditTree \/ NormalStack \/ OwnRestart
      BY <2>2 DEF EditTree, NormalStack, OwnRestart, AcceptanceInv, AcceptanceTypeOK
    <2>3. ASSUME NEW mode \in Modes, NEW result \in Results, OwnSmoke(mode, result)
          PROVE  AcceptanceTypeOK'
      <3>1. /\ evidence' = Smoked(mode, result)
            /\ ownSmokes' \in 0 .. MaxOwnSmokes
            /\ UNCHANGED <<head, dirty, normalUp, services>>
        BY <2>3 DEF OwnSmoke, AcceptanceInv, AcceptanceTypeOK
      <3> QED
        BY <1>1, <3>1, SmokedType DEF AcceptanceInv, AcceptanceTypeOK
    <2> QED
      BY <2>1, <2>2, <2>3
  <1> QED
    BY <1>2, <1>3 DEF AcceptanceInv

(* While an acceptance runs, and when one begins, no report says pass.     *)
LEMMA NoPassWhileRunning ==
  ASSUME AcceptanceInv, step # 0 \/ ~rootThere
  PROVE  report.result # "pass"
  BY DEF AcceptanceInv, PassIsAboutOneCommit

(* What is left by a step that does not end well is well typed.            *)
LEMMA DonePartlyType ==
  ASSUME AcceptanceTypeOK, DonePartly
  PROVE  rootThere' \in BOOLEAN /\ services' \in {"none", "up", "stopped"} /\ summary' \subseteq Evidence
  <1>1. rootThere' \in BOOLEAN
    BY DEF DonePartly, AcceptanceTypeOK
  <1>2. services' \in {"none", "up", "stopped"}
    BY DEF DonePartly, AcceptanceTypeOK
  <1>3. summary' = summary \/ summary' = evidence
    BY DEF DonePartly
  <1> QED
    BY <1>1, <1>2, <1>3 DEF AcceptanceTypeOK

(* Its own steps up to the summary.                                        *)
LEMMA PlanStep ==
  ASSUME AcceptanceInv,
         \/ Begin \/ CheckTree
         \/ \E name \in {"bootstrap", "override", "images", "artifacts", "config", "policy",
                         "supply-chain"} : Prepare(name)
         \/ Up \/ Inventory \/ Stop \/ FailStep
         \/ \E mode \in Modes, result \in Results : Smoke(mode, result)
  PROVE  AcceptanceInv'
  <1> USE DEF repository
  <1>1. report.result # "pass"
    BY NoPassWhileRunning, PlanSteps
    DEF Begin, CheckTree, Prepare, Up, Inventory, Stop, FailStep, Smoke, At
  <1>2. report' = report
    BY DEF Begin, CheckTree, Prepare, Up, Inventory, Stop, FailStep, Smoke
  <1>3. PassIsAboutOneCommit'
    BY <1>1, <1>2 DEF PassIsAboutOneCommit
  <1>4. CASE Begin
    BY <1>3, <1>4, PlanSteps
    DEF Begin, AcceptanceInv, AcceptanceTypeOK, RootIsThere, RunsForACommit
  <1>5. CASE CheckTree
    BY <1>3, <1>5, PlanSteps
    DEF CheckTree, Succeed, AcceptanceInv, AcceptanceTypeOK, RootIsThere, RunsForACommit
  <1>6. ASSUME NEW name \in {"bootstrap", "override", "images", "artifacts", "config", "policy",
                             "supply-chain"}, Prepare(name)
        PROVE  AcceptanceInv'
    <2>1. /\ step \in 2 .. 8 /\ step' = step + 1 /\ rootThere' = TRUE /\ mayExist' \in BOOLEAN
          /\ UNCHANGED <<head, dirty, normalUp, services, evidence, summary, report, commit,
                         ownSmokes>>
      BY <1>6, PlanSteps DEF Prepare, Succeed
    <2> QED
      BY <1>3, <2>1, PlanSteps
      DEF AcceptanceInv, AcceptanceTypeOK, RootIsThere, RunsForACommit
  <1>7. CASE Up
    BY <1>3, <1>7, PlanSteps
    DEF Up, Succeed, AcceptanceInv, AcceptanceTypeOK, RootIsThere, RunsForACommit
  <1>8. CASE Inventory
    BY <1>3, <1>8, PlanSteps
    DEF Inventory, Succeed, AcceptanceInv, AcceptanceTypeOK, RootIsThere, RunsForACommit
  <1>9. CASE Stop
    <2>1. /\ step = 13 /\ step' = step + 1 /\ services' = "stopped"
          /\ UNCHANGED <<head, dirty, rootThere, normalUp, evidence, summary, report, commit,
                         ownSmokes>>
      BY <1>9, PlanSteps DEF Stop, Succeed
    <2>2. mayExist' \in BOOLEAN
      BY <1>9 DEF Stop
    <2> QED
      BY <1>3, <2>1, <2>2, PlanSteps
      DEF AcceptanceInv, AcceptanceTypeOK, RootIsThere, RunsForACommit
  <1>10. CASE FailStep
    <2>1. /\ step' = 15 /\ step # 0
          /\ UNCHANGED <<head, dirty, normalUp, evidence, report, commit, mayExist, ownSmokes>>
      BY <1>10, PlanSteps DEF FailStep
    <2>2. rootThere' \in BOOLEAN /\ services' \in {"none", "up", "stopped"} /\ summary' \subseteq Evidence
      BY <1>10, DonePartlyType DEF FailStep, AcceptanceInv
    <2> QED
      BY <1>3, <2>1, <2>2, PlanSteps
      DEF AcceptanceInv, AcceptanceTypeOK, RootIsThere, RunsForACommit
  <1>11. ASSUME NEW mode \in Modes, NEW result \in Results, Smoke(mode, result)
         PROVE  AcceptanceInv'
    <2>1. /\ step \in 11 .. 12 /\ step' \in {step + 1, 15}
          /\ evidence' = Smoked(mode, result)
          /\ UNCHANGED <<head, dirty, rootThere, normalUp, services, summary, report, commit,
                         mayExist, ownSmokes>>
      BY <1>11, PlanSteps DEF Smoke, Modes
    <2>2. AcceptanceTypeOK'
      BY <2>1, SmokedType, PlanSteps DEF AcceptanceInv, AcceptanceTypeOK
    <2> QED
      BY <1>3, <2>1, <2>2, PlanSteps DEF AcceptanceInv, RootIsThere, RunsForACommit
  <1> QED
    BY <1>4, <1>5, <1>6, <1>7, <1>8, <1>9, <1>10, <1>11

(* The ends: the summary and the report that says pass, the one that says  *)
(* fail, and death.                                                        *)
LEMMA EndStep ==
  ASSUME AcceptanceInv,
         Summarise \/ ReportPass \/ StopAfterFailure \/ ReportFailure \/ KillAcceptance
  PROVE  AcceptanceInv'
  <1> USE DEF repository
  <1>1. CASE Summarise
    <2>1. /\ step = 14 /\ step' = 16 /\ Accepted /\ summary' = evidence
          /\ UNCHANGED <<head, dirty, rootThere, normalUp, services, evidence, report, commit,
                         mayExist, ownSmokes>>
      BY <1>1, PlanSteps DEF Summarise
    <2>2. commit \in Commits /\ rootThere /\ report.result # "pass"
      BY <2>1, PlanSteps, NoPassWhileRunning DEF AcceptanceInv, RootIsThere, RunsForACommit
    <2>3. AcceptanceTypeOK'
      BY <2>1, PlanSteps DEF AcceptanceInv, AcceptanceTypeOK
    <2>4. {record.mode : record \in evidence} = Modes
      <3>1. \A record \in evidence : record.mode \in Modes
        BY DEF AcceptanceInv, AcceptanceTypeOK, Evidence
      <3> QED
        BY <2>1, <3>1 DEF Accepted
    <2>5. SummaryProves(commit)'
      BY <2>1, <2>4 DEF Accepted, SummaryProves
    <2> QED
      BY <2>1, <2>2, <2>3, <2>5, PlanSteps
      DEF AcceptanceInv, RootIsThere, RunsForACommit, PassIsAboutOneCommit
  <1>2. CASE ReportPass
    <2>1. /\ step = 16 /\ step' = 0 /\ commit' = NoCommit
          /\ report' = [commit |-> commit, result |-> "pass"]
          /\ UNCHANGED <<head, dirty, rootThere, normalUp, services, evidence, summary, mayExist,
                         ownSmokes>>
      BY <1>2, PlanSteps DEF ReportPass
    <2>2. commit \in Commits /\ rootThere /\ SummaryProves(commit)
      BY <2>1, PlanSteps DEF AcceptanceInv, RootIsThere, RunsForACommit
    <2>3. report' \in [commit: Commits, result: Results]
      BY <2>1, <2>2 DEF Results
    <2>4. AcceptanceTypeOK'
      BY <2>1, <2>3, PlanSteps DEF AcceptanceInv, AcceptanceTypeOK
    <2>5. PassIsAboutOneCommit'
      BY <2>1, <2>2 DEF SummaryProves, PassIsAboutOneCommit
    <2> QED
      BY <2>1, <2>4, <2>5, PlanSteps DEF AcceptanceInv, RootIsThere, RunsForACommit
  <1>3. CASE StopAfterFailure
    <2>1. report.result # "pass" /\ step = 15
      BY <1>3, NoPassWhileRunning, PlanSteps DEF StopAfterFailure
    <2>2. /\ services' \in {"none", "up", "stopped"} /\ mayExist' = FALSE
          /\ UNCHANGED <<head, dirty, rootThere, normalUp, evidence, summary, report, step, commit,
                         ownSmokes>>
      BY <1>3 DEF StopAfterFailure, AcceptanceInv, AcceptanceTypeOK
    <2>3. AcceptanceTypeOK'
      BY <2>2 DEF AcceptanceInv, AcceptanceTypeOK
    <2> QED
      BY <2>1, <2>2, <2>3, PlanSteps
      DEF AcceptanceInv, RootIsThere, RunsForACommit, PassIsAboutOneCommit
  <1>4. CASE ReportFailure
    BY <1>4, PlanSteps
    DEF ReportFailure, AcceptanceInv, AcceptanceTypeOK, RootIsThere, RunsForACommit,
        PassIsAboutOneCommit, Results
  <1>5. CASE KillAcceptance
    <2>1. report.result # "pass"
      BY <1>5, NoPassWhileRunning DEF KillAcceptance
    <2>2. /\ step' = 0 /\ commit' = NoCommit
          /\ UNCHANGED <<head, dirty, normalUp, evidence, report, ownSmokes>>
      BY <1>5 DEF KillAcceptance
    <2>3. mayExist' \in BOOLEAN
      BY <1>5 DEF KillAcceptance
    <2>4. rootThere' \in BOOLEAN /\ services' \in {"none", "up", "stopped"} /\ summary' \subseteq Evidence
      BY <1>5, DonePartlyType DEF KillAcceptance, AcceptanceInv
    <2>5. AcceptanceTypeOK'
      BY <2>2, <2>3, <2>4, PlanSteps DEF AcceptanceInv, AcceptanceTypeOK
    <2> QED
      BY <2>1, <2>2, <2>5, PlanSteps
      DEF AcceptanceInv, RootIsThere, RunsForACommit, PassIsAboutOneCommit
  <1> QED
    BY <1>1, <1>2, <1>3, <1>4, <1>5

LEMMA AcceptanceInvStep == AcceptanceInv /\ [AcceptanceNext]_acceptanceVars => AcceptanceInv'
  <1> SUFFICES ASSUME AcceptanceInv, [AcceptanceNext]_acceptanceVars
               PROVE  AcceptanceInv'
    OBVIOUS
  <1>1. CASE UNCHANGED acceptanceVars
    BY <1>1 DEF acceptanceVars, AcceptanceInv, AcceptanceTypeOK, RootIsThere, RunsForACommit,
                SummaryProves, PassIsAboutOneCommit
  <1> QED
    BY <1>1, OthersStep, PlanStep, EndStep DEF AcceptanceNext
-----------------------------------------------------------------------------
(* Repository, root, evidence and report are well typed.                   *)
THEOREM AcceptanceTypeCorrect == AcceptanceSpec => []AcceptanceTypeOK
  <1>1. AcceptanceInv => AcceptanceTypeOK
    BY DEF AcceptanceInv
  <1> QED
    BY <1>1, AcceptanceInvInit, AcceptanceInvStep, PTL DEF AcceptanceSpec

(* Whoever commits, edits, smokes and kills meanwhile, and however often   *)
(* an acceptance is tried: a report that says pass stands beside a summary *)
(* of passes of both smokes at its commit, every one of which was left as  *)
(* evidence in the root, also once a smoke outlasts the acceptance.        *)
THEOREM PassIsOfOneCommit == AcceptanceSpec => []PassIsAboutOneCommit
  <1>1. AcceptanceInv => PassIsAboutOneCommit
    BY DEF AcceptanceInv
  <1> QED
    BY <1>1, AcceptanceInvInit, AcceptanceInvStep, PTL DEF AcceptanceSpec
=============================================================================
