------------------------------ MODULE Receipts ------------------------------
(***************************************************************************)
(* The runtime material of the foundation and the receipt that attests to  *)
(* it: foundation_bootstrap.py creates secrets and runtime.env, Kafka      *)
(* formats its volume with the cluster id of runtime.env, and              *)
(* phase2_evidence_receipt.py reads them all in a child process, compares  *)
(* the subject's git state before and after, and publishes a receipt that  *)
(* is never replaced.  The power may fail once.                            *)
(***************************************************************************)
EXTENDS Naturals

CONSTANTS
  Bootstraps,  \* invocations of foundation_bootstrap.py
  SecretCount, \* how many secrets there are
  Launches,    \* invocations of the receipt generator, all for one output path
  Former,      \* who formatted a Kafka volume that is there from before
  Absent,
  MaxChanges   \* bound on what happens to Kafka, to the plan and to the subject

ASSUME ReceiptsAssumption ==
  /\ Former \notin Bootstraps /\ Absent \notin Bootstraps \union {Former}
  /\ SecretCount \in Nat \ {0} /\ MaxChanges \in Nat

(* The files in the order bootstrap writes them; the last is runtime.env.  *)
Env == SecretCount + 1
Files == 1 .. Env

VARIABLES
  material,   \* the content of each file
  installing, \* the file each bootstrap is at, and whether it is open
  kafkaUp,
  volume,     \* whose cluster id the Kafka volume has
  approved,   \* whether the plan on disk is the approved one
  subject,    \* the state of the subject repository, as a number of changes
  powerLost,
  changes,    \* how often Kafka, its volume, the plan or the subject was touched
  launch,     \* where each generator is
  observed,   \* what it has captured and read
  receiptFile,
  durableFile \* the receipt a power failure leaves

receiptVars == <<material, installing, kafkaUp, volume, approved, subject, powerLost,
                 changes, launch, observed, receiptFile, durableFile>>
runtime == <<material, installing, kafkaUp, volume>>
around == <<approved, subject, powerLost, changes>>
receipts == <<receiptFile, durableFile>>

NoFile == [by |-> Absent, whole |-> FALSE]
Contents == [by: Bootstraps, whole: BOOLEAN] \union {NoFile}
Unobserved == [before |-> 0, env |-> Absent, secrets |-> {}, verdict |-> "none", binding |-> {}]
Verdict == {"none", "LOCAL_PASS", "NO-GO"}
Observations == [before: 0 .. MaxChanges, env: Bootstraps \union {Absent}, secrets: SUBSET (1 .. SecretCount),
                 verdict: Verdict, binding: SUBSET (Files \X Contents)]
NoReceipt == [launch |-> Absent, verdict |-> "none", binding |-> {}]
ReceiptTypes == [launch: Launches, verdict: Verdict, binding: SUBSET (Files \X Contents)] \union {NoReceipt}

ReceiptsTypeOK ==
  /\ material \in [Files -> Contents]
  /\ installing \in [Bootstraps -> [at: 0 .. Env + 1, open: BOOLEAN]]
  /\ \A b \in Bootstraps : installing[b].open => installing[b].at \in Files
  /\ kafkaUp \in BOOLEAN /\ approved \in BOOLEAN /\ powerLost \in BOOLEAN
  /\ volume \in Bootstraps \union {Former, Absent}
  /\ changes \in 0 .. MaxChanges /\ subject \in 0 .. changes
  /\ launch \in [Launches -> {"idle", "validating", "child", "secrets", "docker", "drift", "writing",
                              "linking", "syncing", "acknowledged", "failed"}]
  /\ observed \in [Launches -> Observations]
  /\ receiptFile \in ReceiptTypes /\ durableFile \in ReceiptTypes

ReceiptsInit ==
  /\ material = [f \in Files |-> NoFile]
  /\ installing = [b \in Bootstraps |-> [at |-> 0, open |-> FALSE]]
  /\ kafkaUp = FALSE /\ volume \in {Former, Absent}
  /\ approved = TRUE /\ subject = 0 /\ powerLost = FALSE /\ changes = 0
  /\ launch = [l \in Launches |-> "idle"]
  /\ observed = [l \in Launches |-> Unobserved]
  /\ receiptFile = NoReceipt /\ durableFile = NoReceipt
-----------------------------------------------------------------------------
(* bootstrap: refuse when any target exists, then write them in order.     *)
StartBootstrap(b) ==
  /\ installing[b].at = 0
  /\ \A f \in Files : material[f] = NoFile
  /\ installing' = [installing EXCEPT ![b].at = 1]
  /\ UNCHANGED <<material, kafkaUp, volume, around, launch, observed, receipts>>

(* Slip: the file is opened without O_EXCL.                                *)
OpenFileShared(b) ==
  LET f == installing[b].at IN
  /\ f \in Files /\ ~installing[b].open
  /\ material' = [material EXCEPT ![f] = [by |-> b, whole |-> FALSE]]
  /\ installing' = [installing EXCEPT ![b].open = TRUE]
  /\ UNCHANGED <<kafkaUp, volume, around, launch, observed, receipts>>

(* write_new opens each file exclusively; whoever comes second ends there. *)
OpenFile(b) ==
  LET f == installing[b].at IN
  /\ f \in Files /\ ~installing[b].open
  /\ IF material[f] = NoFile
     THEN /\ material' = [material EXCEPT ![f] = [by |-> b, whole |-> FALSE]]
          /\ installing' = [installing EXCEPT ![b].open = TRUE]
     ELSE /\ installing' = [installing EXCEPT ![b].at = Env + 1]
          /\ UNCHANGED material
  /\ UNCHANGED <<kafkaUp, volume, around, launch, observed, receipts>>

CloseFile(b) ==
  /\ installing[b].open
  /\ material' = [material EXCEPT ![installing[b].at] = [by |-> b, whole |-> TRUE]]
  /\ installing' = [installing EXCEPT ![b] = [at |-> @.at + 1, open |-> FALSE]]
  /\ UNCHANGED <<kafkaUp, volume, around, launch, observed, receipts>>

DieBootstrapping(b) ==
  /\ installing[b].at \in Files
  /\ installing' = [installing EXCEPT ![b] = [at |-> Env + 1, open |-> FALSE]]
  /\ UNCHANGED <<material, kafkaUp, volume, around, launch, observed, receipts>>

(* The cluster id of runtime.env is used when there is a volume to format. *)
KafkaUp ==
  /\ ~kafkaUp /\ material[Env].whole
  /\ kafkaUp' = TRUE
  /\ volume' = IF volume = Absent THEN material[Env].by ELSE volume
  /\ UNCHANGED <<material, installing, around, launch, observed, receipts>>

Touches == changes < MaxChanges /\ changes' = changes + 1

KafkaDown ==
  /\ Touches
  /\ kafkaUp /\ kafkaUp' = FALSE
  /\ UNCHANGED <<material, installing, volume, approved, subject, powerLost, launch, observed, receipts>>

(* foundation_reset.py: docker refuses to remove a volume in use.          *)
Reset ==
  /\ Touches
  /\ ~kafkaUp /\ volume # Absent
  /\ volume' = Absent
  /\ UNCHANGED <<material, installing, kafkaUp, approved, subject, powerLost, launch, observed, receipts>>

EditPlan ==
  /\ Touches
  /\ approved' = ~approved
  /\ UNCHANGED <<runtime, subject, powerLost, launch, observed, receipts>>

Drift ==
  /\ Touches
  /\ subject' = subject + 1
  /\ UNCHANGED <<runtime, approved, powerLost, launch, observed, receipts>>
-----------------------------------------------------------------------------
Step(l, from, to) ==
  /\ launch[l] = from
  /\ launch' = [launch EXCEPT ![l] = to]

(* The generator decides against the subject, and goes on to publish so.   *)
Refuse(l, from) ==
  /\ Step(l, from, "drift")
  /\ observed' = [observed EXCEPT ![l] = [Unobserved EXCEPT !.before = observed[l].before,
                                                            !.verdict = "NO-GO"]]
  /\ UNCHANGED <<runtime, around, receipts>>

CaptureBefore(l) ==
  /\ Step(l, "idle", "validating")
  /\ observed' = [observed EXCEPT ![l].before = subject]
  /\ UNCHANGED <<runtime, around, receipts>>

(* The parent validates the plan, then spawns the child, which does too.   *)
ValidatePlan(l) ==
  /\ approved /\ Step(l, "validating", "child")
  /\ UNCHANGED <<runtime, around, observed, receipts>>

(* The child reads runtime.env, and goes by the cluster id in it.          *)
ReadEnvironment(l) ==
  /\ approved /\ material[Env].whole
  /\ Step(l, "child", "secrets")
  /\ observed' = [observed EXCEPT ![l].env = material[Env].by, ![l].binding = {<<Env, material[Env]>>}]
  /\ UNCHANGED <<runtime, around, receipts>>

(* An empty file is as good as a whole one to its reader.                  *)
Readable(f) == material[f] # NoFile

(* It lists the directory of secrets, then reads one after the other.      *)
ReadSecret(l, f) ==
  /\ launch[l] = "secrets"
  /\ f = 1 => \A g \in 1 .. SecretCount : Readable(g)
  /\ observed[l].secrets = 1 .. f - 1
  /\ Readable(f)
  /\ observed' = [observed EXCEPT ![l].secrets = @ \union {f},
                                  ![l].binding = @ \union {<<f, material[f]>>}]
  /\ Step(l, "secrets", IF f = SecretCount THEN "docker" ELSE "secrets")
  /\ UNCHANGED <<runtime, around, receipts>>

(* The volume Kafka runs on must have the cluster id of runtime.env.       *)
BindDocker(l) ==
  /\ kafkaUp /\ volume = observed[l].env
  /\ Step(l, "docker", "drift")
  /\ observed' = [observed EXCEPT ![l].verdict = "LOCAL_PASS"]
  /\ UNCHANGED <<runtime, around, receipts>>

(* Anything else it finds, a timeout or a killed child is a NO-GO.         *)
ChildFails(l) == \E from \in {"validating", "child", "secrets", "docker"} : Refuse(l, from)

(* A subject that changed in between overrides the verdict.                *)
CaptureAfter(l) ==
  /\ Step(l, "drift", "writing")
  /\ observed' = [observed EXCEPT ![l].verdict = IF subject = observed[l].before THEN @ ELSE "NO-GO"]
  /\ UNCHANGED <<runtime, around, receipts>>

WriteTemporary(l) ==
  /\ Step(l, "writing", "linking")
  /\ UNCHANGED <<runtime, around, observed, receipts>>

ReceiptOf(l) == [launch |-> l, verdict |-> observed[l].verdict, binding |-> observed[l].binding]

(* Slip: the receipt is renamed over whatever is at the output path.       *)
RenameReceipt(l) ==
  /\ Step(l, "linking", "syncing")
  /\ receiptFile' = ReceiptOf(l)
  /\ UNCHANGED <<runtime, around, observed, durableFile>>

(* The link is made only where there is none; the second launch fails.     *)
LinkReceipt(l) ==
  /\ receiptFile = NoReceipt
  /\ Step(l, "linking", "syncing")
  /\ receiptFile' = ReceiptOf(l)
  /\ UNCHANGED <<runtime, around, observed, durableFile>>

FindReceipt(l) ==
  /\ receiptFile # NoReceipt
  /\ Step(l, "linking", "failed")
  /\ observed' = [observed EXCEPT ![l] = Unobserved]
  /\ UNCHANGED <<runtime, around, receipts>>

SyncDirectory(l) ==
  /\ Step(l, "syncing", "acknowledged")
  /\ durableFile' = receiptFile
  /\ UNCHANGED <<runtime, around, observed, receiptFile>>

DieLaunched(l) ==
  /\ launch[l] \notin {"acknowledged", "failed"}
  /\ launch' = [launch EXCEPT ![l] = "failed"]
  /\ observed' = [observed EXCEPT ![l] = Unobserved]
  /\ UNCHANGED <<runtime, around, receipts>>

(* The power fails: no process survives, what was never synchronised may   *)
(* be lost or left empty, and the receipt is the durable one or not.       *)
LosePower ==
  /\ ~powerLost /\ powerLost' = TRUE
  /\ \E emptied \in SUBSET {f \in Files : material[f] # NoFile} :
       material' = [f \in Files |-> IF f \in emptied THEN [material[f] EXCEPT !.whole = FALSE] ELSE material[f]]
  /\ installing' = [b \in Bootstraps |-> IF installing[b].at \in Files
                                         THEN [at |-> Env + 1, open |-> FALSE] ELSE installing[b]]
  /\ launch' = [l \in Launches |-> IF launch[l] \in {"idle", "acknowledged"} THEN launch[l] ELSE "failed"]
  /\ receiptFile' \in {receiptFile, durableFile}
  /\ durableFile' = receiptFile'
  /\ observed' = [l \in Launches |-> IF launch'[l] = "failed" THEN Unobserved ELSE observed[l]]
  /\ kafkaUp' = FALSE
  /\ UNCHANGED <<volume, approved, subject, changes>>

ReceiptsNext ==
  \/ \E b \in Bootstraps : StartBootstrap(b) \/ OpenFile(b) \/ CloseFile(b) \/ DieBootstrapping(b)
  \/ KafkaUp \/ KafkaDown \/ Reset \/ EditPlan \/ Drift \/ LosePower
  \/ \E l \in Launches :
       \/ CaptureBefore(l) \/ ValidatePlan(l) \/ ReadEnvironment(l) \/ BindDocker(l) \/ ChildFails(l)
       \/ \E f \in 1 .. SecretCount : ReadSecret(l, f)
       \/ CaptureAfter(l) \/ WriteTemporary(l) \/ LinkReceipt(l) \/ FindReceipt(l) \/ SyncDirectory(l) \/ DieLaunched(l)

ReceiptsSpec == ReceiptsInit /\ [][ReceiptsNext]_receiptVars
-----------------------------------------------------------------------------
(* A verdict of LOCAL_PASS rests on every secret and on runtime.env, all   *)
(* of one bootstrap and, unless the power failed, whole; the volume it     *)
(* compared had that bootstrap's cluster id.                               *)
PassBindsOneRuntime ==
  \A l \in Launches :
    observed[l].verdict = "LOCAL_PASS" =>
      \E b \in Bootstraps :
        /\ observed[l].env = b
        /\ {file[1] : file \in observed[l].binding} = Files
        /\ \A file \in observed[l].binding : file[2].by = b /\ (file[2].whole \/ powerLost)

(* A receipt whose publication was acknowledged is at the output path for  *)
(* good: no later launch replaces it and no loss of power removes it.      *)
ReceiptIsKept ==
  \A l \in Launches : launch[l] = "acknowledged" => receiptFile = ReceiptOf(l)
=============================================================================
