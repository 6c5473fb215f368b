# A verification of the DCIM core platform

These modules model the Phase 2 event pipeline of the platform (how one input
becomes exactly one durable disposition, whoever else is at work and whatever
fails), the services that write to the same tables, and the operator's tools
around both: migrations, recovery, end-to-end checks, image locks, receipts,
smokes and the clean acceptance. TLC checks the models on small instances;
TLAPS proves every invariant of the passing runs, and both refinements, for
every value of the constants.

`PROJECT.json` maps every definition to its source lines and lists the runs,
mutants, hazards, findings and theorems.

## 1. Inventory

| Component (source) | State | Operations | Interacts with | What is hard |
|---|---|---|---|---|
| **Claim store** (`scripts/phase2/persist.py`, `validate.py`, `contracts/python/dcim_contracts`) | `phase2.events`, `phase2.dispositions`; an advisory lock per text of an identifier | `try_claim`, `persist_quarantine`, `DispositionEngine.handle` | called once per input by the batch runner, the stream consumer and the latency harness | concurrent claims on one event, also in two spellings of its UUID; crash between its three inserts; answer lost after COMMIT |
| **Identity rows** (`identity_sql.py`) | `phase2.assets`, `cis`, `aliases` | `prepare_identity`, `render_identity_dml` | part of the claim's transaction | claims of different events share assets and CIs: waiting, deadlock, rows in doubt |
| **Executions** (`execution.py`) | `phase2.run_manifests` | `begin_execution`, `reconcile_execution` | batch runner, stream consumer, `reconcile.py` | two processes of one run; a gap of one execution hidden by another |
| **Batch runner** (`run.py execute`, `runner_input.py`, `manifest.py`, `ledger.py`) | in-memory ledger, next ordinal | one loop over the fixtures | claim store, executions, fixtures directory, kill switch | crash in mid-batch, retry, edited fixtures, kill switch against an input in flight |
| **Stream publisher** (`run.py execute_stream`, `kafka_producer.py`) | in-memory ledger | publishes envelopes or dead letters | Kafka | delivery errors, partial publication |
| **Stream consumer** (`stream.py`) | position, ledger, offsets of its summary | subscribe, count, replay a window, start at offsets | Kafka, claim store, DLQ | disposition and offset commit are two steps; lost commits, rebalances, redelivery, poison messages |
| **Identity resolution** (`identity.py`) | none | strong names, alias ranking, merge | identity rows, services | ties and validity windows |
| **Reconciliation command** (`reconcile.py`) | none | verify one execution, one run, all runs | executions | executions that never complete |
| **NOC projection** (`noc.py`) | `phase2.noc_cards`, two files | materialise, render | claim store's tables, API gateway | concurrent materialisations; two files written one by one |
| **Latency harness** (`latency.py`) | offsets file | inject, persist, wait, clean up | consumer, NOC | unbounded wait, consumer at captured offsets |
| **Migrations** (`migrate.py`, `migrations/`) | `phase2.schema_migrations`, the schema | apply, roll back, verify | everything | check-then-act by two processes |
| **Recovery check** (`recovery.py`) | a lock file, a temporary database | dump, restore, compare | database | live writers, death before clean-up |
| **Services** (`services/asset-repository`, `cmdb`, `workflow`) | `assets`, `cis`, `aliases`, `ci_relationships`, `workflow_drafts` | create, read, simulate | database, gateway | create is read, insert, insert aliases, each on its own; two decisions on one draft |
| **Gateway, analytics** (`services/api`, `services/analytics`) | none | proxy, read | services, database | none kept |
| **End-to-end harness** (`phase3/e2e*.py`, `phase2/check.py`) | a checkpoint, the rows of its run | produce, drain, zero loss, latency, dashboard, clean up | every table of a run, the topic, NOC, latency harness | clean-up table by table under live writers; a consumer killed in mid-claim |
| **Image lock** (`foundation_images.py`) | `images.env`, the lock, reports | qualify, reuse, revalidate, lock | docker, scanners, the owner's manifests | reuse of stale records; two files written one by one |
| **Receipts and bootstrap** (`foundation_bootstrap.py`, `foundation_reset.py`, `phase2_evidence_receipt.py`) | secrets, `runtime.env`, receipts | create once, reset, attest | Kafka's volume, git | two bootstraps or publications at once; loss of power |
| **Foundation acceptance** (`foundation_acceptance.py`) | a runtime root, a summary, a report | a plan of 14 steps | git, docker, smokes | the repository changes during a long run; smokes that outlast it |
| **Foundation smokes** (`foundation_smoke.py`) | rows, messages, an alert, restore databases | fast, recovery | PostgreSQL, Kafka, Prometheus | deadline between write, restart and read back; other smokes |
| **Connectors, capacity report, policy, sanitising and safety scripts** | none | functions of their input | | |

What makes each part correct, in one line:

* claim store: the first accepted content of an identifier is stored once, with
  its disposition and identity rows or not at all, and every other attempt is
  classified against it, or fails if it spells the identifier otherwise;
* identity rows: a committed claim has its rows, no CI moves, no deadlock;
* executions and batch runner: rows of an execution are a prefix of its inputs,
  a loss is detectable, and success means completeness;
* publisher: success means each input is on the topic or on the DLQ;
* consumer: the group's offset never passes a message without a durable row,
  redelivery and replay change nothing, and the group makes progress;
* services: an identifier is bound once, a created object is whole, one decision
  per draft, an identity query agrees with all of its evidence;
* migrations and recovery: the registry of migrations tells the truth; a check
  vouches only for what it dumped itself;
* end-to-end and latency harness: what passed has left nothing behind, and the
  check ends;
* image lock, receipts, acceptance, smokes: an artifact that says pass was
  earned by the images, the runtime, the commit or the stores it is about.

## 2. Modules

```
ClaimRules                first-wins classification, pure
  |-- AtomicClaim         abstract: a claim is one step, but for respellings
  |     ^ implemented by
  |-- ClaimStore          the SQL transaction        <- ClaimStoreProofs, MCClaimStore
  |-- BatchRun            runner and executions      <- BatchRunProofs, MCBatchRun
  |-- StreamPipeline      publisher, Kafka, consumer <- StreamPipelineProofs, MCStreamPipeline
IdentityRows              rows shared by claims      <- IdentityRowsProofs, MCIdentityRows

OneBinding                abstract: an identifier is bound once
  ^ implemented by
Registry                  asset repository, CMDB     |
Drafts                    workflow drafts            | MCServices <- ServicesProofs
Resolution                identity queries           |

RunTables                 rows of a run: harnesses, NOC   |
Migrations                the migration runner            | <- ToolsProofs
Recovery                  the recovery check              |
ImageLock                 foundation_images <- MCImageLock    |
Receipts                  bootstrap, reset, receipts          | <- FoundationProofs
Acceptance                foundation_acceptance               |
SmokeRuns                 foundation_smoke                    |
MCOperations              the seven side by side          <- OperationsProofs
```

The layering is the argument: `ClaimStore` shows that a claim may be taken as
one step, `BatchRun`, `StreamPipeline` and `RunTables` take it as one, and
`IdentityRows` opens the one part of the transaction that the event's lock does
not protect. First-wins itself is therefore checked in `ClaimStore` only. The
step those three take is that of claims which spell an identifier in one way: a
claim that finds its event stored under another spelling may fail, which is a
failed psql command, and so the `Crash` of its caller there.

**Contents and verdicts.** A content is a model value that stands for a
canonical envelope, equal exactly when the SHA-256 is. `Verdict` says what the
envelope validation and `prepare_identity` make of it: `unvalidated`, `omitted`
(no identity to write), `prepared` or `rejected`. Quarantine rows are named by
their reason. `schema_invalid` also stands for `payload_invalid` and
`unexpected_input_error`, which take the same path.

**ClaimStore.** One `Attempts` element per call. `Begin`, `Lock`,
`StartStatement`, `RunStatement`, `BindIdentity`, `Commit`, `Acknowledge` are the
points of `try_claim` between which another session may run. The statement's
snapshot and its insert are two steps because PostgreSQL runs READ COMMITTED:
the snapshot can be older than the unique index. `PersistQuarantine` is the other
transaction, `Crash` the loss of the process, of psql or of the session at any point.

The advisory lock is on the text of the identifier (`KeyOf`, `persist.py:86`), the
row on its UUID, and the envelope lets every spelling pass (`envelope.py:161`).
Two claims of one text exclude each other; two spellings of one UUID take two
locks and meet at the unique index, in `RunStatement`. The later one then has a
snapshot without the row it ran into, an empty decision, and no disposition: it
ends in `undecided`. `AtomicClaim` has a step for that, `Overlook`, which it
allows only against an event stored under another spelling. Without the lock,
the same would happen to claims of one spelling: that is the mutant of
`ImplementsAtomicClaim`.

**BatchRun.** `BuildManifest`, `BeginExecution`, then per input `AdaptInput`
(parse, kill switch, validation), `PersistInput` (the transaction),
`RecordInput` (the ledger), and `Finish`. The environment edits the directory
and throws or releases the kill switch; `Crash` may happen anywhere and also stands for a
failed database command, which the runner does not catch.

**StreamPipeline.** One topic partition as a log, a DLQ as a set, and per group
a committed offset and an owner. A publisher slot and consumer slots are invoked
again and again, each consumer with a fresh execution. Consumer steps are
`Poll`, `Handle` (the row), `DeadLetter`, `RequestCommit`, and then `CommitLands`
or `CommitLost`, because `consumer.commit` returns before the broker answers.
`HandleRefused` is the message that ends the consumer before any row: one without a
payload (`stream.py:232`), or one whose payload the database cannot store.
`Assign` is the coordinator; taking the partition from a live member is a fault.
Everything Kafka does is marked external in the map: it is what the consumer relies on.

**IdentityRows.** The inserts into `assets`, `cis`, `aliases` of claims that were
decided new, with PostgreSQL's rule that an insert waits for an uncommitted row
of its key.

**Registry.** A create is four database commands that commit one by one:
`RetrieveRow` reads the row, `Compare` its aliases and compares, `Insert` and
`InsertAliases` write. `Lose` is a failed command or a lost answer, `Restart` a
service that stops under its handlers, `Retry` the caller; `OpenClaim`,
`CommitClaim` and `AbortClaim` are a pipeline transaction over the same tables,
whose uncommitted row makes an insert wait. Confidences come back rounded to two
decimals, so a stored alias may differ from the one that was sent; the CMDB reads
them back in percents, which its own alias model refuses, so the repeat of a CI
with aliases is an error. The refinement mapping reads `bound` off the table and
`answer` off the handlers.

**Drafts.** `ReadDraft` and `UpdateOpenDraft` are the two commands of a
simulated decision; `LoseDecision` drops the handler or its answer, and
`RetryDecision` is the caller trying again.

**Resolution.** `ResolveStrong`, `ResolveAlias` and `ResolveIdentity` as
operators; the actions only add evidence one item at a time, so that every pair
of short lists is a state. `AnswerFollowsEvidence` compares the answer with a
definition that knows neither order nor pairwise tests: whether there is one
thing that all the evidence could be about. The eligible claims and the leaders
are sets of positions, because only their ranks decide and not the order in
which equals come out of the sort.

**RunTables.** The tables whose rows carry a run, the topic, the standing
consumer and other producers. The end-to-end check and the latency harness are
one program with two sets of stages, from `Capture` to `EndHarness`.
`TimeOutStage` kills a stage and what it started, `TimeOutConsumer` a consumer,
and `LateClaim` is the database command a killed one had sent. `DeleteTable`
removes table by table in the code's order. `noc.py` is `ComputeCards`,
`CommitCards`, `ReadCards` and a `WriteFile` per file. `TruncateAll` is the
acceptance gate's.

**Migrations.** Each process has a plan of commands. `Look` is the read of the
registry, `ApplyMigration` and `RollbackMigration` the transaction afterwards,
which fails on what it finds missing or already there.

**Recovery.** The file lock, `ReadBefore` table by table, `Dump`, `Create`,
`Restore`, `ReadRestored`, `ReadAfter`, `Compare`, `CleanUp`. A command whose
client gave up stays in `late` and may still run, also when the lock has passed
to another check.

**ImageLock.** `Make` loads the two source files; then each component goes
through `ReuseRecord` (or `MissImage`, when docker has lost the image of the
record), or `BuildTwice`, `Scan` and `Review`; `WriteEnvironment` and
`WriteLock` are two steps. `ReuseLock` is the other path, on which the whole
lock still holds. The owner edits the files, advisories appear and images are
pruned in between.

**Receipts.** A bootstrap creates and fills file by file (`OpenFile`,
`CloseFile`), Kafka formats its volume with the cluster id it is given, `Reset`
removes the volume, and a receipt launch goes from `CaptureBefore` through the
reads of its child process to `LinkReceipt` and `SyncDirectory`. `LosePower`
takes what was not synced.

**Acceptance.** The plan of 14 steps against a repository that changes. A
`Smoke` records the commit that is checked out when it ends; `Summarise` accepts
the evidence and keeps what it accepted in the summary, `ReportPass` and
`ReportFailure` are the `finally` block, and `DonePartly` is what a step that
fails, times out or is killed may have done. `OwnSmoke` is evidence of the
operator, which only asks for containers, running or stopped: it may come while
the acceptance runs and after its report. `OwnRestart` is a recovery smoke that
restarts what the acceptance has stopped.

**SmokeRuns.** Both smokes as plans over one table, one topic and one exporter.
`Restart` keeps what `persistent` stores hold and nothing else; `Expire` is the
deadline, after which no command may be started.

`MCServices` and `MCOperations` put modules that share no state into one run:
`service` and `focus` name the module a behaviour is about, and the others rest.
Programs that do share state are in one module: those on the tables of a run in
`RunTables`, those on assets and CIs in `Registry`.

The definitions marked `Slip` are plausible mistakes in the code; each one is the
replacement of a definition that violates one property.

## 3. Runs

| Run | What it shows | Bounds, and why they are enough |
|---|---|---|
| `claim_store` | first-wins, durability, one unit, refinement, no call waits for ever | 3 attempts (winner, loser and one more whose lock is handed over), 2 identifiers in 2 spellings with colliding lock keys, one content of each verdict |
| `batch_run` | executions are exclusive, a loss is detectable, success is complete, kill switch holds, batches end | 2 processes of one run, 3 directory states: two of different length with the same event in different contents, and one that is no envelope |
| `stream` | no message is skipped, invalid ones reach the DLQ first, replay is safe, summaries are durable | 2 messages, which may lack a payload, 2 consumers (one may subscribe, replay or count), 1 fault: enough for a redelivery to either of them and for a replay of part of the log |
| `stream_progress` | every message before the first that ends its consumers is disposed of | 3 messages, also without a payload, 2 subscribing consumers, 1 fault |
| `identity_rows` | a CI names a stored asset, no deadlock, claims commit | 4 claims: two equal, one sharing their CI, one sharing its asset with that one, so that waiting chains of two links occur |
| `stream_poison` | violation, see below | 3 messages, 1 consumer, no fault |
| `stream_offsets` | violation, see below | 2 messages, no fault |
| `services` | a created object stays whole, an identifier is bound once, drafts are decided once, answers agree with their evidence | 5 callers (two equal, one with another payload, one for a CI of the asset, one without the token) and 1 pipeline claim on the same identity; 2 drafts and 3 deciders who disagree; 3 pieces of evidence and 3 instants, so that windows touch and a conflict can follow a match |
| `operations` | what each tool vouches for is so, and the end-to-end check ends | 1 check with its latency run, 1 materialisation, 1 event two producers publish; 2 migrators; 2 recovery checks over 2 tables with 1 write each; 1 image, 2 recipes (one whose builds differ), 2 edits; 2 bootstraps, 2 launches, 1 change, 1 loss of power; 2 commits and 1 smoke of the operator's own; 1 fast and 1 recovery smoke |
| `identity_conflict` | violation, see below | as `identity_rows` |
| `create_retry` | violation, see below | as `services`, with one caller |
| `image_rebind` | violation, see below | as `operations`, the image lock alone |

`MaxLog` bounds the topic and `MaxFaults` counts crashes, lost commits, forced
rebalances and premature idle timeouts. Processes of `BatchRun` and attempts of
`ClaimStore` run once, which bounds them. Deadlock is checked in `claim_store`,
whose only final states are those where each attempt has ended; the other
systems really stop (every batch ended, the topic full and nobody invoked, each
harness done, the owner out of edits).

**Fairness.** Weak fairness of each session's, process's or consumer's own
steps: nothing in the code holds a live process up except the database and the
broker, which answer. Crashes, edits, faults and publications are not fair. A
fair `Lock` needs no more than weak fairness for each attempt, as finitely many
attempts compete for a key. `stream_progress` also assumes that
a consumer is invoked again when it has ended; the faults are bounded, as no
progress can be promised under endless crashes. `CheckEnds` assumes that a
harness that can go on does, and that the time limit of a stage strikes
(`subprocess.run` with a timeout): nobody else, not even the latency run it
waits for, has to do anything.

## 4. Disagreements with the documents

* **`stream_poison`.** A message whose identity is rejected gets its quarantine
  row, then `IdentityQuarantined` leaves `run_consumer` before the offset is
  committed. The next consumer reads it again. `kafka-topics-phase2.md` promises
  that "every received input must reach a durable disposition"; the messages
  behind that one never do. `DisposedUpToPoison` is what does hold; it counts a
  message without a payload, or with one the database refuses, as such a message
  too.
* **`stream_offsets`.** `latency.py` starts a consumer at captured end offsets in
  the default group, whose committed offset it moves past messages that are not
  persisted.
* **`identity_conflict`.** ADR-0020 quarantines a strong-identifier conflict;
  `ON CONFLICT (ci_id) DO NOTHING` accepts an event whose CI is stored for
  another asset.
* **`create_retry`.** A create commits its row before its aliases. If the
  second command fails the row stays, and a retry of the same request finds it
  different and answers 409, where the plan and the tests promise 200 for the
  same payload. The run has a single caller, so the conflict is with its own
  row. `CreatedIsWhole` and `ImplementsOneBinding` are what does hold.
* **`image_rebind`.** A record of an earlier lock is reused without the license
  review, and the new lock names the dispositions of today beside it;
  `FOUNDATION.md` says that a lock binds the license disposition.
  `LockedImagesPassedTheGate` holds all the same: build and scan are bound.

## 5. Proofs

`ClaimStoreProofs` proves, for any number of attempts, identifiers, contents,
spellings and lock keys, colliding or not: type correctness, mutual exclusion, that
a decision is empty only against an event stored under another spelling, the
refinement of `AtomicClaim`, first-wins, and the other three invariants of its
run, so that every safety property checked there is proved. `MutualExclusion` has
two parts: the lock keeps apart the claims of one text, the index the uncommitted
rows of one UUID. `NoEmptyDecision` assumes `OneSpelling`, that all contents spell
an identifier in one way; nothing in the code sees to that, and it is not an
assumption of the module. The property about empty decisions is not inductive.
Its `IInv` adds that

1. an attempt inside its transaction owns the lock of its key (`OwnersHold`), so
   two of one text exclude each other;
2. an attempt inside its transaction has no durable row yet
   (`UncommittedIsUndisposed`), so that COMMIT is a legal abstract step;
3. what a statement's snapshot shows is what is stored, or it shows nothing and
   the stored event is spelled otherwise (`ReadsAreCurrent`), since nobody else
   with the same text can commit meanwhile;
4. what it decided is still right when it commits, or it is a rejected identity
   that missed such an event (`ClaimsAreCurrent`), since the index keeps every
   other insert of the UUID out (`IndexExcludes`).

Each COMMIT then maps to `AtomicClaim!Claim` or `Overlook`, an empty decision to
`Overlook`, every other step to a stutter or a quarantine.
First-wins, the agreement of the losers and the unity of event and identity rows
follow from the abstract step alone. That an answer is durable needs one more invariant,
`AnswersFollowCommits`: a committed attempt has the disposition of its claim,
and only a committed one is answered.

`IdentityRowsProofs` proves that committed claims have their rows, that CIs
name stored assets, that they are never rebound, and that waiting chains are
short. The run checks the second and the last; the others are proved only. The
invariant says that an uncommitted row has one writer, that the row is not
stored already, and that an insert that has been passed is backed by a stored
row or by the claim's own. Short chains imply that there is no deadlock: a
cycle would be an endless chain.

`BatchRunProofs` proves the type invariant and the five safety properties of
`batch_run` for any number of processes, runs and directory states. `IInv` adds
that sequences come from the manifest (`SequencesAreAllocated`); that the rows
of an execution are those of the inputs before the loop's position, or one more
(`RowsFollowTheLoop`), which holds for a crashed process too; and that a
process that has accepted an event since the switch was thrown claims no other
(`SwitchIsSeen`). `PlacesAreKept` and `WorkIsReady` tie what a process holds to
its place in the loop. `LossIsDetectable` follows: reconciliation compares a
count with rows that have no gap.

`StreamPipelineProofs` proves the six properties of `stream` for any number of
publishers, consumers, messages and faults. Who owns the partition turns out not
to matter: `OffsetsCoverDone` says that every offset that is committed, in
flight or about to be requested covers only messages that are done (their row is
stored and, if they are invalid, they are on the DLQ), and every takeover, lost
commit and redelivery preserves it. It needs `GroupsAreApart`, that no replay,
count or captured start runs in the persisting group: a condition on the
constants, which stands in the two theorems about offsets and is exactly what
the latency harness breaks (`stream_offsets`). `RowsAgree`, `LedgersFollowRows`
and `SentIsPublished` carry the other properties.

`ServicesProofs` is about three modules and their composition.

* `Registry`: the types, `CreatedIsWhole` and the refinement of `OneBinding`.
  `HandlersKnowTheRow` says that what a handler has read of a row stays true,
  and that whoever inserts aliases made the row; `InsertsAreNew`, that an
  uncommitted row of the pipeline is its own and not stored yet. Each step is
  then a `Bind`, a `BindOthers`, an `Answers` or a stutter.
* `Drafts`: `OneDecision` for any number of deciders, from what a decider has
  read (`ReadsAreOfDrafts`) and the condition of the UPDATE.
* `Resolution`: `AnswerFollowsEvidence`, for evidence of any length. The state
  only says that the evidence is typed, so the argument is about the operators.
  `ConflictMeans` says without counting what a conflict is; `OneThingAgrees` and
  `AgreementIsOneThing` show that there is none exactly when some thing has all
  of the names; `BestCovers`, that an identity with the most names then has all
  of them; `LeadersAreBest`, that the leaders are the claims nothing outranks;
  `PrefixConflicts`, that more evidence takes no conflict back. That a maximum
  exists is `GreatestPair`, which rests on `Least`: the library's induction over
  an operator cannot be used, but that < is well founded on the naturals can.

`ToolsProofs` is about the tools that work on the database.

* `Migrations`: `RecordedIsThere` is inductive with the types: one transaction
  per migration is enough.
* `Recovery`: `RecoveryComparesItsOwn`. The file lock is held by the one check
  that is under way (`HolderIsUnderWay`). Commands that arrive late are of
  checks that have given up, and no restore is late once a check has dropped the
  database it found, because a database in use cannot be dropped
  (`LateIsOfTheGone`). So from the dump on, the dump file and the temporary
  database are the check's own (`WorksOnItsOwn`).
* `RunTables`: `PassedIsGone`, for every plan of the harnesses. The foreign keys
  are an invariant (`RowsHaveManifests`), and clean-up deletes the manifest
  last, so that one which got to the end without an error has removed it
  (`ManifestGoesLast`). Without its manifest a run has no rows, and no claim that
  arrives late can add one.

`FoundationProofs` is about the programs that install and accept the foundation.

* `ImageLock`: `LockedImagesPassedTheGate`. Whatever may still reach the lock
  passed (`RecordsPassed`): candidates, records and `images.env`. The image at
  hand is half-way there, and the report a review reads is of its own scan
  (`BuiltIsOnItsWay`); nothing is written before each component has a record
  (`WorkIsLoaded`).
* `Receipts`: `PassBindsOneRuntime` and `ReceiptIsKept`. A bootstrap never
  replaces a file it did not make, so where there is a `runtime.env` all files
  are of its maker (`FilesAreOfOne`), and so is what a generator has bound so far
  (`ReadsAreOfOne`). A linked receipt is there, and after its directory is
  synchronised no loss of power removes it (`LinkedIsThere`).
* `SmokeRuns`: `SmokePassProvesPersistence`. A smoke writes before it restarts
  the services, so what a store then forgets stays forgotten, and the step that
  reads it back cannot be passed (`ForgottenStaysSo`).
* `Acceptance`: `PassIsAboutOneCommit`. An acceptance that is about to report a
  pass has a summary that proves its commit (`SummaryProves`, in
  `RunsForACommit`); evidence is only ever added, so the operator's smokes take
  nothing from it, and a root that is there is never used again
  (`RootIsThere`).

`ServicesCompose` and `OperationsCompose` carry all of this over to the runs
that put modules side by side: a step of one module leaves the variables of the
others alone, so a behaviour of the composition is one of each module. The
fairness that `CheckEnds` needs is not part of that.

Assumptions: only the named ASSUMEs of the modules (functions are total,
distinguished values are distinct) and, where the theorem says so,
`GroupsAreApart` or `OneSpelling`.

Only model-checked: liveness (`EveryCallEnds`, `EveryBatchEnds`,
`EveryClaimCommits`, `DisposedUpToPoison`, `CheckEnds`), which the prover does
not reach. The theorems about `IdentityRows` are about its safety; that claims
do not wait for each other in a circle follows there, that they commit does not.

## 6. Not modelled

Abstracted in the models: envelope fields and connector mappings (a verdict),
SQL text, psql's transport, timestamps, several partitions (they share nothing
but the claim store, which orders by event), Kafka retention, more than one
topic per consumer; the normalisation of names in `Resolution` (a spelling); the
parsing of the evidence and the environment of the images in `Receipts`; the
scanners of `ImageLock` (their verdict). `PROJECT.json` lists every component
with its status.

Parts without a module, and why:

* `reconcile.py` prints the check of one execution, which `BatchRun` has, for each
  of them; the capacity report, gateway, analytics and the Phase 3 smoke compute
  or forward and keep nothing.
* The database client and the Kafka set-up are transport: a failure is a crash
  of the caller or an error answer in every model, and the topics exist.
* The policy, sanitising, supply-chain and safety scripts map the text of files
  to a list of complaints. They have no state, and what they say is wording.
* Merges and splits of identities are operators the pipeline does not call.
* The direct leg of the latency harness is a sequence of claims.

Limits of what is shown. That every claim is decided (`EveryClaimIsDecided`) is
no property of the code: two spellings of one UUID can leave the later claim
without a disposition, as said under `ClaimStore`, although `disposition.py:20`
calls the classification atomic. `OnlyRespelledIsUndecided` is what does hold,
and the modules above the claim take it as a failed command.
`PassIsAboutOneCommit` is about commits: the worktree is compared with its
commit once, at the start, so no property says that the files of the later
steps were that commit's. It is about the summary, not about all evidence: a
smoke that ends after the summary, or the `evidence` command, may leave a
failure or another commit beside a report that says pass. A `DROP DATABASE` of
a recovery check that gave up is not among the commands that `Recovery` lets
arrive late. `zero_loss` compares counts, and so does the model. The NOC's two
files may be of different projections (`noc.py:170`, `noc.py:249`), and a
hostname alias may be stored twice (`identity_sql.py:173`): the models reach
both, no document promises otherwise, and no property says so.
