------------------------------ MODULE BatchRun ------------------------------
(***************************************************************************)
(* The batch runner: any number of run.py processes, of the same or of     *)
(* different runs, that read one fixtures directory and persist each of    *)
(* its inputs with exactly one disposition.  A process allocates an        *)
(* execution (execution.py), adapts and persists one input after the other *)
(* (run.py, runner_input.py), and reconciles its durable dispositions with *)
(* the run's manifest before it reports success.                           *)
(*                                                                         *)
(* A claim is one step here: ClaimStore shows that the transaction behind  *)
(* it is as good as indivisible.  The directory may be edited and the kill *)
(* switch thrown or released while processes run; a process, its psql or   *)
(* the database session may die at any point.                              *)
(***************************************************************************)
EXTENDS Naturals, Sequences, FiniteSets, ClaimRules

CONSTANTS
  Procs,      \* invocations of run.py; each runs at most once
  Runs,       \* run identifiers
  RunOf,      \* the --run-id of each invocation
  Events,     \* event identifiers
  Versions,   \* states of the fixtures directory, told apart by their hashes
  Fixtures,   \* Fixtures[v]: the inputs of v, in file name order
  NoVersion   \* the run has no manifest row

(* An input is a JSON object with an event identifier and a content, or,   *)
(* with content None, a file that is not one.                              *)
Inputs == [event: Events, content: Contents \union {None}]

ASSUME RunOfAssumption == RunOf \in [Procs -> Runs]
ASSUME FixturesAssumption == Fixtures \in [Versions -> Seq(Inputs)]
ASSUME NoVersionAssumption == NoVersion \notin Versions

VARIABLES
  manifests,  \* phase2.run_manifests: hash and last_execution_sequence
  events,     \* phase2.events
  rows,       \* phase2.dispositions
  directory,  \* the fixtures directory as it is now
  killed,     \* PHASE2_KILL_SWITCH or the .phase2-stop file
  overrun,    \* events each process accepted since the switch was last thrown
  pc,         \* where each process is
  version,    \* the fixtures each process hashed into its manifest
  sequence,   \* its execution_sequence, 0 before it has one
  next,       \* the ordinal of its next input
  work,       \* the input it is at, and the reason or disposition of it
  ledger      \* its in-memory DispositionLedger

shared == <<manifests, events, rows, directory, killed, overrun>>
local == <<pc, version, sequence, next, work, ledger>>
vars == <<manifests, events, rows, directory, killed, overrun,
          pc, version, sequence, next, work, ledger>>

Statuses == {"accepted", "quarantined", "duplicate"}
Ended == {"succeeded", "failed", "drifted", "stopped", "crashed"}
Running == {"starting", "adapting", "persisting", "recording"}

(* One execution of p's run, and the durable rows it has written.          *)
RowsOf(run, seq) == {r \in rows : r.run = run /\ r.sequence = seq}
OrdinalsOf(run, seq) == {r.ordinal : r \in RowsOf(run, seq)}
SourceCount(v) == Len(Fixtures[v])
EmptyLedger == [received |-> 0, accepted |-> 0, quarantined |-> 0, duplicate |-> 0]
NoWork == [event |-> None, content |-> None, reason |-> "none"]

TypeOK ==
  /\ manifests \in [Runs -> [version: Versions \union {NoVersion}, last: Nat]]
  /\ events \in [Events -> Contents \union {None}]
  /\ rows \subseteq [run: Runs, sequence: Nat \ {0}, ordinal: Nat,
                     event: Events \union {None},
                     disposition: Dispositions \ {"none"}]
  /\ directory \in Versions
  /\ killed \in BOOLEAN
  /\ overrun \in [Procs -> Nat]
  /\ pc \in [Procs -> {"idle"} \union Running \union Ended]
  /\ version \in [Procs -> Versions \union {NoVersion}]
  /\ sequence \in [Procs -> Nat]
  /\ next \in [Procs -> Nat]
  /\ work \in [Procs -> [event: Events \union {None},
                         content: Contents \union {None},
                         reason: Dispositions]]
  /\ ledger \in [Procs -> [{"received"} \union Statuses -> Nat]]

Init ==
  /\ manifests = [r \in Runs |-> [version |-> NoVersion, last |-> 0]]
  /\ events = [e \in Events |-> None]
  /\ rows = {}
  /\ directory \in Versions
  /\ killed = FALSE
  /\ overrun = [p \in Procs |-> 0]
  /\ pc = [p \in Procs |-> "idle"]
  /\ version = [p \in Procs |-> NoVersion]
  /\ sequence = [p \in Procs |-> 0]
  /\ next = [p \in Procs |-> 0]
  /\ work = [p \in Procs |-> NoWork]
  /\ ledger = [p \in Procs |-> EmptyLedger]

Goto(p, place) == pc' = [pc EXCEPT ![p] = place]
-----------------------------------------------------------------------------
(* The process.                                                            *)

(* build_manifest: the fixtures are hashed; an empty directory is an error *)
(* before the database is touched.                                         *)
BuildManifest(p) ==
  /\ pc[p] = "idle"
  /\ version' = [version EXCEPT ![p] = directory]
  /\ Goto(p, IF SourceCount(directory) = 0 THEN "failed" ELSE "starting")
  /\ UNCHANGED <<shared, sequence, next, work, ledger>>

(* Slip: an execution whose run exists already is taken up again.          *)
BeginExecutionReusing(p) ==
  LET run == RunOf[p]
      stored == IF manifests[run].version = NoVersion
                THEN version[p] ELSE manifests[run].version
  IN  /\ pc[p] = "starting"
      /\ IF stored = version[p]
         THEN /\ manifests' = [manifests EXCEPT ![run] =
                                 [version |-> stored, last |-> 1]]
              /\ sequence' = [sequence EXCEPT ![p] = 1]
              /\ Goto(p, "adapting")
         ELSE /\ Goto(p, "drifted")
              /\ UNCHANGED <<manifests, sequence>>
      /\ UNCHANGED <<events, rows, directory, killed, overrun,
                     version, next, work, ledger>>

(* Slip: a drifted manifest is waited for instead of refused.              *)
BeginExecutionWaiting(p) ==
  LET run == RunOf[p]
      seq == manifests[run].last + 1
  IN  /\ pc[p] = "starting"
      /\ manifests[run].version \in {NoVersion, version[p]}
      /\ manifests' = [manifests EXCEPT ![run] =
                         [version |-> version[p], last |-> seq]]
      /\ sequence' = [sequence EXCEPT ![p] = seq]
      /\ Goto(p, "adapting")
      /\ UNCHANGED <<events, rows, directory, killed, overrun,
                     version, next, work, ledger>>

(* begin_execution, one transaction: the manifest row is created or must   *)
(* match, is locked FOR UPDATE, and gives the next execution sequence.     *)
BeginExecution(p) ==
  LET run == RunOf[p]
      stored == IF manifests[run].version = NoVersion
                THEN version[p] ELSE manifests[run].version
      seq == manifests[run].last + 1
  IN  /\ pc[p] = "starting"
      /\ IF stored = version[p]
         THEN /\ manifests' = [manifests EXCEPT ![run] =
                                 [version |-> stored, last |-> seq]]
              /\ sequence' = [sequence EXCEPT ![p] = seq]
              /\ Goto(p, "adapting")
         ELSE /\ Goto(p, "drifted")
              /\ UNCHANGED <<manifests, sequence>>
      /\ UNCHANGED <<events, rows, directory, killed, overrun,
                     version, next, work, ledger>>

(* The file at the next ordinal, read from the directory as it is now: the *)
(* file of one ordinal has the same name in every version.  A file that is *)
(* gone reads like one that is no JSON object; if it was gone before the   *)
(* names were listed, input_paths raises a KeyError, which is a Crash.     *)
CurrentInput(p) ==
  IF next[p] + 1 \in DOMAIN Fixtures[directory]
  THEN Fixtures[directory][next[p] + 1]
  ELSE [event |-> CHOOSE e \in Events : TRUE, content |-> None]

(* Slip: the kill switch is not consulted.                                 *)
ReasonWithoutKillSwitch(input) ==
  CASE input.content = None -> "schema_invalid"
    [] input.content # None ->
         IF Verdict[input.content] = "unvalidated" THEN "schema_invalid" ELSE "none"

(* Why an input is quarantined without a claim, if it is: the file is      *)
(* parsed before the kill switch is consulted, and the envelope validated  *)
(* after it.  schema_invalid stands for payload_invalid and                *)
(* unexpected_input_error too.                                             *)
ReasonFor(input) ==
  CASE input.content = None -> "schema_invalid"
    [] input.content # None /\ killed -> "kill_switch_engaged"
    [] input.content # None /\ ~killed ->
         IF Verdict[input.content] = "unvalidated" THEN "schema_invalid" ELSE "none"

(* Slip: an input that cannot be parsed is skipped without a disposition.  *)
AdaptInputSkipping(p) ==
  LET input == CurrentInput(p)
  IN  /\ pc[p] = "adapting"
      /\ next[p] < SourceCount(version[p])
      /\ IF input.content = None
         THEN /\ next' = [next EXCEPT ![p] = @ + 1]
              /\ UNCHANGED <<pc, work, ledger>>
         ELSE /\ ledger' = [ledger EXCEPT ![p].received = @ + 1]
              /\ work' = [work EXCEPT ![p] =
                   [event |-> input.event, content |-> input.content,
                    reason |-> ReasonFor(input)]]
              /\ Goto(p, "persisting")
              /\ UNCHANGED next
      /\ UNCHANGED <<shared, version, sequence>>

(* adapt_input and the validation in front of the claim.  A quarantine of  *)
(* an input that adapt_input refused names no event.                       *)
AdaptInput(p) ==
  LET input == CurrentInput(p)
      reason == ReasonFor(input)
      isRefused == input.content = None \/ reason = "kill_switch_engaged"
  IN  /\ pc[p] = "adapting"
      /\ next[p] < SourceCount(version[p])
      /\ ledger' = [ledger EXCEPT ![p].received = @ + 1]
      /\ work' = [work EXCEPT ![p] =
           [event |-> IF isRefused THEN None ELSE input.event,
            content |-> input.content,
            reason |-> reason]]
      /\ Goto(p, "persisting")
      /\ UNCHANGED <<shared, version, sequence, next>>

(* The row's key is UNIQUE (run_id, execution_sequence, input_ordinal).    *)
KeyIsTaken(p) == next[p] \in OrdinalsOf(RunOf[p], sequence[p])

(* Slip: the row is written before the claim is known.                     *)
DispositionPending(p) == work[p].reason

(* What the transaction of the input decides: a claim, unless the reason   *)
(* is known already.                                                       *)
DispositionFor(p) ==
  LET w == work[p]
  IN  IF w.reason # "none" THEN w.reason
      ELSE DispositionOf[Classify(events[w.event], w.content)]

(* try_claim or persist_quarantine commits.  A taken key is a database     *)
(* error, which the runner does not catch.                                 *)
PersistInput(p) ==
  LET w == work[p]
      disposition == DispositionFor(p)
  IN  /\ pc[p] = "persisting"
      /\ IF KeyIsTaken(p)
         THEN /\ Goto(p, "crashed")
              /\ UNCHANGED <<events, rows, overrun, work>>
         ELSE /\ rows' = rows \union
                   {[run |-> RunOf[p], sequence |-> sequence[p],
                     ordinal |-> next[p], event |-> w.event,
                     disposition |-> disposition]}
              /\ events' = IF disposition = "accepted"
                           THEN [events EXCEPT ![w.event] = w.content]
                           ELSE events
              /\ overrun' = IF disposition = "accepted" /\ killed
                            THEN [overrun EXCEPT ![p] = @ + 1] ELSE overrun
              /\ work' = [work EXCEPT ![p].reason = disposition]
              /\ Goto(p, "recording")
      /\ UNCHANGED <<manifests, directory, killed, version, sequence, next, ledger>>

(* Slip: the kill switch ends the loop, and the batch as if it were done.  *)
RecordInputSwallowingStop(p) ==
  LET disposition == work[p].reason
  IN  /\ pc[p] = "recording"
      /\ ledger' = [ledger EXCEPT ![p][StatusOf(disposition)] = @ + 1]
      /\ IF disposition = "kill_switch_engaged"
         THEN Goto(p, "succeeded") /\ UNCHANGED next
         ELSE Goto(p, "adapting") /\ next' = [next EXCEPT ![p] = @ + 1]
      /\ UNCHANGED <<shared, version, sequence, work>>

(* The result is counted; the kill switch ends the process, after its      *)
(* quarantine.                                                             *)
RecordInput(p) ==
  LET disposition == work[p].reason
  IN  /\ pc[p] = "recording"
      /\ ledger' = [ledger EXCEPT ![p][StatusOf(disposition)] = @ + 1]
      /\ IF disposition = "kill_switch_engaged"
         THEN Goto(p, "stopped") /\ UNCHANGED next
         ELSE Goto(p, "adapting") /\ next' = [next EXCEPT ![p] = @ + 1]
      /\ UNCHANGED <<shared, version, sequence, work>>

(* Slip: the rows of the whole run are counted, not those of one execution. *)
ReconcilesAcrossExecutions(run, seq) ==
  LET n == SourceCount(manifests[run].version)
      all == {r \in rows : r.run = run}
  IN  /\ manifests[run].version # NoVersion
      /\ Cardinality(all) >= n
      /\ {r.ordinal : r \in all} = {i \in 0 .. n : i < n}

(* reconcile_execution: the manifest's source count against the durable    *)
(* rows of one execution, which no other execution writes.                 *)
Reconciles(run, seq) ==
  LET n == SourceCount(manifests[run].version)
  IN  /\ manifests[run].version # NoVersion
      /\ Cardinality(RowsOf(run, seq)) = n
      /\ OrdinalsOf(run, seq) = {i \in 0 .. n : i < n}

CountsOf(run, seq) ==
  [s \in {"received"} \union Statuses |->
     IF s = "received" THEN SourceCount(manifests[run].version)
     ELSE Cardinality({r \in RowsOf(run, seq) : StatusOf(r.disposition) = s})]

IsBalanced(l) == l.received = l.accepted + l.quarantined + l.duplicate

(* The end of the batch: the ledger balances, the rows reconcile, and both *)
(* tell the same counts.                                                   *)
Finish(p) ==
  /\ pc[p] = "adapting"
  /\ next[p] = SourceCount(version[p])
  /\ Goto(p, IF /\ IsBalanced(ledger[p])
                /\ Reconciles(RunOf[p], sequence[p])
                /\ CountsOf(RunOf[p], sequence[p]) = ledger[p]
             THEN "succeeded" ELSE "failed")
  /\ UNCHANGED <<shared, version, sequence, next, work, ledger>>

(* The process dies, or a database command fails and ends it.              *)
Crash(p) ==
  /\ pc[p] \in Running
  /\ Goto(p, "crashed")
  /\ UNCHANGED <<shared, version, sequence, next, work, ledger>>

Step(p) ==
  \/ BuildManifest(p) \/ BeginExecution(p) \/ AdaptInput(p)
  \/ PersistInput(p) \/ RecordInput(p) \/ Finish(p)
-----------------------------------------------------------------------------
(* The environment.                                                        *)

EditFixtures(v) ==
  /\ v # directory
  /\ directory' = v
  /\ UNCHANGED <<manifests, events, rows, killed, overrun, local>>

ThrowKillSwitch ==
  /\ ~killed
  /\ killed' = TRUE
  /\ overrun' = [p \in Procs |-> 0]
  /\ UNCHANGED <<manifests, events, rows, directory, local>>

ReleaseKillSwitch ==
  /\ killed
  /\ killed' = FALSE
  /\ UNCHANGED <<manifests, events, rows, directory, overrun, local>>

Environment ==
  \/ \E v \in Versions : EditFixtures(v)
  \/ ThrowKillSwitch
  \/ ReleaseKillSwitch

Next == (\E p \in Procs : Step(p) \/ Crash(p)) \/ Environment

Spec == Init /\ [][Next]_vars

(* A process that does not crash keeps running.                            *)
FairSpec == Spec /\ \A p \in Procs : WF_vars(Step(p))
-----------------------------------------------------------------------------
(* Properties.                                                             *)

(* Concurrent processes of one run never share an execution, and all the   *)
(* executions of a run process the same hashed fixtures.                   *)
ExecutionsAreExclusive ==
  \A p, q \in Procs :
    (sequence[p] # 0 /\ sequence[q] # 0 /\ RunOf[p] = RunOf[q]) =>
      /\ sequence[p] = sequence[q] => p = q
      /\ version[p] = version[q]

(* Per-input durability: at every moment, also after a crash, the rows of  *)
(* an execution are its first inputs, without a gap, and the in-memory     *)
(* ledger is at most one input behind them.                                *)
RowsAreAPrefix ==
  \A p \in Procs :
    sequence[p] # 0 =>
      \E n \in {next[p], next[p] + 1} :
        OrdinalsOf(RunOf[p], sequence[p]) = {i \in 0 .. n : i < n}

(* Loss is detectable: while an execution has not reached its last input,  *)
(* and for ever if its process dies there, it does not reconcile, whatever *)
(* other executions of the run have written; once it is through all of its *)
(* inputs it does.                                                         *)
LossIsDetectable ==
  \A p \in Procs :
    sequence[p] # 0 =>
      /\ next[p] + 1 < SourceCount(version[p]) => ~Reconciles(RunOf[p], sequence[p])
      /\ next[p] = SourceCount(version[p]) => Reconciles(RunOf[p], sequence[p])

(* A process that reports success has told the truth: as many rows of each *)
(* status as its summary counts.                                           *)
SuccessIsComplete ==
  \A p \in Procs :
    pc[p] = "succeeded" =>
      /\ ledger[p].received = SourceCount(version[p])
      /\ \A s \in Statuses :
           ledger[p][s] = Cardinality({r \in rows :
             /\ r.run = RunOf[p] /\ r.sequence = sequence[p]
             /\ StatusOf(r.disposition) = s})

(* Once the kill switch is thrown a process accepts at most the one input  *)
(* it had already adapted.                                                 *)
KillSwitchHolds == \A p \in Procs : overrun[p] <= 1

(* Every process that does not crash comes to an end.                      *)
EveryBatchEnds == \A p \in Procs : pc[p] = "starting" ~> pc[p] \in Ended
=============================================================================
