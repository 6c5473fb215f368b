------------------------------ MODULE RunTables ------------------------------
(***************************************************************************)
(* The tables whose rows belong to a run, and the programs that fill, read *)
(* and empty them around the pipeline: the end-to-end check, the latency   *)
(* harness it starts, the NOC projection, the workflow drafts that name an *)
(* event, and the acceptance gate's clean-up.  All of them share one topic *)
(* with other producers and with the consumer that persists it for good.   *)
(*                                                                         *)
(* A claim is one step here, as in BatchRun; every event is valid.         *)
(***************************************************************************)
EXTENDS Naturals, Sequences, FiniteSets

CONSTANTS
  Checks,     \* invocations of e2e.py, each at most once
  Latencies,  \* invocations of latency.py --leg kafka, each at most once
  ParentOf,   \* the check that starts each of them, or None
  Own,        \* the events each of them publishes, in order
  Events,
  Foreign,    \* events other producers publish
  Standing,   \* the run of the consumer that is always there
  Generators, \* invocations of noc.py
  RunOf,      \* the run each of them projects
  MaxTopic,   \* bound on messages of other producers
  None

Harnesses == Checks \union Latencies
Runs == Harnesses \union {Standing}

ASSUME HarnessAssumption ==
  /\ Checks \intersect Latencies = {} /\ Standing \notin Harnesses
  /\ None \notin Runs \union Events
  /\ ParentOf \in [Latencies -> Checks \union {None}]
  /\ Own \in [Harnesses -> Seq(Events)] /\ \A h \in Harnesses : Own[h] # <<>>
  /\ Foreign \subseteq Events /\ RunOf \in [Generators -> Runs]
  /\ MaxTopic \in Nat

VARIABLES
  manifests, \* phase2.run_manifests
  stored,    \* phase2.events: the run of each event, or None
  disposed,  \* phase2.dispositions: <<run, event, status>>
  cards,     \* phase2.noc_cards: <<run, event>>
  drafted,   \* events a row of phase2.workflow_drafts names
  topic,     \* dcim.normalized.events
  standing,  \* the position of the standing consumer
  stage,     \* where each harness is
  position,  \* the position of its consumer
  sent,      \* how many events it has published
  ledger,    \* what its consumer has counted
  broken,    \* whether a stage of it has failed
  table,     \* the tables its clean-up has been through
  lateClaim,      \* the event of a claim its killed consumer leaves to the server
  projecting, \* where each generator is
  desired,   \* the cards it has computed, then those it has read
  files      \* cards.json and index.html: the cards they show

tables == <<manifests, stored, disposed, cards, drafted>>
stream == <<topic, standing>>
harness == <<stage, position, sent, ledger, broken, table, lateClaim>>
noc == <<projecting, desired, files>>
runVars == <<manifests, stored, disposed, cards, drafted, topic, standing, stage,
             position, sent, ledger, broken, table, lateClaim, projecting, desired, files>>

Statuses == {"accepted", "duplicate"}
Stages == {"publishing", "draining", "waiting", "checking", "dashboard", "latency", "deleting"}
Ended == {"passed", "failed", "killed"}
TableOrder == <<"dispositions", "noc_cards", "events", "run_manifests">>

Received(h) == ledger[h].accepted + ledger[h].duplicate

RunTablesTypeOK ==
  /\ manifests \subseteq Runs
  /\ stored \in [Events -> Runs \union {None}]
  /\ disposed \subseteq (Runs \X Events \X Statuses)
  /\ cards \subseteq (Runs \X Events)
  /\ drafted \subseteq Events
  /\ topic \in Seq(Events)
  /\ standing \in 0 .. Len(topic)
  /\ stage \in [Harnesses -> {"idle"} \union Stages \union Ended]
  /\ position \in [Harnesses -> Nat]
  /\ sent \in [Harnesses -> Nat]
  /\ ledger \in [Harnesses -> [Statuses -> Nat]]
  /\ \A h \in Harnesses : Received(h) <= sent[h] /\ sent[h] <= Len(Own[h])
  /\ broken \in [Harnesses -> BOOLEAN]
  /\ table \in [Harnesses -> 0 .. Len(TableOrder)]
  /\ lateClaim \in [Harnesses -> Events \union {None}]
  /\ projecting \in [Generators -> {"idle", "computed", "committed", "read", "half", "done", "failed"}]
  /\ desired \in [Generators -> SUBSET Events]
  /\ files \in [{"json", "html"} -> SUBSET (Runs \X Events)]

RunTablesInit ==
  /\ manifests = {Standing}
  /\ stored = [e \in Events |-> None]
  /\ disposed = {} /\ cards = {} /\ drafted = {}
  /\ topic = <<>> /\ standing = 0
  /\ stage = [h \in Harnesses |-> "idle"]
  /\ position = [h \in Harnesses |-> 0]
  /\ sent = [h \in Harnesses |-> 0]
  /\ ledger = [h \in Harnesses |-> [s \in Statuses |-> 0]]
  /\ broken = [h \in Harnesses |-> FALSE]
  /\ table = [h \in Harnesses |-> 0]
  /\ lateClaim = [h \in Harnesses |-> None]
  /\ projecting = [g \in Generators |-> "idle"]
  /\ desired = [g \in Generators |-> {}]
  /\ files = [f \in {"json", "html"} |-> {}]

Goto(h, place) == stage' = [stage EXCEPT ![h] = place]

(* The counts of a stage are not used after it.                            *)
ForgetCounts(gone) ==
  /\ position' = [h \in Harnesses |-> IF h \in gone THEN 0 ELSE position[h]]
  /\ sent' = [h \in Harnesses |-> IF h \in gone THEN 0 ELSE sent[h]]
  /\ ledger' = [h \in Harnesses |->
                  IF h \in gone THEN [s \in Statuses |-> 0] ELSE ledger[h]]
RowsOf(run) == {e \in Events : stored[e] = run}
Empty(run, name) ==
  CASE name = "dispositions" -> \A d \in disposed : d[1] # run
    [] name = "noc_cards" -> \A c \in cards : c[1] # run
    [] name = "events" -> RowsOf(run) = {}
    [] name = "run_manifests" -> run \notin manifests

(* What a claim of an event does for a run, as DispositionEngine tells it. *)
StatusOf(e) == IF stored[e] = None THEN "accepted" ELSE "duplicate"
Claim(run, e) ==
  /\ run \in manifests
  /\ stored' = [stored EXCEPT ![e] = IF @ = None THEN run ELSE @]
  /\ disposed' = disposed \union {<<run, e, StatusOf(e)>>}
-----------------------------------------------------------------------------
(* The others.                                                             *)

ForeignPublish(e) ==
  /\ e \in Foreign
  /\ Cardinality({i \in DOMAIN topic : topic[i] \in Foreign}) < MaxTopic
  /\ topic' = Append(topic, e)
  /\ UNCHANGED <<tables, standing, harness, noc>>

(* Slip: the position is that of the message after the next one.           *)
StandingConsumeAhead ==
  /\ standing < Len(topic)
  /\ Claim(Standing, topic[standing + 1])
  /\ standing' = standing + 2
  /\ UNCHANGED <<manifests, cards, drafted, topic, harness, noc>>

StandingConsume ==
  /\ standing < Len(topic)
  /\ Claim(Standing, topic[standing + 1])
  /\ standing' = standing + 1
  /\ UNCHANGED <<manifests, cards, drafted, topic, harness, noc>>

(* A draft about an event: the foreign key wants the event.                *)
DraftAbout(e) ==
  /\ stored[e] # None
  /\ drafted' = drafted \union {e}
  /\ UNCHANGED <<manifests, stored, disposed, cards, stream, harness, noc>>

(* clean_acceptance_state of the gate: one TRUNCATE of all the tables.  The *)
(* standing consumer's next claim begins its run again.                    *)
TruncateAll ==
  /\ manifests' = {Standing}
  /\ stored' = [e \in Events |-> None]
  /\ disposed' = {} /\ cards' = {} /\ drafted' = {}
  /\ UNCHANGED <<stream, harness, noc>>
-----------------------------------------------------------------------------
(* The harnesses.                                                          *)

(* capture_end_offsets: the topic as it ends now.                          *)
Capture(h) ==
  /\ stage[h] = "idle"
  /\ h \in Latencies => IF ParentOf[h] = None THEN TRUE ELSE stage[ParentOf[h]] = "latency"
  /\ position' = [position EXCEPT ![h] = Len(topic)]
  /\ Goto(h, "publishing")
  /\ UNCHANGED <<tables, stream, sent, ledger, broken, table, lateClaim, noc>>

(* run.py publishes every fixture, the latency harness one event at a      *)
(* time; then their consumer begins an execution of the run.               *)
Publish(h) ==
  LET isLast == h \in Latencies \/ sent[h] + 1 = Len(Own[h])
  IN  /\ stage[h] = "publishing" /\ sent[h] < Len(Own[h])
      /\ topic' = Append(topic, Own[h][sent[h] + 1])
      /\ sent' = [sent EXCEPT ![h] = @ + 1]
      /\ manifests' = IF isLast THEN manifests \union {h} ELSE manifests
      /\ IF isLast THEN Goto(h, "draining") ELSE UNCHANGED stage
      /\ UNCHANGED <<stored, disposed, cards, drafted, standing, position,
                     ledger, broken, table, lateClaim, noc>>

(* run_consumer reads as many messages as were published, from the         *)
(* captured offsets on, whoever published them.                            *)
Drain(h) ==
  LET e == topic[position[h] + 1]
  IN  /\ stage[h] = "draining" /\ Received(h) < sent[h] /\ position[h] < Len(topic)
      /\ Claim(h, e)
      /\ ledger' = [ledger EXCEPT ![h][StatusOf(e)] = @ + 1]
      /\ position' = [position EXCEPT ![h] = @ + 1]
      /\ UNCHANGED <<manifests, cards, drafted, stream, stage, sent, broken, table, lateClaim, noc>>

(* The consumer has its messages, or has seen none for a while.            *)
EndDrain(h) ==
  /\ stage[h] = "draining"
  /\ Goto(h, IF h \in Checks THEN "checking" ELSE "waiting")
  /\ UNCHANGED <<tables, stream, position, sent, ledger, broken, table, lateClaim, noc>>

(* _wait_until_persisted has no limit.  What it waits for may have been    *)
(* persisted by another run, or by an earlier one: the next sample starts  *)
(* with new offsets after the cards are materialised.                      *)
SeePersisted(h) ==
  /\ stage[h] = "waiting" /\ stored[Own[h][sent[h]]] # None
  /\ IF sent[h] < Len(Own[h])
     THEN Goto(h, "publishing") /\ position' = [position EXCEPT ![h] = Len(topic)]
          /\ UNCHANGED <<sent, ledger>>
     ELSE Goto(h, "deleting") /\ ForgetCounts({h})
  /\ cards' = {c \in cards : c[1] # h} \union ({h} \X RowsOf(h))
  /\ UNCHANGED <<manifests, stored, disposed, drafted, stream, broken, table, lateClaim, noc>>

(* zero_loss: the counts of the producer, the consumer and the database.   *)
ZeroLoss(h) ==
  LET agree == /\ Received(h) = Len(Own[h])
               /\ Cardinality(RowsOf(h)) = Len(Own[h])
               /\ \A s \in Statuses : Cardinality({d \in disposed : d[1] = h /\ d[3] = s})
                                      = ledger[h][s]
  IN  /\ stage[h] = "checking"
      /\ Goto(h, IF agree THEN "dashboard" ELSE "deleting")
      /\ broken' = [broken EXCEPT ![h] = ~agree]
      /\ ForgetCounts({h})
      /\ UNCHANGED <<tables, stream, table, lateClaim, noc>>

(* dashboard: the cards of the run are materialised and must show every P1 *)
(* event it published; what else the stage seeds and compares may fail.    *)
Dashboard(h) ==
  /\ stage[h] = "dashboard"
  /\ IF h \in manifests
     THEN cards' = {c \in cards : c[1] # h} \union ({h} \X RowsOf(h)) ELSE UNCHANGED cards
  /\ \E isBroken \in BOOLEAN :
       /\ broken' = [broken EXCEPT ![h] = isBroken]
       /\ Goto(h, IF isBroken THEN "deleting" ELSE "latency")
  /\ UNCHANGED <<manifests, stored, disposed, drafted, stream, position, sent, ledger,
                 table, lateClaim, noc>>

Child(h, l) == l \in Latencies /\ ParentOf[l] = h

(* latency: the harness has ended, with its p95 below the limit or not.    *)
EndLatency(h) ==
  /\ stage[h] = "latency"
  /\ \A l \in Latencies : Child(h, l) => stage[l] \in Ended
  /\ broken' = [broken EXCEPT ![h] = \E l \in Latencies : Child(h, l) /\ stage[l] # "passed"]
  /\ Goto(h, "deleting")
  /\ UNCHANGED <<tables, stream, position, sent, ledger, table, lateClaim, noc>>

(* Slip: only the consumer has a time limit, not the latency harness.      *)
TimeOutConsumer(h) ==
  /\ h \in Checks /\ stage[h] \in {"publishing", "draining"}
  /\ broken' = [broken EXCEPT ![h] = TRUE]
  /\ Goto(h, "deleting")
  /\ ForgetCounts({h})
  /\ UNCHANGED <<tables, stream, table, lateClaim, noc>>

(* The time limit of a stage's subprocess: the consumer, whose claim may   *)
(* be with the server, or the whole latency harness is killed.             *)
TimeOutStage(h) ==
  /\ h \in Checks /\ stage[h] \in {"publishing", "draining", "latency"}
  /\ broken' = [broken EXCEPT ![h] = TRUE]
  /\ stage' = [i \in Harnesses |->
       CASE i = h -> "deleting"
         [] Child(h, i) /\ stage[h] = "latency" /\ stage[i] \notin Ended -> "killed"
         [] OTHER -> stage[i]]
  /\ ForgetCounts({h} \union {i \in Harnesses : Child(h, i) /\ stage[h] = "latency"})
  /\ lateClaim' \in {lateClaim} \union
       (IF stage[h] = "draining" /\ position[h] < Len(topic) /\ Received(h) < sent[h]
        THEN {[lateClaim EXCEPT ![h] = topic[position[h] + 1]]} ELSE {})
  /\ UNCHANGED <<tables, stream, table, noc>>

LateClaim(h) ==
  /\ lateClaim[h] # None
  /\ \/ Claim(h, lateClaim[h])
     \/ h \notin manifests /\ UNCHANGED <<stored, disposed>>
  /\ lateClaim' = [lateClaim EXCEPT ![h] = None]
  /\ UNCHANGED <<manifests, cards, drafted, stream, stage, position, sent, ledger,
                 broken, table, noc>>

Keeps(run, name) ==
  CASE name = "events" -> drafted \intersect RowsOf(run) # {}
    [] name = "run_manifests" ->
         ~(Empty(run, "dispositions") /\ Empty(run, "noc_cards") /\ Empty(run, "events"))
    [] OTHER -> FALSE

DeleteRows(run, name) ==
  /\ disposed' = IF name = "dispositions" THEN {d \in disposed : d[1] # run} ELSE disposed
  /\ cards' = IF name = "noc_cards" THEN {c \in cards : c[1] # run} ELSE cards
  /\ stored' = IF name = "events"
               THEN [e \in Events |-> IF stored[e] = run THEN None ELSE stored[e]] ELSE stored
  /\ manifests' = IF name = "run_manifests" THEN manifests \ {run} ELSE manifests

(* Slip: the tables have no foreign keys to the manifest.                  *)
DeleteTableUnchecked(h) ==
  /\ stage[h] = "deleting" /\ table[h] < Len(TableOrder)
  /\ DeleteRows(h, TableOrder[table[h] + 1])
  /\ table' = [table EXCEPT ![h] = @ + 1]
  /\ UNCHANGED <<drafted, stream, stage, position, sent, ledger, broken, lateClaim, noc>>

(* cleanup_run, one DELETE and commit per table: a row that is still       *)
(* referred to makes it fail, and the end-to-end check stops there, while  *)
(* the latency harness goes on to the next table.                          *)
DeleteTable(h) ==
  LET name == TableOrder[table[h] + 1]
  IN  /\ stage[h] = "deleting" /\ table[h] < Len(TableOrder)
      /\ IF Keeps(h, name)
         THEN /\ broken' = [broken EXCEPT ![h] = TRUE]
              /\ table' = [table EXCEPT ![h] = IF h \in Checks THEN Len(TableOrder) ELSE @ + 1]
              /\ UNCHANGED <<manifests, stored, disposed, cards>>
         ELSE /\ DeleteRows(h, name)
              /\ table' = [table EXCEPT ![h] = @ + 1]
              /\ UNCHANGED broken
      /\ UNCHANGED <<drafted, stream, stage, position, sent, ledger, lateClaim, noc>>

EndHarness(h) ==
  /\ stage[h] = "deleting" /\ table[h] = Len(TableOrder)
  /\ Goto(h, IF broken[h] THEN "failed" ELSE "passed")
  /\ broken' = [broken EXCEPT ![h] = FALSE]
  /\ table' = [table EXCEPT ![h] = 0]
  /\ UNCHANGED <<tables, stream, position, sent, ledger, lateClaim, noc>>
-----------------------------------------------------------------------------
(* The NOC projection.                                                     *)

ProjectTo(g, place) == projecting' = [projecting EXCEPT ![g] = place]

(* The desired cards, from one snapshot of the events of the run.          *)
ComputeCards(g) ==
  /\ projecting[g] = "idle"
  /\ desired' = [desired EXCEPT ![g] = IF RunOf[g] \in manifests THEN RowsOf(RunOf[g]) ELSE {}]
  /\ ProjectTo(g, "computed")
  /\ UNCHANGED <<tables, stream, harness, files>>

(* The upsert, the deletion of stale cards and the commit: a card wants    *)
(* the manifest of its run.                                                *)
CommitCards(g) ==
  /\ projecting[g] = "computed"
  /\ IF desired[g] # {} /\ RunOf[g] \notin manifests
     THEN ProjectTo(g, "failed") /\ UNCHANGED cards
     ELSE /\ cards' = {c \in cards : c[1] # RunOf[g]} \union ({RunOf[g]} \X desired[g])
          /\ ProjectTo(g, "committed")
  /\ desired' = [desired EXCEPT ![g] = {}]
  /\ UNCHANGED <<manifests, stored, disposed, drafted, stream, harness, files>>

(* render: the cards are read again, then written to two files.            *)
ReadCards(g) ==
  /\ projecting[g] = "committed"
  /\ desired' = [desired EXCEPT ![g] = {c[2] : c \in {c \in cards : c[1] = RunOf[g]}}]
  /\ ProjectTo(g, "read")
  /\ UNCHANGED <<tables, stream, harness, files>>

WriteFile(g) ==
  LET f == IF projecting[g] = "read" THEN "json" ELSE "html"
  IN  /\ projecting[g] \in {"read", "half"}
      /\ files' = [files EXCEPT ![f] = {RunOf[g]} \X desired[g]]
      /\ ProjectTo(g, IF f = "json" THEN "half" ELSE "done")
      /\ desired' = [desired EXCEPT ![g] = IF f = "json" THEN @ ELSE {}]
      /\ UNCHANGED <<tables, stream, harness>>

DieProjecting(g) ==
  /\ projecting[g] \in {"computed", "committed", "read", "half"}
  /\ ProjectTo(g, "failed")
  /\ desired' = [desired EXCEPT ![g] = {}]
  /\ UNCHANGED <<tables, stream, harness, files>>
-----------------------------------------------------------------------------
HarnessStep(h) ==
  \/ Capture(h) \/ Publish(h) \/ Drain(h) \/ EndDrain(h) \/ SeePersisted(h) \/ ZeroLoss(h)
  \/ Dashboard(h) \/ EndLatency(h) \/ DeleteTable(h) \/ EndHarness(h)

RunTablesNext ==
  \/ \E h \in Harnesses : HarnessStep(h) \/ TimeOutStage(h) \/ LateClaim(h)
  \/ \E g \in Generators :
       ComputeCards(g) \/ CommitCards(g) \/ ReadCards(g) \/ WriteFile(g) \/ DieProjecting(g)
  \/ \E e \in Events : ForeignPublish(e) \/ DraftAbout(e)
  \/ StandingConsume
  \/ TruncateAll

(* A harness goes on while it can; the limit of a stage is enforced by     *)
(* subprocess.run.  Nobody else has to do anything.                        *)
RunTablesFairness ==
  \A h \in Harnesses : WF_runVars(HarnessStep(h)) /\ WF_runVars(TimeOutStage(h))

RunTablesSpec == RunTablesInit /\ [][RunTablesNext]_runVars /\ RunTablesFairness
-----------------------------------------------------------------------------
(* A harness that passed has left nothing behind, whoever projected its    *)
(* cards, drafted, or finished a claim of its killed consumer while it     *)
(* deleted table by table; and nobody adds a row for its run later.        *)
PassedIsGone ==
  \A h \in Harnesses : stage[h] = "passed" =>
    \A n \in DOMAIN TableOrder : Empty(h, TableOrder[n])

(* The end-to-end check ends, though the latency harness it starts may     *)
(* wait for an event that nobody will ever persist.                        *)
CheckEnds ==
  \A h \in Checks : stage[h] # "idle" ~> stage[h] \in Ended
=============================================================================
