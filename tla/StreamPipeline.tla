--------------------------- MODULE StreamPipeline ---------------------------
(***************************************************************************)
(* Stream mode: publishers (run.py execute_stream) put the envelopes of    *)
(* their fixtures on a topic of one partition, and bounded consumers       *)
(* (stream.py) persist one disposition per message before they commit its  *)
(* offset.  Kafka is modelled by what the consumer relies on: an append-   *)
(* only log, one committed offset and one partition owner per group, and   *)
(* asynchronous commits that may be lost.                                  *)
(*                                                                         *)
(* Both programs are invoked again and again; an invocation keeps the name *)
(* of its slot.  A consumer allocates a new execution each time, so the    *)
(* rows it can collide with are those of its current invocation: they are  *)
(* kept in written, and the rows of all invocations, by message, in        *)
(* disposed.  A claim is one step, as in BatchRun.                         *)
(***************************************************************************)
EXTENDS Integers, Sequences, FiniteSets, ClaimRules

CONSTANTS
  Publishers, Consumers,  \* slots of invocations
  ModesOf,     \* the command lines each consumer slot may be given
  GroupId,     \* GroupId[m]: the --group-id of a consumer in mode m
  Groups,      \* consumer groups, DefaultGroup among them
  DefaultGroup, ReplayGroup,
  NoOwner,     \* nobody is assigned the partition
  Run, NoRun,  \* the source_run_id header of a published message, or its lack
  Events,      \* event identifiers
  Inputs,      \* Inputs[q]: the fixtures of publisher q, in file name order
  Foreign,     \* messages that another producer may put on the topic
  Unstorable,  \* contents no statement can carry: jsonb has no \u0000
  MaxLog,      \* bound: messages on the topic
  MaxFaults    \* bound: crashes, lost commits, forced rebalances, idle-outs

Modes == {"subscribe", "count", "replay", "start"}
Messages == [event: Events, content: Contents \union {None}, run: {Run, NoRun}]
FixtureInputs == [event: Events, content: Contents \union {None}]

ASSUME BoundsAssumption == MaxLog \in Nat /\ MaxFaults \in Nat
ASSUME SlotsAssumption ==
  /\ Publishers \intersect Consumers = {}
  /\ NoOwner \notin Consumers
  /\ ModesOf \in [Consumers -> SUBSET Modes]
ASSUME GroupsAssumption ==
  /\ {DefaultGroup, ReplayGroup} \subseteq Groups
  /\ GroupId \in [Modes -> Groups]
ASSUME InputsAssumption ==
  /\ Inputs \in [Publishers -> Seq(FixtureInputs)]
  /\ Foreign \subseteq Messages
  /\ Unstorable \subseteq Contents
  /\ Run # NoRun

Offsets == 0 .. MaxLog - 1
Statuses == {"accepted", "quarantined", "duplicate"}
Ended == {"finished", "raised", "crashed"}
Consuming == {"polling", "handling", "deadlettering", "committing", "failing"}

VARIABLES
  log,        \* dcim.normalized.events; the message at offset o is log[o + 1]
  dlq,        \* dcim.dlq.synthetic: what was put there, by whom and why
  committed,  \* the next offset of each group
  owner,      \* the group member the partition is assigned to
  events,     \* phase2.events
  disposed,   \* disposed[o]: the dispositions written for the message at o
  faults,     \* faults so far
  pc,         \* where each publisher and consumer is
  sent,       \* inputs the publisher is done with
  mode,       \* the mode of each consumer's invocation
  position,   \* the next offset it fetches
  last,       \* the last offset of its replay window
  current,    \* the offset of the message in its hands
  written,    \* the rows of its execution, by input_ordinal = offset
  ledger,     \* its in-memory DispositionLedger
  requested   \* the commit it has in flight, 0 if none

kafka == <<log, dlq, committed, owner>>
store == <<events, disposed>>
consumer == <<mode, position, last, current, written, ledger, requested>>
vars == <<kafka, store, faults, pc, sent, consumer>>

EmptyLedger == [received |-> 0, accepted |-> 0, quarantined |-> 0, duplicate |-> 0]
NothingWritten == [o \in Offsets |-> "none"]

TypeOK ==
  /\ log \in Seq(Messages) /\ Len(log) <= MaxLog
  /\ dlq \subseteq [by: Publishers \union {"consumer"}, at: Nat,
                    reason: Dispositions]
  /\ committed \in [Groups -> 0 .. MaxLog]
  /\ owner \in [Groups -> Consumers \union {NoOwner}]
  /\ events \in [Events -> Contents \union {None}]
  /\ disposed \in [Offsets -> SUBSET (Dispositions \ {"none"})]
  /\ faults \in 0 .. MaxFaults
  /\ pc \in [Publishers \union Consumers ->
               {"idle", "publishing"} \union Consuming \union Ended]
  /\ sent \in [Publishers -> Nat]
  /\ mode \in [Consumers -> Modes]
  /\ position \in [Consumers -> 0 .. MaxLog]
  /\ last \in [Consumers -> 0 .. MaxLog]
  /\ current \in [Consumers -> 0 .. MaxLog]
  /\ written \in [Consumers -> [Offsets -> Dispositions]]
  /\ ledger \in [Consumers -> [{"received"} \union Statuses -> Nat]]
  /\ requested \in [Consumers -> 0 .. MaxLog]

Init ==
  /\ log = << >> /\ dlq = {}
  /\ committed = [g \in Groups |-> 0]
  /\ owner = [g \in Groups |-> NoOwner]
  /\ events = [e \in Events |-> None]
  /\ disposed = [o \in Offsets |-> {}]
  /\ faults = 0
  /\ pc = [x \in Publishers \union Consumers |-> "idle"]
  /\ sent = [q \in Publishers |-> 0]
  /\ mode = [p \in Consumers |-> "subscribe"]
  /\ position = [p \in Consumers |-> 0]
  /\ last = [p \in Consumers |-> MaxLog]
  /\ current = [p \in Consumers |-> 0]
  /\ written = [p \in Consumers |-> NothingWritten]
  /\ ledger = [p \in Consumers |-> EmptyLedger]
  /\ requested = [p \in Consumers |-> 0]

Goto(x, place) == pc' = [pc EXCEPT ![x] = place]
Fault == faults < MaxFaults /\ faults' = faults + 1
-----------------------------------------------------------------------------
(* The publisher.                                                          *)

StartPublisher(q) ==
  /\ pc[q] = "idle"
  /\ Goto(q, "publishing")
  /\ UNCHANGED <<kafka, store, faults, sent, consumer>>

IsEnvelope(input) == input.content # None /\ Verdict[input.content] # "unvalidated"

DeadLetters(q, reason) ==
  dlq' = dlq \union {[by |-> q, at |-> sent[q], reason |-> reason]}

(* A fixture that is no JSON object or no envelope goes to the DLQ, and    *)
(* the kill switch is looked at in between, here on or off at any time.    *)
PublishInvalid(q) ==
  /\ pc[q] = "publishing"
  /\ sent[q] < Len(Inputs[q])
  /\ ~IsEnvelope(Inputs[q][sent[q] + 1])
  /\ DeadLetters(q, "schema_invalid")
  /\ sent' = [sent EXCEPT ![q] = @ + 1]
  /\ UNCHANGED <<log, committed, owner, store, faults, pc, consumer>>

(* The input the kill switch stops at is dead-lettered; then the process   *)
(* ends with the KillSwitchEngaged error.                                  *)
PublishKilled(q) ==
  /\ pc[q] = "publishing"
  /\ sent[q] < Len(Inputs[q])
  /\ Inputs[q][sent[q] + 1].content # None
  /\ DeadLetters(q, "kill_switch_engaged")
  /\ Goto(q, "raised")
  /\ UNCHANGED <<log, committed, owner, store, faults, sent, consumer>>

(* Slip: a delivery error does not end the process.                        *)
PublishSwallowingErrors(q) ==
  /\ pc[q] = "publishing"
  /\ sent[q] < Len(Inputs[q])
  /\ Len(log) < MaxLog
  /\ LET input == Inputs[q][sent[q] + 1]
     IN  /\ IsEnvelope(input)
         /\ log' \in {log, Append(log, [event |-> input.event,
                                        content |-> input.content, run |-> Run])}
  /\ sent' = [sent EXCEPT ![q] = @ + 1]
  /\ UNCHANGED <<dlq, committed, owner, store, faults, pc, consumer>>

(* The broker has acknowledged the message; what it did not acknowledge    *)
(* raises KafkaPublishError, delivered or not: a Crash before or after.    *)
(* An identity that prepare_identity would reject is not looked at.        *)
Publish(q) ==
  /\ pc[q] = "publishing"
  /\ sent[q] < Len(Inputs[q])
  /\ Len(log) < MaxLog
  /\ LET input == Inputs[q][sent[q] + 1]
     IN  /\ IsEnvelope(input)
         /\ log' = Append(log, [event |-> input.event,
                                content |-> input.content, run |-> Run])
  /\ sent' = [sent EXCEPT ![q] = @ + 1]
  /\ UNCHANGED <<dlq, committed, owner, store, faults, pc, consumer>>

FinishPublisher(q) ==
  /\ pc[q] = "publishing"
  /\ sent[q] = Len(Inputs[q])
  /\ Goto(q, "finished")
  /\ UNCHANGED <<kafka, store, faults, sent, consumer>>

PublishForeign(m) ==
  /\ Len(log) < MaxLog
  /\ \A i \in DOMAIN log : log[i] # m
  /\ log' = Append(log, m)
  /\ UNCHANGED <<dlq, committed, owner, store, faults, pc, sent, consumer>>
-----------------------------------------------------------------------------
(* The consumer and its group.                                             *)

(* Slip: a replay commits in the group it was given.                       *)
GroupWithoutSuffix(p) == GroupId[mode[p]]

(* effective_group: a replay has a group of its own.                       *)
Group(p) == IF mode[p] = "replay" THEN ReplayGroup ELSE GroupId[mode[p]]

Subscribes(p) == mode[p] \in {"subscribe", "count"}
IsAssigned(p) == Subscribes(p) => owner[Group(p)] = p

(* run_consumer up to its loop: a new execution, and either explicit       *)
(* offsets (a window of a former summary, or an end watermark captured     *)
(* before) or a subscription.                                              *)
StartConsumer(p, m, from, to) ==
  /\ pc[p] = "idle"
  /\ m \in ModesOf[p]
  /\ CASE m = "replay" -> from <= to /\ to < Len(log)
       [] m = "start" -> from <= Len(log) /\ to = MaxLog
       [] OTHER -> from = 0 /\ to = MaxLog
  /\ mode' = [mode EXCEPT ![p] = m]
  /\ position' = [position EXCEPT ![p] = from]
  /\ last' = [last EXCEPT ![p] = to]
  /\ Goto(p, "polling")
  /\ UNCHANGED <<kafka, store, faults, sent, current, written, ledger, requested>>

(* Slip: auto.offset.reset latest, a group without a commit starts at the  *)
(* end of the topic.                                                       *)
AssignLatest(p) ==
  LET g == Group(p)
  IN  /\ pc[p] \in Consuming
      /\ Subscribes(p)
      /\ owner[g] # p
      /\ IF owner[g] = NoOwner THEN UNCHANGED faults ELSE Fault
      /\ owner' = [owner EXCEPT ![g] = p]
      /\ position' = [position EXCEPT ![p] =
                        IF committed[g] = 0 THEN Len(log) ELSE committed[g]]
      /\ requested' = [requested EXCEPT ![p] = 0]
      /\ UNCHANGED <<log, dlq, committed, store, pc, sent, mode, last,
                     current, written, ledger>>

(* The coordinator gives the partition to a member, which goes on at the   *)
(* committed offset; commits of the former generation are refused.  Taking *)
(* it from a member that still runs is a fault.                            *)
Assign(p) ==
  LET g == Group(p)
  IN  /\ pc[p] \in Consuming
      /\ Subscribes(p)
      /\ owner[g] # p
      /\ IF owner[g] = NoOwner THEN UNCHANGED faults ELSE Fault
      /\ owner' = [owner EXCEPT ![g] = p]
      /\ position' = [position EXCEPT ![p] = committed[g]]
      /\ requested' = [requested EXCEPT ![p] = 0]
      /\ UNCHANGED <<log, dlq, committed, store, pc, sent, mode, last,
                     current, written, ledger>>

HasMessage(p) == position[p] < Len(log) /\ position[p] <= last[p]

Poll(p) ==
  /\ pc[p] = "polling"
  /\ mode[p] # "count"
  /\ IsAssigned(p) /\ HasMessage(p)
  /\ current' = [current EXCEPT ![p] = position[p]]
  /\ position' = [position EXCEPT ![p] = @ + 1]
  /\ ledger' = [ledger EXCEPT ![p].received = @ + 1]
  /\ Goto(p, "handling")
  /\ UNCHANGED <<kafka, store, faults, sent, mode, last, written, requested>>

(* --count-only: messages of the consumer's run are counted (in received,  *)
(* for want of a ledger) and committed; nothing is persisted.              *)
Count(p) ==
  /\ pc[p] = "polling"
  /\ mode[p] = "count"
  /\ IsAssigned(p) /\ HasMessage(p)
  /\ position' = [position EXCEPT ![p] = @ + 1]
  /\ IF log[position[p] + 1].run = Run
     THEN /\ requested' = [requested EXCEPT ![p] = position[p] + 1]
          /\ ledger' = [ledger EXCEPT ![p].received = @ + 1]
     ELSE UNCHANGED <<requested, ledger>>
  /\ UNCHANGED <<kafka, store, faults, pc, sent, mode, last, current, written>>

MessageOf(p) == log[current[p] + 1]

(* Slip: an identifier that is stored makes a conflict, the hashes are not *)
(* compared.                                                               *)
DispositionWithoutHash(p) ==
  LET m == MessageOf(p)
  IN  CASE Verdict[m.content] = "unvalidated" ->
             IF m.run = NoRun THEN "missing_source_run_id" ELSE "schema_invalid"
        [] Verdict[m.content] # "unvalidated" /\ events[m.event] = None ->
             DispositionOf[Classify(None, m.content)]
        [] OTHER -> "event_id_content_conflict"

(* Slip: the claim is written into the row, not its disposition.           *)
DispositionUnmapped(p) ==
  LET m == MessageOf(p)
  IN  IF Verdict[m.content] = "unvalidated"
      THEN IF m.run = NoRun THEN "missing_source_run_id" ELSE "schema_invalid"
      ELSE Classify(events[m.event], m.content)

(* The envelope is validated and then claimed; the quarantine reason of an *)
(* invalid one depends on its header.                                      *)
DispositionFor(p) ==
  LET m == MessageOf(p)
  IN  IF Verdict[m.content] = "unvalidated"
      THEN IF m.run = NoRun THEN "missing_source_run_id" ELSE "schema_invalid"
      ELSE DispositionOf[Classify(events[m.event], m.content)]

(* A message without payload, or with one that the database refuses.       *)
Refused(message) == message.content = None \/ message.content \in Unstorable

(* The message's row is UNIQUE in the execution.                           *)
KeyIsTaken(p) == written[p][current[p]] # "none"

Record(p, disposition) ==
  ledger' = [ledger EXCEPT ![p][StatusOf(disposition)] = @ + 1]

(* Slip: a row that is there already is left alone, and counted.           *)
HandleIgnoringTakenKey(p) ==
  LET m == MessageOf(p)
      disposition == DispositionFor(p)
      isNew == disposition = "accepted" /\ ~KeyIsTaken(p)
  IN  /\ pc[p] = "handling"
      /\ ~Refused(m)
      /\ written' = [written EXCEPT ![p][current[p]] =
                       IF KeyIsTaken(p) THEN @ ELSE disposition]
      /\ disposed' = [disposed EXCEPT ![current[p]] =
                        IF KeyIsTaken(p) THEN @ ELSE @ \union {disposition}]
      /\ events' = IF isNew THEN [events EXCEPT ![m.event] = m.content] ELSE events
      /\ CASE disposition = "schema_invalid" ->
                 Goto(p, "deadlettering") /\ UNCHANGED ledger
           [] disposition = "identity_conflict" ->
                 Goto(p, "failing") /\ UNCHANGED ledger
           [] OTHER -> Goto(p, "committing") /\ Record(p, disposition)
      /\ UNCHANGED <<kafka, faults, sent, mode, position, last, current, requested>>

(* try_claim or persist_quarantine commits the row.  IdentityQuarantined,  *)
(* raised after that commit, and the error of a taken key are not caught:  *)
(* they end the process with the offset uncommitted.                       *)
Handle(p) ==
  LET m == MessageOf(p)
      disposition == DispositionFor(p)
      isNew == disposition = "accepted"
  IN  /\ pc[p] = "handling"
      /\ ~Refused(m) /\ ~KeyIsTaken(p)
      /\ written' = [written EXCEPT ![p][current[p]] = disposition]
      /\ disposed' = [disposed EXCEPT ![current[p]] = @ \union {disposition}]
      /\ events' = IF isNew THEN [events EXCEPT ![m.event] = m.content] ELSE events
      /\ CASE disposition = "schema_invalid" ->
                 Goto(p, "deadlettering") /\ UNCHANGED ledger
           [] disposition = "identity_conflict" ->
                 Goto(p, "failing") /\ UNCHANGED ledger
           [] OTHER -> Goto(p, "committing") /\ Record(p, disposition)
      /\ UNCHANGED <<kafka, faults, sent, mode, position, last, current, requested>>

(* Neither a row nor the DLQ gets the message: "Kafka message lacks        *)
(* payload", or the error of the claim, ends the process.                  *)
HandleRefused(p) ==
  /\ pc[p] = "handling"
  /\ Refused(MessageOf(p))
  /\ Goto(p, "failing")
  /\ UNCHANGED <<kafka, store, faults, sent, consumer>>

HandleTakenKey(p) ==
  /\ pc[p] = "handling"
  /\ KeyIsTaken(p)
  /\ Goto(p, "failing")
  /\ UNCHANGED <<kafka, store, faults, sent, consumer>>

(* Slip: the offset is committed before the DLQ has the message.           *)
DeadLetterLast(p) ==
  /\ pc[p] = "deadlettering"
  /\ requested' = [requested EXCEPT ![p] = current[p] + 1]
  /\ dlq' \in {dlq, dlq \union {[by |-> "consumer", at |-> current[p],
                                 reason |-> "schema_invalid"]}}
  /\ Record(p, "schema_invalid")
  /\ Goto(p, "polling")
  /\ UNCHANGED <<log, committed, owner, store, faults, sent, mode, position,
                 last, current, written>>

(* The DLQ gets the raw message after its row; a publish that fails raises *)
(* like a Crash here.                                                      *)
DeadLetter(p) ==
  /\ pc[p] = "deadlettering"
  /\ dlq' = dlq \union {[by |-> "consumer", at |-> current[p],
                         reason |-> "schema_invalid"]}
  /\ Record(p, "schema_invalid")
  /\ Goto(p, "committing")
  /\ UNCHANGED <<log, committed, owner, store, faults, sent, mode, position,
                 last, current, written, requested>>

(* consumer.commit(message) returns before the broker has answered; a      *)
(* later request supersedes one still in flight.                           *)
RequestCommit(p) ==
  /\ pc[p] = "committing"
  /\ requested' = [requested EXCEPT ![p] = current[p] + 1]
  /\ Goto(p, "polling")
  /\ UNCHANGED <<kafka, store, faults, sent, mode, position, last, current,
                 written, ledger>>

(* The broker takes commits of the partition's owner, and of a consumer    *)
(* without a subscription while its group has no member.                   *)
TakesCommit(p) == owner[Group(p)] = IF Subscribes(p) THEN p ELSE NoOwner

CommitLands(p) ==
  /\ requested[p] # 0
  /\ TakesCommit(p)
  /\ committed' = [committed EXCEPT ![Group(p)] = requested[p]]
  /\ requested' = [requested EXCEPT ![p] = 0]
  /\ UNCHANGED <<log, dlq, owner, store, faults, pc, sent, mode, position,
                 last, current, written, ledger>>

(* A commit that is refused, or lost (a fault), goes unnoticed.            *)
CommitLost(p) ==
  /\ requested[p] # 0
  /\ IF TakesCommit(p) THEN Fault ELSE UNCHANGED faults
  /\ requested' = [requested EXCEPT ![p] = 0]
  /\ UNCHANGED <<kafka, store, pc, sent, mode, position, last, current,
                 written, ledger>>

IsBalanced(l) == l.received = l.accepted + l.quarantined + l.duplicate

(* The process is gone, its memory with it: a member leaves its group,     *)
(* nothing is in flight, and no later invocation writes to its execution.  *)
Leave(p) ==
  /\ Goto(p, "idle")
  /\ owner' = [g \in Groups |-> IF owner[g] = p THEN NoOwner ELSE owner[g]]
  /\ mode' = [mode EXCEPT ![p] = "subscribe"]
  /\ position' = [position EXCEPT ![p] = 0]
  /\ last' = [last EXCEPT ![p] = MaxLog]
  /\ current' = [current EXCEPT ![p] = 0]
  /\ written' = [written EXCEPT ![p] = NothingWritten]
  /\ ledger' = [ledger EXCEPT ![p] = EmptyLedger]
  /\ requested' = [requested EXCEPT ![p] = 0]
  /\ UNCHANGED <<log, dlq, committed, store, sent>>

(* Nothing to poll: the topic or the window is exhausted, or the partition *)
(* is another member's.                                                    *)
IsIdle(p) ==
  IF IsAssigned(p) THEN ~HasMessage(p) ELSE owner[Group(p)] # NoOwner

(* max_messages reached or idle; close() waits for the commit in flight.   *)
(* assert_balanced then always succeeds, by SummaryIsDurable.  Giving up   *)
(* on an unread message without having handled any is a fault.             *)
Finish(p) ==
  /\ pc[p] = "polling"
  /\ requested[p] = 0
  /\ IF IsIdle(p) \/ ledger[p].received > 0 THEN UNCHANGED faults ELSE Fault
  /\ Leave(p)

(* finally: consumer.close(), and the exception goes on.                   *)
Fail(p) ==
  /\ pc[p] = "failing"
  /\ requested[p] = 0
  /\ Leave(p)
  /\ UNCHANGED faults

CrashConsumer(p) ==
  /\ pc[p] \in Consuming
  /\ Fault
  /\ Leave(p)

CrashPublisher(q) ==
  /\ pc[q] = "publishing"
  /\ Fault
  /\ Goto(q, "crashed")
  /\ UNCHANGED <<kafka, store, sent, consumer>>
-----------------------------------------------------------------------------
Publisher(q) ==
  \/ StartPublisher(q) \/ PublishInvalid(q) \/ PublishKilled(q)
  \/ Publish(q) \/ FinishPublisher(q) \/ CrashPublisher(q)

Start(p, m) == \E from \in 0 .. MaxLog, to \in 0 .. MaxLog : StartConsumer(p, m, from, to)

Consumer(p) ==
  \/ Assign(p) \/ Poll(p) \/ Count(p) \/ Handle(p) \/ HandleRefused(p)
  \/ HandleTakenKey(p) \/ DeadLetter(p) \/ RequestCommit(p) \/ CommitLands(p) \/ CommitLost(p)
  \/ Finish(p) \/ Fail(p)

Next ==
  \/ \E q \in Publishers : Publisher(q)
  \/ \E m \in Foreign : PublishForeign(m)
  \/ \E p \in Consumers, m \in Modes : Start(p, m)
  \/ \E p \in Consumers : Consumer(p) \/ CrashConsumer(p)

Spec == Init /\ [][Next]_vars

(* A process that does not crash keeps running; somebody invokes the       *)
(* consumer again whenever it has ended; an assignment or a commit is      *)
(* answered.                                                               *)
FairSpec ==
  /\ Spec
  /\ \A p \in Consumers : WF_vars(Consumer(p)) /\ WF_vars(Start(p, "subscribe"))
-----------------------------------------------------------------------------
(* Properties.                                                             *)

(* Every message below the committed offset of the persisting group has a  *)
(* durable row: whatever crash, lost commit, rebalance, replay or count    *)
(* came between, no message is skipped.                                    *)
NoMessageIsSkipped ==
  \A o \in Offsets : o < committed[DefaultGroup] => disposed[o] # {}

(* An offset passes an invalid message only after the DLQ has it.          *)
InvalidReachesDlq ==
  \A o \in Offsets :
    (o < committed[DefaultGroup] /\ "schema_invalid" \in disposed[o]) =>
      [by |-> "consumer", at |-> o, reason |-> "schema_invalid"] \in dlq

(* Replay is safe: a message that was accepted is a duplicate for ever     *)
(* after, never a conflict, even if others with its identifier came since. *)
ReplaysAreDuplicates ==
  \A o \in Offsets :
    "accepted" \in disposed[o] => disposed[o] \subseteq {"accepted", "duplicate"}

(* Whenever a consumer may stop, its ledger balances and counts the rows   *)
(* its execution has durably written, as its summary will say.             *)
SummaryIsDurable ==
  \A p \in Consumers :
    (pc[p] = "polling" /\ mode[p] # "count") =>
      /\ IsBalanced(ledger[p])
      /\ \A s \in Statuses :
           ledger[p][s] = Cardinality({o \in Offsets :
             written[p][o] # "none" /\ StatusOf(written[p][o]) = s})

(* A publisher that reports success has put each input on the topic or on  *)
(* the DLQ.                                                                *)
PublisherIsComplete ==
  \A q \in Publishers :
    pc[q] = "finished" =>
      \A i \in DOMAIN Inputs[q] :
        IF IsEnvelope(Inputs[q][i])
        THEN \E o \in DOMAIN log :
               log[o] = [event |-> Inputs[q][i].event,
                         content |-> Inputs[q][i].content, run |-> Run]
        ELSE [by |-> q, at |-> i - 1, reason |-> "schema_invalid"] \in dlq

(* What ends every consumer before its offset is committed.                *)
IsPoison(m) == Refused(m) \/ Verdict[m.content] = "rejected"
PoisonBefore(o) == \E i \in DOMAIN log : i <= o /\ IsPoison(log[i])

(* Every message is disposed of in the end that can be stored at all and   *)
(* has no poison before it.  A rejected identity gets its row and then     *)
(* stops the group; a refused message stops it without one.                *)
DisposedUpToPoison ==
  \A o \in Offsets :
    (o < Len(log) /\ ~Refused(log[o + 1]) /\ ~PoisonBefore(o)) ~> disposed[o] # {}

(* "Every received input must reach a durable disposition": every message  *)
(* is disposed of in the end (kafka-topics-phase2.md).                     *)
EveryMessageIsDisposed == \A o \in Offsets : o < Len(log) ~> disposed[o] # {}
=============================================================================
