------------------------ MODULE StreamPipelineProofs ------------------------
(***************************************************************************)
(* Proofs about stream mode, for any number of publishers and consumers,   *)
(* any messages, and any number of crashes, lost commits and rebalances.   *)
(***************************************************************************)
EXTENDS StreamPipeline, FiniteSetTheorems, SequenceTheorems, TLAPS

USE VerdictAssumption, NoneAssumption, BoundsAssumption, SlotsAssumption,
    GroupsAssumption, InputsAssumption

(* A consumer with a message in its hands has one of the log.              *)
CurrentIsThere ==
  \A p \in Consumers :
    pc[p] \in {"handling", "deadlettering", "committing"} => current[p] < Len(log)
-----------------------------------------------------------------------------
(* Type correctness.                                                       *)

Places == {"idle", "publishing"} \union Consuming \union Ended

LEMMA DispositionsOfClaims ==
  ASSUME NEW s, NEW c
  PROVE  /\ DispositionOf[Classify(s, c)] \in Dispositions \ {"none"}
         /\ DispositionOf[Classify(s, c)] = "accepted" <=>
              s = None /\ Verdict[c] # "rejected"
         /\ DispositionOf[Classify(s, c)] = "identity_conflict" <=>
              s = None /\ Verdict[c] = "rejected"
         /\ DispositionOf[Classify(s, c)] = "duplicate" <=> s # None /\ s = c
         /\ DispositionOf[Classify(s, c)] = "event_id_content_conflict" <=>
              s # None /\ s # c
         /\ DispositionOf[Classify(s, c)] \notin {"schema_invalid", "missing_source_run_id"}
  <1>1. CASE Classify(s, c) = "new"
    BY <1>1 DEF DispositionOf, Claims, Dispositions, Classify
  <1>2. CASE Classify(s, c) = "duplicate"
    BY <1>2 DEF DispositionOf, Claims, Dispositions, Classify
  <1>3. CASE Classify(s, c) = "conflict"
    BY <1>3 DEF DispositionOf, Claims, Dispositions, Classify
  <1>4. CASE Classify(s, c) = "identity_invalid"
    BY <1>4 DEF DispositionOf, Claims, Dispositions, Classify
  <1> QED
    BY <1>1, <1>2, <1>3, <1>4 DEF Classify

LEMMA MessageType ==
  ASSUME TypeOK, CurrentIsThere, NEW p \in Consumers,
         pc[p] \in {"handling", "deadlettering", "committing"}
  PROVE  /\ current[p] \in Offsets /\ current[p] \in 0 .. Len(log) - 1
         /\ MessageOf(p) = log[current[p] + 1]
         /\ MessageOf(p).event \in Events
         /\ MessageOf(p).content \in Contents \union {None}
         /\ ~Refused(MessageOf(p)) => MessageOf(p).content \in Contents
         /\ DispositionFor(p) \in Dispositions \ {"none"}
         /\ StatusOf(DispositionFor(p)) \in Statuses
  <1>1. current[p] \in Offsets /\ current[p] \in 0 .. Len(log) - 1
    BY DEF TypeOK, CurrentIsThere, Offsets
  <1>2. log[current[p] + 1] \in Messages
    BY <1>1 DEF TypeOK
  <1>3. DispositionFor(p) \in Dispositions \ {"none"}
    <2>1. CASE Verdict[MessageOf(p).content] = "unvalidated"
      BY <2>1 DEF DispositionFor, Dispositions
    <2>2. CASE Verdict[MessageOf(p).content] # "unvalidated"
      BY <2>2, DispositionsOfClaims DEF DispositionFor
    <2> QED
      BY <2>1, <2>2
  <1> QED
    BY <1>1, <1>2, <1>3 DEF MessageOf, Messages, Refused, StatusOf, Statuses

LEMMA InitType == Init => TypeOK /\ CurrentIsThere
  <1> SUFFICES ASSUME Init PROVE TypeOK /\ CurrentIsThere
    OBVIOUS
  <1>1. EmptyLedger \in [{"received"} \union Statuses -> Nat]
    BY DEF EmptyLedger, Statuses
  <1>2. NothingWritten \in [Offsets -> Dispositions]
    BY DEF NothingWritten, Dispositions
  <1>3. log \in Seq(Messages) /\ Len(log) = 0
    BY DEF Init
  <1> QED
    BY <1>1, <1>2, <1>3 DEF Init, TypeOK, CurrentIsThere, Modes

LEMMA GotoType ==
  ASSUME TypeOK, NEW x \in Publishers \union Consumers, NEW place \in Places, Goto(x, place)
  PROVE  /\ pc' \in [Publishers \union Consumers -> Places]
         /\ pc'[x] = place
         /\ \A y \in Publishers \union Consumers : y # x => pc'[y] = pc[y]
  <1>1. pc \in [Publishers \union Consumers -> Places]
    BY DEF TypeOK, Places
  <1>2. pc' = [pc EXCEPT ![x] = place]
    BY DEF Goto
  <1> QED
    BY <1>1, <1>2

(* A step of a publisher leaves the consumers alone.                       *)
LEMMA PublisherType ==
  ASSUME TypeOK, CurrentIsThere, NEW q \in Publishers, Publisher(q)
  PROVE  TypeOK' /\ CurrentIsThere'
  <1>0. \A p \in Consumers : p # q
    OBVIOUS
  <1>1. CASE StartPublisher(q) \/ FinishPublisher(q) \/ CrashPublisher(q)
    <2>1. PICK place \in Places : Goto(q, place)
      BY <1>1 DEF StartPublisher, FinishPublisher, CrashPublisher, Places, Ended
    <2>2. /\ pc' \in [Publishers \union Consumers -> Places]
          /\ \A p \in Consumers : pc'[p] = pc[p]
      <3>1. /\ pc' \in [Publishers \union Consumers -> Places]
            /\ \A y \in Publishers \union Consumers : y # q => pc'[y] = pc[y]
        BY <2>1, GotoType
      <3> QED
        BY <1>0, <3>1
    <2>3. faults' \in 0 .. MaxFaults
      BY <1>1 DEF StartPublisher, FinishPublisher, CrashPublisher, Fault, TypeOK
    <2>4. UNCHANGED <<kafka, store, sent, consumer>>
      BY <1>1 DEF StartPublisher, FinishPublisher, CrashPublisher
    <2>5. TypeOK'
      BY <2>2, <2>3, <2>4 DEF TypeOK, kafka, store, consumer, Places
    <2>6. CurrentIsThere'
      BY <2>2, <2>4 DEF CurrentIsThere, kafka, consumer
    <2> QED
      BY <2>5, <2>6
  <1>2. CASE PublishInvalid(q) \/ PublishKilled(q)
    <2>1. PICK reason \in Dispositions :
            dlq' = dlq \union {[by |-> q, at |-> sent[q], reason |-> reason]}
      BY <1>2 DEF PublishInvalid, PublishKilled, DeadLetters, Dispositions
    <2>2. dlq' \subseteq [by: Publishers \union {"consumer"}, at: Nat, reason: Dispositions]
      BY <2>1 DEF TypeOK
    <2>3. /\ pc' \in [Publishers \union Consumers -> Places]
          /\ \A p \in Consumers : pc'[p] = pc[p]
      <3>1. CASE UNCHANGED pc
        <4>1. pc \in [Publishers \union Consumers -> Places]
          BY DEF TypeOK, Places
        <4> QED
          BY <3>1, <4>1
      <3>2. CASE Goto(q, "raised")
        <4>1. "raised" \in Places /\ q \in Publishers \union Consumers
          BY DEF Places, Ended
        <4>2. /\ pc' \in [Publishers \union Consumers -> Places]
              /\ \A y \in Publishers \union Consumers : y # q => pc'[y] = pc[y]
          BY <3>2, <4>1, GotoType
        <4> QED
          BY <1>0, <4>2
      <3> QED
        BY <1>2, <3>1, <3>2 DEF PublishInvalid, PublishKilled
    <2>4. sent' \in [Publishers -> Nat]
      <3>1. sent' = sent \/ sent' = [sent EXCEPT ![q] = sent[q] + 1]
        BY <1>2 DEF PublishInvalid, PublishKilled
      <3>2. sent \in [Publishers -> Nat] /\ sent[q] + 1 \in Nat
        BY DEF TypeOK
      <3> QED
        BY <3>1, <3>2
    <2>5. UNCHANGED <<log, committed, owner, store, faults, consumer>>
      BY <1>2 DEF PublishInvalid, PublishKilled
    <2>6. TypeOK'
      BY <2>2, <2>3, <2>4, <2>5 DEF TypeOK, store, consumer, Places
    <2>7. CurrentIsThere'
      BY <2>3, <2>5 DEF CurrentIsThere, consumer
    <2> QED
      BY <2>6, <2>7
  <1>3. CASE Publish(q)
    <2> DEFINE input == Inputs[q][sent[q] + 1]
               m == [event |-> input.event, content |-> input.content, run |-> Run]
    <2>1. input \in FixtureInputs /\ input.content # None
      <3>1. sent[q] + 1 \in 1 .. Len(Inputs[q]) /\ Inputs[q] \in Seq(FixtureInputs)
        BY <1>3 DEF Publish, TypeOK
      <3> QED
        BY <1>3, <3>1 DEF Publish, IsEnvelope
    <2>2. m \in Messages
      BY <2>1 DEF FixtureInputs, Messages
    <2>3. log' = Append(log, m) /\ Len(log) < MaxLog /\ sent' \in [Publishers -> Nat]
      BY <1>3 DEF Publish, TypeOK
    <2> HIDE DEF m
    <2>4. log' \in Seq(Messages) /\ Len(log') = Len(log) + 1 /\ Len(log) \in Nat
      BY <2>2, <2>3 DEF TypeOK
    <2>5. Len(log') <= MaxLog
      BY <2>3, <2>4
    <2>6. UNCHANGED <<dlq, committed, owner, store, faults, pc, consumer>>
      BY <1>3 DEF Publish
    <2>7. TypeOK'
      BY <2>3, <2>4, <2>5, <2>6 DEF TypeOK, store, consumer
    <2>8. CurrentIsThere'
      BY <2>4, <2>6 DEF CurrentIsThere, consumer, TypeOK
    <2> QED
      BY <2>7, <2>8
  <1> QED
    BY <1>1, <1>2, <1>3 DEF Publisher

LEMMA ForeignType ==
  ASSUME TypeOK, CurrentIsThere, NEW m \in Foreign, PublishForeign(m)
  PROVE  TypeOK' /\ CurrentIsThere'
  <1>1. log' = Append(log, m) /\ Len(log) < MaxLog /\ m \in Messages
    BY DEF PublishForeign
  <1>2. log' \in Seq(Messages) /\ Len(log') = Len(log) + 1 /\ Len(log) \in Nat
    BY <1>1 DEF TypeOK
  <1>3. Len(log') <= MaxLog
    BY <1>1, <1>2
  <1>4. UNCHANGED <<dlq, committed, owner, store, faults, pc, sent, consumer>>
    BY DEF PublishForeign
  <1>5. TypeOK'
    BY <1>2, <1>3, <1>4 DEF TypeOK, store, consumer
  <1>6. CurrentIsThere'
    BY <1>2, <1>4 DEF CurrentIsThere, consumer, TypeOK
  <1> QED
    BY <1>5, <1>6
-----------------------------------------------------------------------------
Fields == {"received"} \union Statuses

(* One count of the ledger of one consumer goes up.                        *)
LEMMA LedgerCounts ==
  ASSUME TypeOK, NEW p \in Consumers, NEW k \in Fields,
         ledger' = [ledger EXCEPT ![p] = [ledger[p] EXCEPT ![k] = ledger[p][k] + 1]]
  PROVE  /\ ledger' \in [Consumers -> [Fields -> Nat]]
         /\ ledger'[p][k] = ledger[p][k] + 1
         /\ \A j \in Fields : j # k => ledger'[p][j] = ledger[p][j]
         /\ \A r \in Consumers : r # p => ledger'[r] = ledger[r]
  <1>1. ledger \in [Consumers -> [Fields -> Nat]]
    BY DEF TypeOK, Fields
  <1>2. ledger[p] \in [Fields -> Nat] /\ ledger[p][k] + 1 \in Nat
    BY <1>1
  <1> DEFINE counts == [ledger[p] EXCEPT ![k] = ledger[p][k] + 1]
  <1>3. /\ counts \in [Fields -> Nat]
        /\ counts[k] = ledger[p][k] + 1
        /\ \A j \in Fields : j # k => counts[j] = ledger[p][j]
    BY <1>2
  <1> HIDE DEF counts
  <1>4. ledger' = [ledger EXCEPT ![p] = counts]
    BY DEF counts
  <1> QED
    BY <1>1, <1>3, <1>4

LEMMA ReceivedCounts ==
  ASSUME TypeOK, NEW p \in Consumers, ledger' = [ledger EXCEPT ![p].received = @ + 1]
  PROVE  /\ ledger' \in [Consumers -> [Fields -> Nat]]
         /\ ledger'[p]["received"] = ledger[p]["received"] + 1
         /\ \A s \in Statuses : ledger'[p][s] = ledger[p][s]
         /\ \A r \in Consumers : r # p => ledger'[r] = ledger[r]
  <1>1. /\ "received" \in Fields
        /\ \A s \in Statuses : s \in Fields /\ s # "received"
    BY DEF Fields, Statuses
  <1>2. ledger' = [ledger EXCEPT ![p] = [ledger[p] EXCEPT !["received"] = ledger[p]["received"] + 1]]
    OBVIOUS
  <1>3. /\ ledger' \in [Consumers -> [Fields -> Nat]]
        /\ ledger'[p]["received"] = ledger[p]["received"] + 1
        /\ \A j \in Fields : j # "received" => ledger'[p][j] = ledger[p][j]
        /\ \A r \in Consumers : r # p => ledger'[r] = ledger[r]
    BY <1>1, <1>2, LedgerCounts
  <1> QED
    BY <1>1, <1>3

LEMMA StatusCounts ==
  ASSUME TypeOK, NEW p \in Consumers, NEW d, StatusOf(d) \in Statuses, Record(p, d)
  PROVE  /\ ledger' \in [Consumers -> [Fields -> Nat]]
         /\ ledger'[p]["received"] = ledger[p]["received"]
         /\ \A s \in Statuses :
              ledger'[p][s] = IF s = StatusOf(d) THEN ledger[p][s] + 1 ELSE ledger[p][s]
         /\ \A r \in Consumers : r # p => ledger'[r] = ledger[r]
  <1>1. /\ "received" \in Fields
        /\ \A s \in Statuses : s \in Fields /\ s # "received"
    BY DEF Fields, Statuses
  <1> DEFINE s == StatusOf(d)
  <1>2. ledger' = [ledger EXCEPT ![p] = [ledger[p] EXCEPT ![s] = ledger[p][s] + 1]]
    BY DEF Record
  <1> HIDE DEF s
  <1>3. s \in Statuses
    BY DEF s
  <1>4. /\ ledger' \in [Consumers -> [Fields -> Nat]]
        /\ ledger'[p][s] = ledger[p][s] + 1
        /\ \A j \in Fields : j # s => ledger'[p][j] = ledger[p][j]
        /\ \A r \in Consumers : r # p => ledger'[r] = ledger[r]
    BY <1>1, <1>2, <1>3, LedgerCounts
  <1> QED
    BY <1>1, <1>3, <1>4 DEF s
-----------------------------------------------------------------------------
(* The steps of a consumer change what is its own and leave the others'.   *)

LEMMA ConsumerType ==
  ASSUME TypeOK, CurrentIsThere, NEW p \in Consumers,
         Consumer(p) \/ CrashConsumer(p) \/ \E m \in Modes : Start(p, m)
  PROVE  TypeOK' /\ CurrentIsThere'
  <1> DEFINE LogEnd == Len(log)
  <1>0. /\ p \in Publishers \union Consumers
        /\ LogEnd \in 0 .. MaxLog
        /\ {"idle", "polling", "handling", "deadlettering", "committing", "failing"} \subseteq Places
    BY DEF TypeOK, Places, Consuming
  <1>1. CASE \E m \in Modes : Start(p, m)
    <2>1. PICK m \in Modes, from \in 0 .. MaxLog, to \in 0 .. MaxLog : StartConsumer(p, m, from, to)
      BY <1>1 DEF Start
    <2>2. /\ mode' = [mode EXCEPT ![p] = m]
          /\ position' = [position EXCEPT ![p] = from]
          /\ last' = [last EXCEPT ![p] = to]
          /\ Goto(p, "polling")
          /\ UNCHANGED <<kafka, store, faults, sent, current, written, ledger, requested>>
      BY <2>1 DEF StartConsumer
    <2>3. pc' \in [Publishers \union Consumers -> Places]
      BY <1>0, <2>2, GotoType
    <2>4. TypeOK'
      BY <2>2, <2>3 DEF TypeOK, kafka, store, Places
    <2>5. CurrentIsThere'
      BY <1>0, <2>2, GotoType DEF CurrentIsThere, kafka
    <2> QED
      BY <2>4, <2>5
  <1>2. CASE Assign(p)
    <2>1. Group(p) \in Groups /\ committed[Group(p)] \in 0 .. MaxLog
      BY DEF Group, TypeOK
    <2>2. /\ owner' = [owner EXCEPT ![Group(p)] = p]
          /\ position' = [position EXCEPT ![p] = committed[Group(p)]]
          /\ requested' = [requested EXCEPT ![p] = 0]
          /\ UNCHANGED <<log, dlq, committed, store, pc, sent, mode, last, current, written, ledger>>
      BY <1>2 DEF Assign
    <2>3. faults' \in 0 .. MaxFaults
      <3>1. UNCHANGED faults \/ Fault
        BY <1>2 DEF Assign
      <3>2. faults \in 0 .. MaxFaults
        BY DEF TypeOK
      <3> QED
        BY <3>1, <3>2 DEF Fault
    <2>4. /\ owner' \in [Groups -> Consumers \union {NoOwner}]
          /\ position' \in [Consumers -> 0 .. MaxLog]
          /\ requested' \in [Consumers -> 0 .. MaxLog]
      BY <2>1, <2>2 DEF TypeOK
    <2>5. TypeOK'
      BY <2>2, <2>3, <2>4 DEF TypeOK, store
    <2>6. CurrentIsThere'
      BY <2>2 DEF CurrentIsThere
    <2> QED
      BY <2>5, <2>6
  <1>3. CASE Poll(p)
    <2>1. /\ current' = [current EXCEPT ![p] = position[p]]
          /\ position' = [position EXCEPT ![p] = position[p] + 1]
          /\ ledger' = [ledger EXCEPT ![p].received = @ + 1]
          /\ Goto(p, "handling")
          /\ UNCHANGED <<kafka, store, faults, sent, mode, last, written, requested>>
          /\ position[p] < LogEnd
      BY <1>3 DEF Poll, HasMessage
    <2>2. pc' \in [Publishers \union Consumers -> Places]
      BY <1>0, <2>1, GotoType
    <2>3. position[p] + 1 \in 0 .. MaxLog
      <3>1. position[p] \in 0 .. MaxLog
        BY DEF TypeOK
      <3> QED
        BY <1>0, <2>1, <3>1
    <2>4. ledger' \in [Consumers -> [{"received"} \union Statuses -> Nat]]
      BY <2>1, ReceivedCounts DEF Fields
    <2>5. TypeOK'
      BY <2>1, <2>2, <2>3, <2>4 DEF TypeOK, kafka, store, Places
    <2>6. CurrentIsThere'
      BY <1>0, <2>1, GotoType DEF CurrentIsThere, kafka, TypeOK
    <2> QED
      BY <2>5, <2>6
  <1>4. CASE Count(p)
    <2>1. /\ position' = [position EXCEPT ![p] = position[p] + 1]
          /\ position[p] < LogEnd
          /\ UNCHANGED <<kafka, store, faults, pc, sent, mode, last, current, written>>
      BY <1>4 DEF Count, HasMessage
    <2>2. position[p] + 1 \in 0 .. MaxLog
      BY <1>0, <2>1 DEF TypeOK
    <2>3. /\ requested' \in [Consumers -> 0 .. MaxLog]
          /\ ledger' \in [Consumers -> [{"received"} \union Statuses -> Nat]]
      <3>1. CASE UNCHANGED <<requested, ledger>>
        BY <3>1 DEF TypeOK
      <3>2. CASE /\ requested' = [requested EXCEPT ![p] = position[p] + 1]
                 /\ ledger' = [ledger EXCEPT ![p].received = @ + 1]
        <4>1. ledger' \in [Consumers -> [{"received"} \union Statuses -> Nat]]
          BY <3>2, ReceivedCounts DEF Fields
        <4> QED
          BY <2>2, <3>2, <4>1 DEF TypeOK
      <3> QED
        BY <1>4, <3>1, <3>2 DEF Count
    <2>4. TypeOK'
      BY <2>1, <2>2, <2>3 DEF TypeOK, kafka, store
    <2>5. CurrentIsThere'
      BY <2>1 DEF CurrentIsThere, kafka
    <2> QED
      BY <2>4, <2>5
  <1>5. CASE Handle(p)
    <2>0. pc[p] = "handling" /\ ~Refused(MessageOf(p))
      BY <1>5 DEF Handle
    <2>1. /\ current[p] \in Offsets
          /\ MessageOf(p).event \in Events /\ MessageOf(p).content \in Contents
          /\ DispositionFor(p) \in Dispositions \ {"none"}
          /\ StatusOf(DispositionFor(p)) \in Statuses
      BY <2>0, MessageType
    <2>2. PICK place \in {"deadlettering", "failing", "committing"} : Goto(p, place)
      BY <1>5 DEF Handle
    <2>3. pc' \in [Publishers \union Consumers -> Places] /\ pc'[p] # "polling"
          /\ \A r \in Consumers : r # p => pc'[r] = pc[r]
      BY <1>0, <2>2, GotoType
    <2>4. written' \in [Consumers -> [Offsets -> Dispositions]]
      <3>1. written' = [written EXCEPT ![p] = [written[p] EXCEPT ![current[p]] = DispositionFor(p)]]
        BY <1>5 DEF Handle
      <3> QED
        BY <2>1, <3>1 DEF TypeOK
    <2>5. disposed' \in [Offsets -> SUBSET (Dispositions \ {"none"})]
      <3>1. disposed' = [disposed EXCEPT ![current[p]] = disposed[current[p]] \union {DispositionFor(p)}]
        BY <1>5 DEF Handle
      <3> QED
        BY <2>1, <3>1 DEF TypeOK
    <2>6. events' \in [Events -> Contents \union {None}]
      <3>1. events' = events \/ events' = [events EXCEPT ![MessageOf(p).event] = MessageOf(p).content]
        BY <1>5 DEF Handle
      <3> QED
        BY <2>1, <3>1 DEF TypeOK
    <2>7. ledger' \in [Consumers -> [{"received"} \union Statuses -> Nat]]
      <3>1. UNCHANGED ledger \/ Record(p, DispositionFor(p))
        BY <1>5 DEF Handle
      <3>2. ASSUME Record(p, DispositionFor(p))
            PROVE  ledger' \in [Consumers -> [{"received"} \union Statuses -> Nat]]
        BY <2>1, <3>2, StatusCounts DEF Fields
      <3> QED
        BY <3>1, <3>2 DEF TypeOK
    <2>8. UNCHANGED <<kafka, faults, sent, mode, position, last, current, requested>>
      BY <1>5 DEF Handle
    <2>9. TypeOK'
      BY <2>3, <2>4, <2>5, <2>6, <2>7, <2>8 DEF TypeOK, kafka, Places
    <2>10. CurrentIsThere'
      BY <2>0, <2>3, <2>8 DEF CurrentIsThere, kafka
    <2> QED
      BY <2>9, <2>10
  <1>6. CASE HandleRefused(p) \/ HandleTakenKey(p)
    <2>1. Goto(p, "failing") /\ UNCHANGED <<kafka, store, faults, sent, consumer>>
      BY <1>6 DEF HandleRefused, HandleTakenKey
    <2>2. pc' \in [Publishers \union Consumers -> Places]
      BY <1>0, <2>1, GotoType
    <2>3. TypeOK'
      BY <2>1, <2>2 DEF TypeOK, kafka, store, consumer, Places
    <2>4. CurrentIsThere'
      BY <1>0, <2>1, GotoType DEF CurrentIsThere, kafka, consumer
    <2> QED
      BY <2>3, <2>4
  <1>7. CASE DeadLetter(p)
    <2>0. pc[p] = "deadlettering" /\ current[p] \in Offsets
      BY <1>7, MessageType DEF DeadLetter
    <2>1. /\ dlq' = dlq \union {[by |-> "consumer", at |-> current[p], reason |-> "schema_invalid"]}
          /\ Record(p, "schema_invalid") /\ Goto(p, "committing")
          /\ UNCHANGED <<log, committed, owner, store, faults, sent, mode, position, last,
                         current, written, requested>>
      BY <1>7 DEF DeadLetter
    <2>2. pc' \in [Publishers \union Consumers -> Places]
      BY <1>0, <2>1, GotoType
    <2>3. dlq' \subseteq [by: Publishers \union {"consumer"}, at: Nat, reason: Dispositions]
      BY <2>0, <2>1 DEF TypeOK, Dispositions, Offsets
    <2>4. ledger' \in [Consumers -> [{"received"} \union Statuses -> Nat]]
      <3>1. StatusOf("schema_invalid") \in Statuses
        BY DEF StatusOf, Statuses
      <3> QED
        BY <2>1, <3>1, StatusCounts DEF Fields
    <2>5. TypeOK'
      BY <2>1, <2>2, <2>3, <2>4 DEF TypeOK, store, Places
    <2>6. CurrentIsThere'
      BY <1>0, <2>0, <2>1, GotoType DEF CurrentIsThere
    <2> QED
      BY <2>5, <2>6
  <1>8. CASE RequestCommit(p)
    <2>0. current[p] + 1 \in 0 .. MaxLog
      BY <1>8, MessageType DEF RequestCommit, Offsets
    <2>1. /\ requested' = [requested EXCEPT ![p] = current[p] + 1] /\ Goto(p, "polling")
          /\ UNCHANGED <<kafka, store, faults, sent, mode, position, last, current, written, ledger>>
      BY <1>8 DEF RequestCommit
    <2>2. pc' \in [Publishers \union Consumers -> Places]
      BY <1>0, <2>1, GotoType
    <2>3. TypeOK'
      BY <2>0, <2>1, <2>2 DEF TypeOK, kafka, store, Places
    <2>4. CurrentIsThere'
      BY <1>0, <2>1, GotoType DEF CurrentIsThere, kafka
    <2> QED
      BY <2>3, <2>4
  <1>9. CASE CommitLands(p) \/ CommitLost(p)
    <2>1. /\ requested' = [requested EXCEPT ![p] = 0]
          /\ UNCHANGED <<log, dlq, owner, store, pc, sent, mode, position, last, current,
                         written, ledger>>
      BY <1>9 DEF CommitLands, CommitLost, kafka
    <2>2. committed' \in [Groups -> 0 .. MaxLog]
      <3>1. committed' = committed \/ committed' = [committed EXCEPT ![Group(p)] = requested[p]]
        BY <1>9 DEF CommitLands, CommitLost, kafka
      <3> QED
        BY <3>1 DEF TypeOK
    <2>3. faults' \in 0 .. MaxFaults
      BY <1>9 DEF CommitLands, CommitLost, Fault, TypeOK
    <2>4. requested' \in [Consumers -> 0 .. MaxLog]
      BY <2>1 DEF TypeOK
    <2>5. TypeOK'
      BY <2>1, <2>2, <2>3, <2>4 DEF TypeOK, store
    <2>6. CurrentIsThere'
      BY <2>1 DEF CurrentIsThere
    <2> QED
      BY <2>5, <2>6
  <1>10. CASE Finish(p) \/ Fail(p) \/ CrashConsumer(p)
    <2>1. Leave(p)
      BY <1>10 DEF Finish, Fail, CrashConsumer
    <2>2. faults' \in 0 .. MaxFaults
      BY <1>10 DEF Finish, Fail, CrashConsumer, Fault, TypeOK
    <2>3. pc' \in [Publishers \union Consumers -> Places]
      BY <1>0, <2>1, GotoType DEF Leave
    <2>4. /\ EmptyLedger \in [{"received"} \union Statuses -> Nat]
          /\ NothingWritten \in [Offsets -> Dispositions]
      BY DEF EmptyLedger, Statuses, NothingWritten, Dispositions
    <2>5. /\ owner' \in [Groups -> Consumers \union {NoOwner}]
          /\ mode' \in [Consumers -> Modes]
          /\ position' \in [Consumers -> 0 .. MaxLog]
          /\ last' \in [Consumers -> 0 .. MaxLog]
          /\ current' \in [Consumers -> 0 .. MaxLog]
          /\ requested' \in [Consumers -> 0 .. MaxLog]
      BY <2>1 DEF Leave, TypeOK, Modes
    <2>6. /\ written' \in [Consumers -> [Offsets -> Dispositions]]
          /\ ledger' \in [Consumers -> [{"received"} \union Statuses -> Nat]]
      BY <2>1, <2>4 DEF Leave, TypeOK
    <2>7. UNCHANGED <<log, dlq, committed, store, sent>>
      BY <2>1 DEF Leave
    <2>8. TypeOK'
      BY <2>2, <2>3, <2>5, <2>6, <2>7 DEF TypeOK, store, Places
    <2>9. CurrentIsThere'
      <3>1. /\ pc'[p] = "idle" /\ log' = log
            /\ \A r \in Consumers : r # p => pc'[r] = pc[r] /\ current'[r] = current[r]
        BY <1>0, <2>1, GotoType DEF Leave, TypeOK
      <3> QED
        BY <3>1 DEF CurrentIsThere
    <2> QED
      BY <2>8, <2>9
  <1> QED
    BY <1>1, <1>2, <1>3, <1>4, <1>5, <1>6, <1>7, <1>8, <1>9, <1>10 DEF Consumer

LEMMA TypeStep == TypeOK /\ CurrentIsThere /\ [Next]_vars => TypeOK' /\ CurrentIsThere'
  <1>1. ASSUME TypeOK, CurrentIsThere, UNCHANGED vars
        PROVE  TypeOK' /\ CurrentIsThere'
    BY <1>1 DEF TypeOK, CurrentIsThere, vars, kafka, store, consumer
  <1> QED
    BY <1>1, PublisherType, ForeignType, ConsumerType DEF Next
-----------------------------------------------------------------------------
(* What is never taken back.                                               *)

(* The disposition of the message in a consumer's hands, case by case.     *)
LEMMA DispositionMeaning ==
  ASSUME TypeOK, NEW p \in Consumers
  PROVE  /\ Verdict[MessageOf(p).content] = "unvalidated" =>
              DispositionFor(p) = IF MessageOf(p).run = NoRun
                                  THEN "missing_source_run_id" ELSE "schema_invalid"
         /\ Verdict[MessageOf(p).content] # "unvalidated" =>
              /\ DispositionFor(p) \notin {"schema_invalid", "missing_source_run_id"}
              /\ DispositionFor(p) = "accepted" =>
                   events[MessageOf(p).event] = None /\ Verdict[MessageOf(p).content] # "rejected"
              /\ DispositionFor(p) = "identity_conflict" =>
                   Verdict[MessageOf(p).content] = "rejected"
              /\ DispositionFor(p) \notin {"accepted", "identity_conflict"} =>
                   events[MessageOf(p).event] # None
              /\ MessageOf(p).content \in Contents
                 /\ events[MessageOf(p).event] = MessageOf(p).content =>
                   DispositionFor(p) = "duplicate"
  <1>1. CASE Verdict[MessageOf(p).content] = "unvalidated"
    BY <1>1 DEF DispositionFor
  <1>2. CASE Verdict[MessageOf(p).content] # "unvalidated"
    <2> DEFINE stored == events[MessageOf(p).event]
               content == MessageOf(p).content
    <2>1. DispositionFor(p) = DispositionOf[Classify(stored, content)]
      BY <1>2 DEF DispositionFor
    <2> HIDE DEF stored, content
    <2>2. /\ DispositionFor(p) \notin {"schema_invalid", "missing_source_run_id"}
          /\ DispositionFor(p) = "accepted" => stored = None /\ Verdict[content] # "rejected"
          /\ DispositionFor(p) = "identity_conflict" => Verdict[content] = "rejected"
          /\ DispositionFor(p) \notin {"accepted", "identity_conflict"} => stored # None
      BY <2>1, DispositionsOfClaims
    <2>3. content \in Contents /\ stored = content => DispositionFor(p) = "duplicate"
      BY <2>1, DispositionsOfClaims
    <2> QED
      BY <1>2, <2>2, <2>3 DEF stored, content
  <1> QED
    BY <1>1, <1>2

LEMMA Grows ==
  ASSUME TypeOK, CurrentIsThere, [Next]_vars
  PROVE  /\ Len(log) <= Len(log')
         /\ \A o \in 0 .. Len(log) - 1 : log'[o + 1] = log[o + 1]
         /\ dlq \subseteq dlq'
         /\ \A o \in Offsets : disposed[o] \subseteq disposed'[o]
         /\ \A e \in Events : events[e] # None => events'[e] = events[e]
  <1> DEFINE Kept == /\ Len(log) <= Len(log')
                     /\ \A o \in 0 .. Len(log) - 1 : log'[o + 1] = log[o + 1]
             Stored == /\ \A o \in Offsets : disposed[o] \subseteq disposed'[o]
                       /\ \A e \in Events : events[e] # None => events'[e] = events[e]
  <1>0. log \in Seq(Messages) /\ Len(log) \in Nat
    BY DEF TypeOK
  <1>1. ASSUME NEW m, log' = Append(log, m)
        PROVE  Kept
    BY <1>0, <1>1
  <1>2. log' = log => Kept
    BY <1>0
  <1>3. UNCHANGED store => Stored
    BY DEF store
  <1> HIDE DEF Kept, Stored
  <1>4. ASSUME NEW q \in Publishers, Publisher(q)
        PROVE  Kept /\ dlq \subseteq dlq' /\ Stored
    <2>1. UNCHANGED store
      BY <1>4 DEF Publisher, StartPublisher, PublishInvalid, PublishKilled, Publish,
         FinishPublisher, CrashPublisher
    <2>2. dlq \subseteq dlq'
      BY <1>4 DEF Publisher, StartPublisher, PublishInvalid, PublishKilled, Publish,
         FinishPublisher, CrashPublisher, DeadLetters, kafka
    <2>3. Kept
      <3>1. CASE Publish(q)
        BY <1>1, <3>1 DEF Publish
      <3>2. CASE UNCHANGED log
        BY <1>2, <3>2
      <3> QED
        BY <1>4, <3>1, <3>2 DEF Publisher, StartPublisher, PublishInvalid, PublishKilled,
           FinishPublisher, CrashPublisher, kafka
    <2> QED
      BY <1>3, <2>1, <2>2, <2>3
  <1>5. ASSUME NEW m \in Foreign, PublishForeign(m)
        PROVE  Kept /\ dlq \subseteq dlq' /\ Stored
    BY <1>1, <1>3, <1>5 DEF PublishForeign
  <1>6. ASSUME NEW p \in Consumers, Handle(p)
        PROVE  Kept /\ dlq \subseteq dlq' /\ Stored
    <2>0. UNCHANGED <<log, dlq>> /\ pc[p] = "handling"
      BY <1>6 DEF Handle, kafka
    <2>1. current[p] \in Offsets /\ MessageOf(p).event \in Events
      BY <2>0, MessageType
    <2>2. \A o \in Offsets : disposed[o] \subseteq disposed'[o]
      <3>1. disposed' = [disposed EXCEPT ![current[p]] = disposed[current[p]] \union {DispositionFor(p)}]
        BY <1>6 DEF Handle
      <3> QED
        BY <2>1, <3>1 DEF TypeOK
    <2>3. \A e \in Events : events[e] # None => events'[e] = events[e]
      <3>1. CASE DispositionFor(p) = "accepted"
        <4>1. /\ events[MessageOf(p).event] = None
              /\ events' = [events EXCEPT ![MessageOf(p).event] = MessageOf(p).content]
          BY <1>6, <3>1, DispositionMeaning DEF Handle
        <4> QED
          BY <2>1, <4>1 DEF TypeOK
      <3>2. CASE DispositionFor(p) # "accepted"
        BY <1>6, <3>2 DEF Handle
      <3> QED
        BY <3>1, <3>2
    <2> QED
      BY <1>2, <2>0, <2>2, <2>3 DEF Stored
  <1>7. ASSUME NEW p \in Consumers, DeadLetter(p)
        PROVE  Kept /\ dlq \subseteq dlq' /\ Stored
    BY <1>2, <1>3, <1>7 DEF DeadLetter
  <1>8. ASSUME UNCHANGED <<log, dlq, store>>
        PROVE  Kept /\ dlq \subseteq dlq' /\ Stored
    BY <1>2, <1>3, <1>8
  <1>9. Kept /\ dlq \subseteq dlq' /\ Stored
    BY <1>4, <1>5, <1>6, <1>7, <1>8 DEF Next, Consumer, Start, StartConsumer, Assign, Poll,
       Count, HandleRefused, HandleTakenKey, RequestCommit, CommitLands, CommitLost, Finish, Fail,
       CrashConsumer, Leave, kafka, vars
  <1> QED
    BY <1>9 DEF Kept, Stored
-----------------------------------------------------------------------------
(* No message is skipped.                                                  *)

Invalid(o) == Verdict[log[o + 1].content] = "unvalidated" /\ log[o + 1].run # NoRun
InDlq(o) == [by |-> "consumer", at |-> o, reason |-> "schema_invalid"] \in dlq

(* The message at o is disposed of, and at the DLQ if it is invalid.       *)
Done(o) == o < Len(log) /\ disposed[o] # {} /\ (Invalid(o) => InDlq(o))
Covers(n) == \A o \in Offsets : o < n => Done(o)

(* Neither a replay, nor a count, nor a start at captured offsets is of    *)
(* the persisting group.                                                   *)
GroupsAreApart ==
  /\ ReplayGroup # DefaultGroup
  /\ \A p \in Consumers : \A m \in ModesOf[p] \intersect {"count", "start"} :
       GroupId[m] # DefaultGroup

(* Every offset that is committed, in flight, or to be requested by a      *)
(* consumer of the persisting group covers done messages only, whoever     *)
(* owns the partition meanwhile.                                           *)
CoversOfOne(p) ==
  /\ Covers(requested[p])
  /\ pc[p] \in {"handling", "deadlettering", "committing"} => Covers(current[p])
  /\ pc[p] = "deadlettering" => disposed[current[p]] # {}
  /\ pc[p] = "committing" => Done(current[p])
  /\ \/ Covers(position[p])
     \/ /\ pc[p] \in {"handling", "deadlettering", "failing"}
        /\ position[p] = current[p] + 1

OffsetsCoverDone ==
  /\ Covers(committed[DefaultGroup])
  /\ \A p \in Consumers : Group(p) = DefaultGroup => CoversOfOne(p)

(* A consumer that is not running is as it was made.                       *)
IdleIsFresh ==
  \A p \in Consumers :
    /\ mode[p] \in ModesOf[p] \union {"subscribe"}
    /\ pc[p] = "idle" => /\ mode[p] = "subscribe"
                         /\ ledger[p] = EmptyLedger /\ written[p] = NothingWritten

LEMMA DoneStays ==
  ASSUME TypeOK, CurrentIsThere, [Next]_vars
  PROVE  /\ \A o \in Offsets : Done(o) => Done(o)'
         /\ \A n \in Nat : Covers(n) => Covers(n)'
  <1>0. Len(log) \in Nat /\ (Len(log))' \in Nat
    BY TypeStep DEF TypeOK
  <1>1. ASSUME NEW o \in Offsets, Done(o)
        PROVE  Done(o)'
    <2>1. o \in 0 .. Len(log) - 1 /\ o < Len(log')
      BY <1>0, <1>1, Grows DEF Done, Offsets
    <2>2. log'[o + 1] = log[o + 1] /\ disposed[o] \subseteq disposed'[o] /\ dlq \subseteq dlq'
      BY <2>1, Grows
    <2> QED
      BY <1>1, <2>1, <2>2 DEF Done, Invalid, InDlq
  <1> QED
    BY <1>1 DEF Covers

LEMMA CoversOneMore ==
  ASSUME NEW n \in Offsets, Covers(n), Done(n)
  PROVE  Covers(n + 1)
  <1>1. \A o \in Offsets : o < n + 1 => o < n \/ o = n
    BY DEF Offsets
  <1> QED
    BY <1>1 DEF Covers

(* What belongs to one consumer alone.                                     *)
IsLeft(r) ==
  /\ pc'[r] = pc[r] /\ mode'[r] = mode[r] /\ position'[r] = position[r]
  /\ current'[r] = current[r] /\ requested'[r] = requested[r]
  /\ written'[r] = written[r] /\ ledger'[r] = ledger[r]

LEMMA OthersAreLeft ==
  ASSUME TypeOK, CurrentIsThere, NEW p \in Consumers, NEW r \in Consumers, r # p,
         Consumer(p) \/ CrashConsumer(p) \/ \E m \in Modes : Start(p, m)
  PROVE  IsLeft(r)
  <1>1. pc'[r] = pc[r]
    <2>1. \A place : Goto(p, place) => pc'[r] = pc[r]
      BY DEF Goto, TypeOK
    <2> QED
      BY <2>1 DEF Consumer, Start, StartConsumer, Assign, Poll, Count, Handle, HandleRefused, HandleTakenKey,
         DeadLetter, RequestCommit, CommitLands, CommitLost, Finish, Fail, CrashConsumer, Leave
  <1>2. mode'[r] = mode[r] /\ position'[r] = position[r]
    BY DEF Consumer, Start, StartConsumer, Assign, Poll, Count, Handle, HandleRefused, HandleTakenKey,
       DeadLetter, RequestCommit, CommitLands, CommitLost, Finish, Fail, CrashConsumer, Leave,
       consumer, TypeOK
  <1>3. current'[r] = current[r] /\ requested'[r] = requested[r]
    <2>1. current'[r] = current[r]
      BY DEF Consumer, Start, StartConsumer, Assign, Poll, Count, Handle, HandleRefused, HandleTakenKey,
         DeadLetter, RequestCommit, CommitLands, CommitLost, Finish, Fail, CrashConsumer, Leave,
         consumer, TypeOK
    <2>2. requested'[r] = requested[r]
      BY DEF Consumer, Start, StartConsumer, Assign, Poll, Count, Handle, HandleRefused, HandleTakenKey,
         DeadLetter, RequestCommit, CommitLands, CommitLost, Finish, Fail, CrashConsumer, Leave,
         consumer, TypeOK
    <2> QED
      BY <2>1, <2>2
  <1>4. written'[r] = written[r]
    BY DEF Consumer, Start, StartConsumer, Assign, Poll, Count, Handle, HandleRefused, HandleTakenKey,
       DeadLetter, RequestCommit, CommitLands, CommitLost, Finish, Fail, CrashConsumer, Leave,
       consumer, TypeOK
  <1>5. ledger'[r] = ledger[r]
    <2>1. ASSUME NEW l, ledger' = [ledger EXCEPT ![p] = l]
          PROVE  ledger'[r] = ledger[r]
      BY <2>1 DEF TypeOK
    <2> QED
      BY <2>1 DEF Consumer, Start, StartConsumer, Assign, Poll, Count, Handle, HandleRefused, HandleTakenKey,
         DeadLetter, Record, RequestCommit, CommitLands, CommitLost, Finish, Fail,
         CrashConsumer, Leave, consumer
  <1> QED
    BY <1>1, <1>2, <1>3, <1>4, <1>5 DEF IsLeft

LEMMA PublishersLeave ==
  ASSUME TypeOK, NEW r \in Consumers,
         \/ \E q \in Publishers : Publisher(q)
         \/ \E m \in Foreign : PublishForeign(m)
         \/ UNCHANGED vars
  PROVE  IsLeft(r) /\ committed' = committed /\ written' = written /\ disposed' = disposed
         /\ events' = events
  <1>1. ASSUME NEW q \in Publishers, Publisher(q)
        PROVE  pc'[r] = pc[r] /\ UNCHANGED <<committed, store, consumer>>
    <2>1. q # r
      OBVIOUS
    <2>2. \A place : Goto(q, place) => pc'[r] = pc[r]
      BY <2>1 DEF Goto, TypeOK
    <2> QED
      BY <1>1, <2>2 DEF Publisher, StartPublisher, PublishInvalid, PublishKilled, Publish,
         FinishPublisher, CrashPublisher, kafka
  <1> QED
    BY <1>1 DEF PublishForeign, vars, kafka, consumer, store, IsLeft

LEMMA OneStays ==
  ASSUME TypeOK, CurrentIsThere, [Next]_vars, NEW r \in Consumers, IsLeft(r), CoversOfOne(r)
  PROVE  CoversOfOne(r)'
  <1>1. /\ requested[r] \in Nat /\ position[r] \in Nat /\ current[r] \in Nat
        /\ pc[r] \in {"handling", "deadlettering", "committing"} => current[r] \in Offsets
    <2>1. requested[r] \in Nat /\ position[r] \in Nat /\ current[r] \in Nat
      BY DEF TypeOK
    <2> QED
      BY <2>1, MessageType
  <1>2. /\ Covers(requested[r]) => Covers(requested[r])'
        /\ Covers(position[r]) => Covers(position[r])'
        /\ Covers(current[r]) => Covers(current[r])'
    <2>1. \A n \in Nat : Covers(n) => \A o \in Offsets : o < n => Done(o)'
      BY DoneStays DEF Covers
    <2> QED
      BY <1>1, <2>1 DEF Covers, IsLeft
  <1>3. /\ pc[r] = "committing" => (Done(current[r]) => Done(current[r])')
        /\ pc[r] = "deadlettering" => (disposed[current[r]] # {} => disposed'[current[r]] # {})
    <2>1. \A o \in Offsets : (Done(o) => Done(o)') /\ disposed[o] \subseteq disposed'[o]
      BY DoneStays, Grows
    <2>2. ASSUME pc[r] = "committing", Done(current[r])
          PROVE  Done(current[r])'
      <3>1. current[r] \in Offsets /\ current'[r] = current[r]
        BY <1>1, <2>2 DEF IsLeft
      <3> QED
        BY <2>1, <2>2, <3>1 DEF Done, Invalid, InDlq
    <2> QED
      BY <1>1, <2>1, <2>2
  <1> QED
    BY <1>2, <1>3 DEF CoversOfOne, IsLeft

CoversNext(n) == \A o \in Offsets : o < n => Done(o)'

LEMMA CoversStep ==
  ASSUME TypeOK, CurrentIsThere, IdleIsFresh, GroupsAreApart, OffsetsCoverDone, [Next]_vars
  PROVE  OffsetsCoverDone'
  <1>0. /\ \A n \in Nat : Covers(n) => CoversNext(n)
        /\ \A o \in Offsets : Done(o) => Done(o)'
    BY DoneStays DEF Covers, CoversNext
  <1>1. CoversNext(committed'[DefaultGroup])
    <2>1. committed[DefaultGroup] \in Nat /\ Covers(committed[DefaultGroup])
      BY DEF TypeOK, OffsetsCoverDone
    <2>2. ASSUME NEW p \in Consumers, CommitLands(p)
          PROVE  CoversNext(committed'[DefaultGroup])
      <3>1. committed' = [committed EXCEPT ![Group(p)] = requested[p]]
        BY <2>2 DEF CommitLands
      <3>2. CASE Group(p) = DefaultGroup
        <4>1. committed'[DefaultGroup] = requested[p] /\ requested[p] \in Nat
          BY <3>1, <3>2 DEF TypeOK
        <4>2. Covers(requested[p])
          BY <3>2 DEF OffsetsCoverDone, CoversOfOne
        <4> QED
          BY <1>0, <4>1, <4>2
      <3>3. CASE Group(p) # DefaultGroup
        BY <1>0, <2>1, <3>1, <3>3 DEF TypeOK
      <3> QED
        BY <3>2, <3>3
    <2>3. CASE committed' = committed
      BY <1>0, <2>1, <2>3
    <2>4. CASE \/ \E q \in Publishers : Publisher(q)
               \/ \E m \in Foreign : PublishForeign(m)
               \/ UNCHANGED vars
      <3>1. committed' = committed
        BY <2>4 DEF Publisher, StartPublisher, PublishInvalid, PublishKilled, Publish,
           FinishPublisher, CrashPublisher, PublishForeign, kafka, vars
      <3> QED
        BY <2>3, <3>1
    <2>5. CASE \E p \in Consumers, m \in Modes : Start(p, m)
      <3>1. committed' = committed
        BY <2>5 DEF Start, StartConsumer, kafka
      <3> QED
        BY <2>3, <3>1
    <2>6. ASSUME NEW p \in Consumers, Consumer(p) \/ CrashConsumer(p), ~CommitLands(p)
          PROVE  committed' = committed
      BY <2>6 DEF Consumer, Assign, Poll, Count, Handle, HandleRefused, HandleTakenKey, DeadLetter,
         RequestCommit, CommitLost, Finish, Fail, CrashConsumer, Leave, kafka
    <2> QED
      BY <2>2, <2>3, <2>4, <2>5, <2>6 DEF Next
  <1>2. ASSUME NEW r \in Consumers, IsLeft(r), Group(r)' = DefaultGroup
        PROVE  CoversOfOne(r)'
    <2>1. Group(r) = DefaultGroup
      BY <1>2 DEF Group, IsLeft
    <2> QED
      BY <1>2, <2>1, OneStays DEF OffsetsCoverDone
  <1>3. ASSUME NEW r \in Consumers, Group(r)' = DefaultGroup,
               Consumer(r) \/ CrashConsumer(r) \/ \E m \in Modes : Start(r, m)
        PROVE  CoversOfOne(r)'
    <2>0. /\ position[r] \in Nat /\ current[r] \in Nat /\ requested[r] \in Nat
          /\ r \in Publishers \union Consumers
          /\ {"idle", "polling", "handling", "deadlettering", "committing", "failing"} \subseteq Places
          /\ CoversNext(0)
      BY DEF TypeOK, Places, Consuming, CoversNext, Offsets
    <2>1. SUFFICES /\ CoversNext(requested'[r])
                   /\ pc'[r] \in {"handling", "deadlettering", "committing"} => CoversNext(current'[r])
                   /\ pc'[r] = "deadlettering" => disposed'[current'[r]] # {}
                   /\ pc'[r] = "committing" => Done(current[r])' /\ current'[r] = current[r]
                   /\ \/ CoversNext(position'[r])
                      \/ /\ pc'[r] \in {"handling", "deadlettering", "failing"}
                         /\ position'[r] = current'[r] + 1
      BY DEF CoversOfOne, Covers, CoversNext, Done, Invalid, InDlq
    <2>2. CASE \E m \in Modes : Start(r, m)
      <3>1. PICK m \in Modes, from \in 0 .. MaxLog, to \in 0 .. MaxLog : StartConsumer(r, m, from, to)
        BY <2>2 DEF Start
      <3>2. mode'[r] = m /\ position'[r] = from /\ pc'[r] = "polling" /\ requested'[r] = requested[r]
        BY <2>0, <3>1, GotoType DEF StartConsumer, TypeOK
      <3>3. m = "subscribe"
        BY <1>3, <3>1, <3>2 DEF Group, GroupsAreApart, StartConsumer, Modes
      <3>4. from = 0
        BY <3>1, <3>3 DEF StartConsumer
      <3>5. Group(r) = DefaultGroup
        BY <1>3, <3>1, <3>2, <3>3 DEF Group, IdleIsFresh, StartConsumer
      <3>6. CoversNext(requested[r])
        BY <1>0, <2>0, <3>5 DEF OffsetsCoverDone, CoversOfOne
      <3> QED
        BY <2>0, <3>2, <3>4, <3>6
    <2>3. CASE ~(\E m \in Modes : Start(r, m))
      <3>1. CASE Finish(r) \/ Fail(r) \/ CrashConsumer(r)
        <4>1. Leave(r)
          BY <3>1 DEF Finish, Fail, CrashConsumer
        <4>2. requested'[r] = 0 /\ position'[r] = 0 /\ pc'[r] = "idle"
          BY <2>0, <4>1, GotoType DEF Leave, TypeOK
        <4> QED
          BY <2>0, <4>2
      <3>2. CASE ~(Finish(r) \/ Fail(r) \/ CrashConsumer(r))
        <4>0. Consumer(r)
          BY <1>3, <2>3, <3>2
        <4>1. mode' = mode
          BY <3>2, <4>0 DEF Consumer, Assign, Poll, Count, Handle, HandleRefused, HandleTakenKey,
             DeadLetter, RequestCommit, CommitLands, CommitLost, consumer
        <4>2. Group(r) = DefaultGroup
          BY <1>3, <4>1 DEF Group
        <4>3. CoversOfOne(r)
          BY <4>2 DEF OffsetsCoverDone
        <4>4. /\ CoversNext(requested[r])
              /\ pc[r] \in {"handling", "deadlettering", "committing"} => CoversNext(current[r])
              /\ Covers(position[r]) => CoversNext(position[r])
          BY <1>0, <2>0, <4>3 DEF CoversOfOne
        <4>5. CASE Assign(r)
          <5>1. /\ position'[r] = committed[DefaultGroup] /\ requested'[r] = 0
                /\ pc' = pc /\ current' = current /\ disposed' = disposed
            BY <4>2, <4>5 DEF Assign, TypeOK, store
          <5>2. CoversNext(committed[DefaultGroup])
            BY <1>0 DEF TypeOK, OffsetsCoverDone
          <5>3. pc[r] = "committing" => Done(current[r])'
            <6> SUFFICES ASSUME pc[r] = "committing" PROVE Done(current[r])'
              OBVIOUS
            <6>1. current[r] \in Offsets /\ Done(current[r]) /\ current' = current
              BY <4>3, <5>1, MessageType DEF CoversOfOne
            <6> QED
              BY <1>0, <6>1 DEF Done, Invalid, InDlq
          <5> QED
            BY <2>0, <4>3, <4>4, <5>1, <5>2, <5>3 DEF CoversOfOne
        <4>6. CASE Poll(r)
          <5>1. /\ pc[r] = "polling" /\ pc'[r] = "handling" /\ requested' = requested
                /\ current'[r] = position[r] /\ position'[r] = position[r] + 1
            BY <2>0, <4>6, GotoType DEF Poll, TypeOK
          <5>2. Covers(position[r])
            BY <4>3, <5>1 DEF CoversOfOne
          <5> QED
            BY <4>4, <5>1, <5>2
        <4>7. CASE Count(r)
          BY <4>2, <4>7 DEF Count, Group, GroupsAreApart, IdleIsFresh
        <4>8. CASE Handle(r)
          <5>0. pc[r] = "handling" /\ Covers(current[r])
            BY <4>3, <4>8 DEF Handle, CoversOfOne
          <5>1. /\ current[r] \in Offsets /\ current[r] < Len(log)
                /\ MessageOf(r) = log[current[r] + 1]
            BY <5>0, MessageType DEF CurrentIsThere
          <5>2. /\ position' = position /\ current' = current /\ requested' = requested /\ log' = log
            BY <4>8 DEF Handle, kafka
          <5>3. disposed'[current[r]] # {}
            BY <4>8, <5>1 DEF Handle, TypeOK
          <5>4. CASE DispositionFor(r) = "schema_invalid"
            <6>1. pc'[r] = "deadlettering"
              BY <2>0, <4>8, <5>4, GotoType DEF Handle
            <6>2. Covers(position[r]) \/ position[r] = current[r] + 1
              BY <4>3 DEF CoversOfOne
            <6> QED
              BY <4>4, <5>0, <5>2, <5>3, <6>1, <6>2
          <5>5. CASE DispositionFor(r) = "identity_conflict"
            <6>1. pc'[r] = "failing"
              BY <2>0, <4>8, <5>5, GotoType DEF Handle
            <6>2. Covers(position[r]) \/ position[r] = current[r] + 1
              BY <4>3 DEF CoversOfOne
            <6> QED
              BY <4>4, <5>2, <6>1, <6>2
          <5>6. CASE DispositionFor(r) \notin {"schema_invalid", "identity_conflict"}
            <6>1. pc'[r] = "committing"
              BY <2>0, <4>8, <5>6, GotoType DEF Handle
            <6>2. ~Invalid(current[r])
              BY <5>1, <5>6, DispositionMeaning DEF Invalid
            <6>3. Done(current[r])'
              BY <5>1, <5>2, <5>3, <6>2 DEF Done, Invalid
            <6>4. CoversNext(current[r] + 1)
              <7>1. \A o \in Offsets : o < current[r] + 1 => o < current[r] \/ o = current[r]
                BY <5>1 DEF Offsets
              <7>2. \A o \in Offsets : o = current[r] => Done(o)'
                BY <5>2, <6>3 DEF Done, Invalid, InDlq
              <7> QED
                BY <4>4, <5>0, <7>1, <7>2 DEF CoversNext
            <6>5. Covers(position[r]) \/ position[r] = current[r] + 1
              BY <4>3 DEF CoversOfOne
            <6> QED
              BY <4>4, <5>0, <5>2, <6>1, <6>3, <6>4, <6>5
          <5> QED
            BY <5>4, <5>5, <5>6
        <4>9. CASE HandleRefused(r) \/ HandleTakenKey(r)
          <5>1. pc[r] = "handling" /\ pc'[r] = "failing" /\ UNCHANGED consumer
            BY <2>0, <4>9, GotoType DEF HandleRefused, HandleTakenKey
          <5>2. Covers(position[r]) \/ position[r] = current[r] + 1
            BY <4>3 DEF CoversOfOne
          <5> QED
            BY <4>4, <5>1, <5>2 DEF consumer
        <4>10. CASE DeadLetter(r)
          <5>0. pc[r] = "deadlettering" /\ Covers(current[r]) /\ disposed[current[r]] # {}
            BY <4>3, <4>10 DEF DeadLetter, CoversOfOne
          <5>1. current[r] \in Offsets /\ current[r] < Len(log)
            BY <5>0, MessageType DEF CurrentIsThere
          <5>2. /\ pc'[r] = "committing" /\ position' = position /\ current' = current
                /\ requested' = requested /\ log' = log /\ disposed' = disposed
                /\ InDlq(current[r])'
            BY <2>0, <4>10, GotoType DEF DeadLetter, store, InDlq
          <5>3. Done(current[r])'
            BY <5>0, <5>1, <5>2 DEF Done
          <5>4. CoversNext(current[r] + 1)
            <6>1. \A o \in Offsets : o < current[r] + 1 => o < current[r] \/ o = current[r]
              BY <5>1 DEF Offsets
            <6>2. \A o \in Offsets : o = current[r] => Done(o)'
              BY <5>2, <5>3 DEF Done, Invalid, InDlq
            <6> QED
              BY <4>4, <5>0, <6>1, <6>2 DEF CoversNext
          <5>5. Covers(position[r]) \/ position[r] = current[r] + 1
            BY <4>3 DEF CoversOfOne
          <5> QED
            BY <4>4, <5>0, <5>2, <5>3, <5>4, <5>5
        <4>11. CASE RequestCommit(r)
          <5>0. pc[r] = "committing" /\ Covers(current[r]) /\ Done(current[r]) /\ Covers(position[r])
            BY <4>3, <4>11 DEF RequestCommit, CoversOfOne
          <5>1. current[r] \in Offsets
            BY <5>0, MessageType
          <5>2. /\ pc'[r] = "polling" /\ position' = position /\ current' = current
                /\ requested'[r] = current[r] + 1
            BY <2>0, <4>11, GotoType DEF RequestCommit, TypeOK
          <5>3. Covers(current[r] + 1)
            BY <5>0, <5>1, CoversOneMore
          <5> QED
            BY <1>0, <2>0, <4>4, <5>0, <5>2, <5>3
        <4>12. CASE CommitLands(r) \/ CommitLost(r)
          <5>1. /\ requested'[r] = 0 /\ pc' = pc /\ position' = position /\ current' = current
                /\ disposed' = disposed
            BY <4>12 DEF CommitLands, CommitLost, TypeOK, store
          <5>2. pc[r] = "committing" => Done(current[r])'
            <6> SUFFICES ASSUME pc[r] = "committing" PROVE Done(current[r])'
              OBVIOUS
            <6>1. current[r] \in Offsets /\ Done(current[r]) /\ current' = current
              BY <4>3, <5>1, MessageType DEF CoversOfOne
            <6> QED
              BY <1>0, <6>1 DEF Done, Invalid, InDlq
          <5> QED
            BY <2>0, <4>3, <4>4, <5>1, <5>2 DEF CoversOfOne
        <4> QED
          BY <3>2, <4>0, <4>5, <4>6, <4>7, <4>8, <4>9, <4>10, <4>11, <4>12 DEF Consumer
      <3> QED
        BY <3>1, <3>2
    <2> QED
      BY <2>2, <2>3
  <1>4. ASSUME NEW r \in Consumers, Group(r)' = DefaultGroup
        PROVE  CoversOfOne(r)'
    <2>1. CASE \E p \in Consumers : Consumer(p) \/ CrashConsumer(p) \/ \E m \in Modes : Start(p, m)
      BY <1>2, <1>3, <1>4, <2>1, OthersAreLeft
    <2>2. CASE \/ \E q \in Publishers : Publisher(q)
               \/ \E m \in Foreign : PublishForeign(m)
               \/ UNCHANGED vars
      BY <1>2, <1>4, <2>2, PublishersLeave
    <2> QED
      BY <2>1, <2>2 DEF Next
  <1> QED
    BY <1>1, <1>4 DEF OffsetsCoverDone, Covers, CoversNext

LEMMA IdleStep ==
  ASSUME TypeOK, CurrentIsThere, IdleIsFresh, [Next]_vars
  PROVE  IdleIsFresh'
  <1> SUFFICES ASSUME NEW r \in Consumers
               PROVE  /\ mode'[r] \in ModesOf[r] \union {"subscribe"}
                      /\ pc'[r] = "idle" => /\ mode'[r] = "subscribe"
                                            /\ ledger'[r] = EmptyLedger
                                            /\ written'[r] = NothingWritten
    BY DEF IdleIsFresh
  <1>1. CASE IsLeft(r)
    BY <1>1 DEF IsLeft, IdleIsFresh
  <1>2. CASE \E m \in Modes : Start(r, m)
    <2>1. PICK m \in Modes, from \in 0 .. MaxLog, to \in 0 .. MaxLog : StartConsumer(r, m, from, to)
      BY <1>2 DEF Start
    <2>2. mode'[r] = m /\ m \in ModesOf[r]
      BY <2>1 DEF StartConsumer, TypeOK
    <2>3. pc'[r] = "polling"
      BY <2>1 DEF StartConsumer, Goto, TypeOK
    <2> QED
      BY <2>2, <2>3
  <1>3. CASE Finish(r) \/ Fail(r) \/ CrashConsumer(r)
    <2>1. Leave(r)
      BY <1>3 DEF Finish, Fail, CrashConsumer
    <2> QED
      BY <2>1 DEF Leave, TypeOK
  <1>4. CASE Consumer(r) /\ ~(Finish(r) \/ Fail(r))
    <2>1. mode' = mode
      BY <1>4 DEF Consumer, Assign, Poll, Count, Handle, HandleRefused, HandleTakenKey, DeadLetter,
         RequestCommit, CommitLands, CommitLost, consumer
    <2>2. \/ UNCHANGED <<pc, ledger, written>>
          \/ \E place \in {"polling", "handling", "deadlettering", "committing", "failing"} : Goto(r, place)
          \/ pc'[r] = "polling"
      BY <1>4 DEF Consumer, Assign, Poll, Count, Handle, HandleRefused, HandleTakenKey, DeadLetter,
         RequestCommit, CommitLands, CommitLost
    <2>3. UNCHANGED <<pc, ledger, written>> \/ pc'[r] # "idle"
      BY <2>2 DEF Goto, TypeOK
    <2> QED
      BY <2>1, <2>3 DEF IdleIsFresh
  <1> QED
    <2>1. CASE \E p \in Consumers : Consumer(p) \/ CrashConsumer(p) \/ \E m \in Modes : Start(p, m)
      BY <1>1, <1>2, <1>3, <1>4, <2>1, OthersAreLeft
    <2>2. CASE \/ \E q \in Publishers : Publisher(q)
               \/ \E m \in Foreign : PublishForeign(m)
               \/ UNCHANGED vars
      BY <1>1, <2>2, PublishersLeave
    <2> QED
      BY <2>1, <2>2 DEF Next
-----------------------------------------------------------------------------
(* Replay is safe.                                                         *)

(* What a row says was true of the store when it was written, and still is *)
(* as nothing is taken back.                                               *)
RowsAgree ==
  \A o \in Offsets : \A d \in disposed[o] :
    /\ o < Len(log)
    /\ d \in {"schema_invalid", "missing_source_run_id"} <=>
         Verdict[log[o + 1].content] = "unvalidated"
    /\ d = "schema_invalid" => log[o + 1].run # NoRun
    /\ d = "identity_conflict" => Verdict[log[o + 1].content] = "rejected"
    /\ d \notin {"schema_invalid", "missing_source_run_id", "identity_conflict"} =>
         events[log[o + 1].event] # None
    /\ d = "accepted" => events[log[o + 1].event] = log[o + 1].content

(* A row is only ever added for the message in a consumer's hands.         *)
LEMMA RowsAreAdded ==
  ASSUME TypeOK, CurrentIsThere, [Next]_vars, NEW o \in Offsets, disposed'[o] # disposed[o]
  PROVE  \E p \in Consumers :
           /\ o < Len(log) /\ MessageOf(p) = log[o + 1] /\ log' = log
           /\ log[o + 1].content \in Contents
           /\ disposed'[o] = disposed[o] \union {DispositionFor(p)}
           /\ DispositionFor(p) = "accepted" =>
                events'[log[o + 1].event] = log[o + 1].content
  <1>1. ASSUME NEW p \in Consumers, Handle(p)
        PROVE  /\ o < Len(log) /\ MessageOf(p) = log[o + 1] /\ log' = log
               /\ log[o + 1].content \in Contents
               /\ disposed'[o] = disposed[o] \union {DispositionFor(p)}
               /\ DispositionFor(p) = "accepted" =>
                    events'[log[o + 1].event] = log[o + 1].content
    <2>1. /\ current[p] \in Offsets /\ current[p] < Len(log) /\ MessageOf(p).event \in Events
          /\ MessageOf(p) = log[current[p] + 1] /\ MessageOf(p).content \in Contents
      BY <1>1, MessageType DEF Handle, CurrentIsThere
    <2>2. disposed' = [disposed EXCEPT ![current[p]] = disposed[current[p]] \union {DispositionFor(p)}]
      BY <1>1 DEF Handle
    <2>3. o = current[p] /\ disposed'[o] = disposed[o] \union {DispositionFor(p)}
      BY <2>1, <2>2 DEF TypeOK
    <2>4. DispositionFor(p) = "accepted" => events'[MessageOf(p).event] = MessageOf(p).content
      BY <1>1, <2>1 DEF Handle, TypeOK
    <2> QED
      BY <1>1, <2>1, <2>3, <2>4 DEF Handle, kafka
  <1>2. CASE UNCHANGED disposed
    BY <1>2
  <1>3. CASE \/ \E q \in Publishers : Publisher(q)
             \/ \E m \in Foreign : PublishForeign(m)
             \/ UNCHANGED vars
    <2>1. UNCHANGED disposed
      BY <1>3 DEF Publisher, StartPublisher, PublishInvalid, PublishKilled, Publish,
         FinishPublisher, CrashPublisher, PublishForeign, store, vars
    <2> QED
      BY <1>2, <2>1
  <1>4. CASE \E p \in Consumers, m \in Modes : Start(p, m)
    <2>1. UNCHANGED disposed
      BY <1>4 DEF Start, StartConsumer, store
    <2> QED
      BY <1>2, <2>1
  <1>5. ASSUME NEW p \in Consumers, Consumer(p) \/ CrashConsumer(p), ~Handle(p)
        PROVE  UNCHANGED disposed
    BY <1>5 DEF Consumer, Assign, Poll, Count, HandleRefused, HandleTakenKey, DeadLetter, RequestCommit,
       CommitLands, CommitLost, Finish, Fail, CrashConsumer, Leave, store
  <1>6. CASE \E p \in Consumers : Consumer(p) \/ CrashConsumer(p)
    <2>1. PICK p \in Consumers : Handle(p)
      BY <1>2, <1>5, <1>6
    <2> QED
      BY <1>1, <2>1
  <1> QED
    BY <1>3, <1>4, <1>6 DEF Next

LEMMA RowsStep ==
  ASSUME TypeOK, CurrentIsThere, RowsAgree, ReplaysAreDuplicates, [Next]_vars
  PROVE  RowsAgree' /\ ReplaysAreDuplicates'
  <1>0. TypeOK' /\ Len(log) \in Nat /\ Len(log') \in Nat
    <2>1. TypeOK'
      BY TypeStep
    <2>2. log \in Seq(Messages) /\ log' \in Seq(Messages)
      BY <2>1 DEF TypeOK
    <2> QED
      BY <2>1, <2>2
  <1> SUFFICES ASSUME NEW o \in Offsets
               PROVE  /\ \A d \in disposed'[o] :
                           /\ o < Len(log')
                           /\ d \in {"schema_invalid", "missing_source_run_id"} <=>
                                Verdict[log'[o + 1].content] = "unvalidated"
                           /\ d = "schema_invalid" => log'[o + 1].run # NoRun
                           /\ d = "identity_conflict" => Verdict[log'[o + 1].content] = "rejected"
                           /\ d \notin {"schema_invalid", "missing_source_run_id", "identity_conflict"} =>
                                events'[log'[o + 1].event] # None
                           /\ d = "accepted" => events'[log'[o + 1].event] = log'[o + 1].content
                      /\ "accepted" \in disposed'[o] => disposed'[o] \subseteq {"accepted", "duplicate"}
    BY DEF RowsAgree, ReplaysAreDuplicates
  <1>1. ASSUME o < Len(log)
        PROVE  /\ o < Len(log') /\ log'[o + 1] = log[o + 1]
               /\ log[o + 1].event \in Events
               /\ events[log[o + 1].event] # None =>
                    events'[log[o + 1].event] = events[log[o + 1].event]
    <2>1. o \in 0 .. Len(log) - 1 /\ o + 1 \in 1 .. Len(log)
      BY <1>0, <1>1 DEF Offsets
    <2>2. log[o + 1] \in Messages
      BY <2>1 DEF TypeOK
    <2>3. o < Len(log') /\ log'[o + 1] = log[o + 1]
      BY <1>0, <2>1, Grows
    <2> QED
      BY <2>2, <2>3, Grows DEF Messages
  <1> DEFINE m == log[o + 1]
  <1>2. \A d \in disposed[o] :
          /\ o < Len(log)
          /\ d \in {"schema_invalid", "missing_source_run_id"} <=> Verdict[m.content] = "unvalidated"
          /\ d = "schema_invalid" => m.run # NoRun
          /\ d = "identity_conflict" => Verdict[m.content] = "rejected"
          /\ d \notin {"schema_invalid", "missing_source_run_id", "identity_conflict"} =>
               events[m.event] # None
          /\ d = "accepted" => events[m.event] = m.content
    BY DEF RowsAgree
  <1>3. "accepted" \in disposed[o] => disposed[o] \subseteq {"accepted", "duplicate"}
    BY DEF ReplaysAreDuplicates
  <1> HIDE DEF m
  <1>4. ASSUME NEW d \in disposed[o]
        PROVE  /\ o < Len(log') /\ log'[o + 1] = m
               /\ d \in {"schema_invalid", "missing_source_run_id"} <=> Verdict[m.content] = "unvalidated"
               /\ d = "schema_invalid" => m.run # NoRun
               /\ d = "identity_conflict" => Verdict[m.content] = "rejected"
               /\ d \notin {"schema_invalid", "missing_source_run_id", "identity_conflict"} =>
                    events'[m.event] # None
               /\ d = "accepted" => events'[m.event] = m.content
    <2>1. /\ o < Len(log') /\ log'[o + 1] = m
          /\ events[m.event] # None => events'[m.event] = events[m.event]
      BY <1>1, <1>2, <1>4 DEF m
    <2> QED
      BY <1>2, <2>1
  <1>5. CASE disposed'[o] = disposed[o]
    BY <1>3, <1>4, <1>5
  <1>6. CASE disposed'[o] # disposed[o]
    <2>1. PICK p \in Consumers :
            /\ o < Len(log) /\ MessageOf(p) = m /\ log' = log /\ m.content \in Contents
            /\ disposed'[o] = disposed[o] \union {DispositionFor(p)}
            /\ DispositionFor(p) = "accepted" => events'[m.event] = m.content
      BY <1>6, RowsAreAdded DEF m
    <2> DEFINE d == DispositionFor(p)
    <2>2. /\ Verdict[m.content] = "unvalidated" =>
               d = IF m.run = NoRun THEN "missing_source_run_id" ELSE "schema_invalid"
          /\ Verdict[m.content] # "unvalidated" =>
               /\ d \notin {"schema_invalid", "missing_source_run_id"}
               /\ d = "accepted" => events[m.event] = None /\ Verdict[m.content] # "rejected"
               /\ d = "identity_conflict" => Verdict[m.content] = "rejected"
               /\ d \notin {"accepted", "identity_conflict"} => events[m.event] # None
               /\ m.content \in Contents /\ events[m.event] = m.content => d = "duplicate"
      BY <2>1, DispositionMeaning
    <2>3. /\ o < Len(log') /\ log'[o + 1] = m /\ m.content \in Contents /\ m.content # None
          /\ events[m.event] # None => events'[m.event] = events[m.event]
      BY <1>1, <2>1 DEF m
    <2>4. /\ disposed'[o] = disposed[o] \union {d}
          /\ d = "accepted" => events'[m.event] = m.content
      BY <2>1
    <2> HIDE DEF d
    <2>5. /\ d \in {"schema_invalid", "missing_source_run_id"} <=> Verdict[m.content] = "unvalidated"
          /\ d = "schema_invalid" => m.run # NoRun
          /\ d = "identity_conflict" => Verdict[m.content] = "rejected"
          /\ d \notin {"schema_invalid", "missing_source_run_id", "identity_conflict"} =>
               events'[m.event] # None
      BY <2>2, <2>3, <2>4
    <2>6. "accepted" \in disposed'[o] => disposed'[o] \subseteq {"accepted", "duplicate"}
      <3>1. CASE "accepted" \in disposed[o]
        <4>1. d = "duplicate"
          BY <1>2, <2>2, <2>3, <3>1
        <4> QED
          BY <1>3, <2>4, <3>1, <4>1
      <3>2. CASE d = "accepted"
        <4>1. events[m.event] = None /\ Verdict[m.content] \notin {"unvalidated", "rejected"}
          BY <2>2, <3>2
        <4>2. disposed[o] = {}
          BY <1>2, <4>1
        <4> QED
          BY <2>4, <3>2, <4>2
      <3> QED
        BY <2>4, <3>1, <3>2
    <2> QED
      BY <1>4, <2>3, <2>4, <2>5, <2>6
  <1> QED
    BY <1>5, <1>6
-----------------------------------------------------------------------------
(* The summary tells the truth.                                            *)

Counted(p, s) == {o \in Offsets : written[p][o] # "none" /\ StatusOf(written[p][o]) = s}
Sum(l) == l["accepted"] + l["quarantined"] + l["duplicate"]

(* What the ledger lacks of the rows, while it is being brought up to date. *)
LedgerOfOne(p) ==
  mode[p] # "count" =>
    /\ pc[p] \in {"idle", "polling", "handling", "committing"} =>
         \A s \in Statuses : Cardinality(Counted(p, s)) = ledger[p][s]
    /\ pc[p] = "deadlettering" =>
         \A s \in Statuses :
           Cardinality(Counted(p, s)) = IF s = "quarantined" THEN ledger[p][s] + 1 ELSE ledger[p][s]
    /\ pc[p] \in {"idle", "polling", "committing"} => ledger[p]["received"] = Sum(ledger[p])
    /\ pc[p] \in {"handling", "deadlettering"} => ledger[p]["received"] = Sum(ledger[p]) + 1

LedgersFollowRows == \A p \in Consumers : LedgerOfOne(p)

LEMMA CountedFinite ==
  ASSUME NEW p, NEW s
  PROVE  IsFiniteSet(Counted(p, s)) /\ Cardinality(Counted(p, s)) \in Nat
  <1>1. IsFiniteSet(Offsets)
    BY FS_Interval DEF Offsets
  <1>2. Counted(p, s) \subseteq Offsets
    BY DEF Counted
  <1> QED
    BY <1>1, <1>2, FS_Subset, FS_CardinalityType

(* A fresh consumer has an empty ledger and no rows.                       *)
LEMMA FreshLedger ==
  ASSUME TypeOK', NEW r \in Consumers, ledger'[r] = EmptyLedger, written'[r] = NothingWritten
  PROVE  /\ \A s \in Statuses : Cardinality(Counted(r, s)') = ledger'[r][s]
         /\ ledger'[r]["received"] = Sum(ledger'[r])
  <1>1. \A s \in Statuses : EmptyLedger[s] = 0
    BY DEF EmptyLedger, Statuses
  <1>2. EmptyLedger["received"] = 0 /\ Sum(EmptyLedger) = 0
    BY DEF EmptyLedger, Sum
  <1>3. \A s : Counted(r, s)' = {}
    BY DEF Counted, NothingWritten
  <1> QED
    BY <1>1, <1>2, <1>3, FS_EmptySet

LEMMA SumGrows ==
  ASSUME NEW l, NEW m, NEW t \in Statuses,
         l["accepted"] \in Nat, l["quarantined"] \in Nat, l["duplicate"] \in Nat,
         \A s \in Statuses : m[s] = IF s = t THEN l[s] + 1 ELSE l[s]
  PROVE  Sum(m) = Sum(l) + 1
  <1>1. /\ Sum(l) = l["accepted"] + l["quarantined"] + l["duplicate"]
        /\ Sum(m) = m["accepted"] + m["quarantined"] + m["duplicate"]
    BY DEF Sum
  <1>2. t = "accepted" \/ t = "quarantined" \/ t = "duplicate"
    BY DEF Statuses
  <1> DEFINE
    a == l["accepted"]
    q == l["quarantined"]
    d == l["duplicate"]
    aNext == m["accepted"]
    qNext == m["quarantined"]
    dNext == m["duplicate"]
  <1>3. \/ aNext = a + 1 /\ qNext = q /\ dNext = d
        \/ aNext = a /\ qNext = q + 1 /\ dNext = d
        \/ aNext = a /\ qNext = q /\ dNext = d + 1
    <2>1. CASE t = "accepted"
      BY <2>1 DEF Statuses
    <2>2. CASE t = "quarantined"
      BY <2>2 DEF Statuses
    <2>3. CASE t = "duplicate"
      BY <2>3 DEF Statuses
    <2> QED
      BY <1>2, <2>1, <2>2, <2>3
  <1>4. a \in Nat /\ q \in Nat /\ d \in Nat /\ Sum(l) = a + q + d /\ Sum(m) = aNext + qNext + dNext
    BY <1>1
  <1> HIDE DEF a, q, d, aNext, qNext, dNext
  <1> QED
    BY <1>3, <1>4

(* A new row is counted under its status.                                  *)
LEMMA CountedGrows ==
  ASSUME TypeOK, NEW r \in Consumers, NEW o \in Offsets, NEW d \in Dispositions \ {"none"},
         written[r][o] = "none",
         written' = [written EXCEPT ![r] = [written[r] EXCEPT ![o] = d]]
  PROVE  \A s \in Statuses : Cardinality(Counted(r, s)') =
           IF s = StatusOf(d) THEN Cardinality(Counted(r, s)) + 1 ELSE Cardinality(Counted(r, s))
  <1>1. /\ written'[r][o] = d
        /\ \A i \in Offsets : i # o => written'[r][i] = written[r][i]
    BY DEF TypeOK
  <1>2. ASSUME NEW s \in Statuses, s = StatusOf(d)
        PROVE  Counted(r, s)' = Counted(r, s) \union {o} /\ o \notin Counted(r, s)
    BY <1>1, <1>2 DEF Counted
  <1>3. ASSUME NEW s \in Statuses, s # StatusOf(d)
        PROVE  Counted(r, s)' = Counted(r, s)
    BY <1>1, <1>3 DEF Counted
  <1> TAKE s \in Statuses
  <1>4. CASE s = StatusOf(d)
    <2>1. Cardinality(Counted(r, s) \union {o}) = Cardinality(Counted(r, s)) + 1
      BY <1>2, <1>4, CountedFinite, FS_AddElement
    <2> QED
      BY <1>2, <1>4, <2>1
  <1>5. CASE s # StatusOf(d)
    BY <1>3, <1>5
  <1> QED
    BY <1>4, <1>5

LEMMA LedgerStep ==
  ASSUME TypeOK, CurrentIsThere, IdleIsFresh, LedgersFollowRows, [Next]_vars
  PROVE  LedgersFollowRows'
  <1>0. TypeOK'
    BY TypeStep
  <1> SUFFICES ASSUME NEW r \in Consumers
               PROVE  LedgerOfOne(r)'
    BY DEF LedgersFollowRows
  <1>1. LedgerOfOne(r)
    BY DEF LedgersFollowRows
  <1>2. ASSUME pc'[r] = pc[r], mode'[r] = mode[r], written'[r] = written[r], ledger'[r] = ledger[r]
        PROVE  LedgerOfOne(r)'
    <2>1. \A s : Counted(r, s)' = Counted(r, s)
      BY <1>2 DEF Counted
    <2> QED
      BY <1>1, <1>2, <2>1 DEF LedgerOfOne, Sum
  <1>3. ASSUME ledger'[r] = EmptyLedger, written'[r] = NothingWritten,
               pc'[r] \in {"idle", "polling"}
        PROVE  LedgerOfOne(r)'
    BY <1>0, <1>3, FreshLedger DEF LedgerOfOne, Sum
  <1>a. /\ ledger[r] \in [Fields -> Nat]
        /\ r \in Publishers \union Consumers
        /\ {"idle", "polling", "handling", "deadlettering", "committing", "failing"} \subseteq Places
    BY DEF TypeOK, Fields, Places, Consuming
  <1>b. /\ ledger[r]["received"] \in Nat /\ ledger[r]["accepted"] \in Nat
        /\ ledger[r]["quarantined"] \in Nat /\ ledger[r]["duplicate"] \in Nat
    BY <1>a DEF Fields, Statuses
  <1>4. CASE \E m \in Modes : Start(r, m)
    <2>1. PICK m \in Modes, from \in 0 .. MaxLog, to \in 0 .. MaxLog : StartConsumer(r, m, from, to)
      BY <1>4 DEF Start
    <2>2. /\ pc[r] = "idle" /\ pc'[r] = "polling" /\ ledger' = ledger /\ written' = written
      BY <1>a, <2>1, GotoType DEF StartConsumer
    <2> QED
      BY <1>3, <2>2 DEF IdleIsFresh
  <1>5. CASE Finish(r) \/ Fail(r) \/ CrashConsumer(r)
    <2>1. Leave(r)
      BY <1>5 DEF Finish, Fail, CrashConsumer
    <2>2. ledger'[r] = EmptyLedger /\ written'[r] = NothingWritten /\ pc'[r] = "idle"
      BY <2>1 DEF Leave, Goto, TypeOK
    <2> QED
      BY <1>3, <2>2
  <1>6. CASE Assign(r) \/ CommitLands(r) \/ CommitLost(r)
    BY <1>2, <1>6 DEF Assign, CommitLands, CommitLost
  <1>7. CASE Poll(r)
    <2>1. /\ pc[r] = "polling" /\ pc'[r] = "handling" /\ UNCHANGED <<written, mode>>
          /\ ledger' = [ledger EXCEPT ![r].received = @ + 1]
      BY <1>a, <1>7, GotoType DEF Poll
    <2>2. /\ ledger'[r]["received"] = ledger[r]["received"] + 1
          /\ \A s \in Statuses : ledger'[r][s] = ledger[r][s]
      BY <2>1, ReceivedCounts
    <2>3. Sum(ledger'[r]) = Sum(ledger[r]) /\ \A s : Counted(r, s)' = Counted(r, s)
      BY <2>1, <2>2 DEF Sum, Statuses, Counted
    <2> QED
      BY <1>1, <2>1, <2>2, <2>3 DEF LedgerOfOne
  <1>8. CASE Count(r)
    BY <1>8 DEF Count, LedgerOfOne
  <1>9. CASE Handle(r)
    <2> DEFINE d == DispositionFor(r)
    <2>0. /\ pc[r] = "handling" /\ written[r][current[r]] = "none" /\ mode' = mode
          /\ written' = [written EXCEPT ![r] = [written[r] EXCEPT ![current[r]] = d]]
      BY <1>9 DEF Handle, KeyIsTaken
    <2>1. current[r] \in Offsets /\ d \in Dispositions \ {"none"} /\ StatusOf(d) \in Statuses
      BY <2>0, MessageType
    <2>a. \A s \in Statuses : Cardinality(Counted(r, s)') =
            IF s = StatusOf(d) THEN Cardinality(Counted(r, s)) + 1 ELSE Cardinality(Counted(r, s))
      <3> HIDE DEF d
      <3> QED
        BY <2>0, <2>1, CountedGrows
    <2>2. CASE d = "schema_invalid"
      <3>1. pc'[r] = "deadlettering" /\ ledger' = ledger
        BY <1>a, <1>9, <2>2, GotoType DEF Handle
      <3>2. StatusOf(d) = "quarantined"
        BY <2>2 DEF StatusOf
      <3>3. \A s \in Statuses : Cardinality(Counted(r, s)') =
              IF s = "quarantined" THEN Cardinality(Counted(r, s)) + 1 ELSE Cardinality(Counted(r, s))
        BY <2>a, <3>2
      <3> QED
        BY <1>1, <2>0, <3>1, <3>3 DEF LedgerOfOne, Sum
    <2>3. CASE d = "identity_conflict"
      <3>1. pc'[r] = "failing"
        BY <1>a, <1>9, <2>3, GotoType DEF Handle
      <3> QED
        BY <3>1 DEF LedgerOfOne
    <2>4. CASE d \notin {"schema_invalid", "identity_conflict"}
      <3>1. pc'[r] = "committing" /\ Record(r, d)
        BY <1>a, <1>9, <2>4, GotoType DEF Handle
      <3>3. /\ ledger'[r]["received"] = ledger[r]["received"]
            /\ \A s \in Statuses :
                 ledger'[r][s] = IF s = StatusOf(d) THEN ledger[r][s] + 1 ELSE ledger[r][s]
        BY <2>1, <3>1, StatusCounts
      <3>4. Sum(ledger'[r]) = Sum(ledger[r]) + 1
        BY <1>b, <2>1, <3>3, SumGrows
      <3> HIDE DEF d
      <3> QED
        BY <1>1, <2>0, <2>a, <3>1, <3>3, <3>4 DEF LedgerOfOne
    <2> QED
      BY <2>2, <2>3, <2>4
  <1>10. CASE HandleRefused(r) \/ HandleTakenKey(r)
    <2>1. pc'[r] = "failing"
      BY <1>a, <1>10, GotoType DEF HandleRefused, HandleTakenKey
    <2> QED
      BY <2>1 DEF LedgerOfOne
  <1>11. CASE DeadLetter(r)
    <2>0. /\ pc[r] = "deadlettering" /\ pc'[r] = "committing" /\ UNCHANGED <<written, mode>>
          /\ Record(r, "schema_invalid")
      BY <1>a, <1>11, GotoType DEF DeadLetter
    <2>1. StatusOf("schema_invalid") = "quarantined" /\ "quarantined" \in Statuses
      BY DEF StatusOf, Statuses
    <2>2. /\ ledger'[r]["received"] = ledger[r]["received"]
          /\ \A s \in Statuses :
               ledger'[r][s] = IF s = "quarantined" THEN ledger[r][s] + 1 ELSE ledger[r][s]
      BY <2>0, <2>1, StatusCounts
    <2>3. Sum(ledger'[r]) = Sum(ledger[r]) + 1
      BY <1>b, <2>1, <2>2, SumGrows
    <2>4. \A s : Counted(r, s)' = Counted(r, s)
      BY <2>0 DEF Counted
    <2> QED
      BY <1>1, <2>0, <2>2, <2>3, <2>4 DEF LedgerOfOne
  <1>12. CASE RequestCommit(r)
    <2>1. /\ pc[r] = "committing" /\ pc'[r] = "polling" /\ UNCHANGED <<written, mode, ledger>>
      BY <1>a, <1>12, GotoType DEF RequestCommit
    <2>2. \A s : Counted(r, s)' = Counted(r, s)
      BY <2>1 DEF Counted
    <2> QED
      BY <1>1, <2>1, <2>2 DEF LedgerOfOne
  <1> QED
    <2>1. CASE \E p \in Consumers : Consumer(p) \/ CrashConsumer(p) \/ \E m \in Modes : Start(p, m)
      <3>1. PICK p \in Consumers : Consumer(p) \/ CrashConsumer(p) \/ \E m \in Modes : Start(p, m)
        BY <2>1
      <3>2. CASE p = r
        BY <1>4, <1>5, <1>6, <1>7, <1>8, <1>9, <1>10, <1>11, <1>12, <3>1, <3>2 DEF Consumer
      <3>3. CASE p # r
        BY <1>2, <3>1, <3>3, OthersAreLeft DEF IsLeft
      <3> QED
        BY <3>2, <3>3
    <2>2. CASE \/ \E q \in Publishers : Publisher(q)
               \/ \E m \in Foreign : PublishForeign(m)
               \/ UNCHANGED vars
      BY <1>2, <2>2, PublishersLeave DEF IsLeft
    <2> QED
      BY <2>1, <2>2 DEF Next
-----------------------------------------------------------------------------
(* Publishers.                                                             *)

Published(q, i) ==
  IF IsEnvelope(Inputs[q][i])
  THEN \E o \in DOMAIN log :
         log[o] = [event |-> Inputs[q][i].event, content |-> Inputs[q][i].content, run |-> Run]
  ELSE [by |-> q, at |-> i - 1, reason |-> "schema_invalid"] \in dlq

SentIsPublished ==
  \A q \in Publishers :
    /\ sent[q] <= Len(Inputs[q])
    /\ \A i \in 1 .. sent[q] : Published(q, i)
    /\ pc[q] = "finished" => sent[q] = Len(Inputs[q])

LEMMA PublishedStays ==
  ASSUME TypeOK, CurrentIsThere, [Next]_vars, NEW q, NEW i, Published(q, i)
  PROVE  Published(q, i)'
  <1>0. /\ log \in Seq(Messages) /\ log' \in Seq(Messages)
        /\ Len(log) \in Nat /\ Len(log') \in Nat
    <2>1. TypeOK'
      BY TypeStep
    <2> QED
      BY <2>1 DEF TypeOK
  <1>1. ASSUME NEW o \in DOMAIN log
        PROVE  o \in DOMAIN log' /\ log'[o] = log[o]
    <2>1. o - 1 \in 0 .. Len(log) - 1 /\ o - 1 + 1 = o
      BY <1>0
    <2>2. Len(log) <= Len(log') /\ log'[o - 1 + 1] = log[o - 1 + 1]
      BY <2>1, Grows
    <2> QED
      BY <1>0, <2>1, <2>2
  <1> QED
    BY <1>1, Grows DEF Published

LEMMA PublishStep ==
  ASSUME TypeOK, CurrentIsThere, SentIsPublished, [Next]_vars
  PROVE  SentIsPublished'
  <1> SUFFICES ASSUME NEW q \in Publishers
               PROVE  /\ sent'[q] <= Len(Inputs[q])
                      /\ \A i \in 1 .. sent'[q] : Published(q, i)'
                      /\ pc'[q] = "finished" => sent'[q] = Len(Inputs[q])
    BY DEF SentIsPublished
  <1>0. /\ sent[q] \in Nat /\ Len(Inputs[q]) \in Nat /\ sent[q] <= Len(Inputs[q])
        /\ \A i \in 1 .. sent[q] : Published(q, i)'
        /\ pc[q] = "finished" => sent[q] = Len(Inputs[q])
    <2>1. sent[q] \in Nat
      BY DEF TypeOK
    <2>2. Inputs[q] \in Seq(FixtureInputs)
      OBVIOUS
    <2>3. \A i \in 1 .. sent[q] : Published(q, i)
      BY DEF SentIsPublished
    <2>4. \A i \in 1 .. sent[q] : Published(q, i)'
      BY <2>3, PublishedStays
    <2> QED
      BY <2>1, <2>2, <2>4 DEF SentIsPublished
  <1>1. CASE sent'[q] = sent[q] /\ (pc'[q] = pc[q] \/ pc'[q] # "finished")
    BY <1>0, <1>1
  <1>2. CASE PublishInvalid(q) \/ Publish(q)
    <2>0. PICK n \in Nat : n = sent[q] + 1
      BY <1>0
    <2>1. sent'[q] = n /\ pc' = pc /\ pc[q] = "publishing" /\ sent[q] < Len(Inputs[q])
      BY <1>2, <2>0 DEF PublishInvalid, Publish, TypeOK
    <2>2. Published(q, n)'
      <3>1. CASE PublishInvalid(q)
        <4>1. dlq' = dlq \union {[by |-> q, at |-> sent[q], reason |-> "schema_invalid"]}
              /\ ~IsEnvelope(Inputs[q][n])
          BY <2>0, <3>1 DEF PublishInvalid, DeadLetters
        <4>2. n - 1 = sent[q]
          BY <1>0, <2>0
        <4> QED
          BY <4>1, <4>2 DEF Published, IsEnvelope
      <3>2. CASE Publish(q)
        <4> DEFINE m == [event |-> Inputs[q][n].event, content |-> Inputs[q][n].content, run |-> Run]
        <4>1. log' = Append(log, m) /\ IsEnvelope(Inputs[q][n])
          BY <2>0, <3>2 DEF Publish
        <4>2. m \in Messages
          <5>1. n \in 1 .. Len(Inputs[q]) /\ Inputs[q] \in Seq(FixtureInputs)
            BY <1>0, <2>0, <2>1
          <5>2. Inputs[q][n] \in FixtureInputs /\ Inputs[q][n].content # None
            BY <4>1, <5>1 DEF IsEnvelope
          <5> QED
            BY <5>2 DEF FixtureInputs, Messages
        <4> HIDE DEF m
        <4>3. Len(log) + 1 \in DOMAIN log' /\ log'[Len(log) + 1] = m
          BY <4>1, <4>2 DEF TypeOK
        <4>4. \E o \in DOMAIN log' : log'[o] = m
          BY <4>3
        <4> QED
          BY <4>1, <4>4 DEF Published, IsEnvelope, m
      <3> QED
        BY <1>2, <3>1, <3>2
    <2>3. \A i \in 1 .. n : i \in 1 .. sent[q] \/ i = n
      BY <1>0, <2>0
    <2>4. n <= Len(Inputs[q])
      BY <1>0, <2>0, <2>1
    <2> QED
      BY <1>0, <2>1, <2>2, <2>3, <2>4
  <1>3. CASE FinishPublisher(q)
    BY <1>0, <1>3 DEF FinishPublisher
  <1>4. CASE StartPublisher(q) \/ PublishKilled(q) \/ CrashPublisher(q)
    <2>1. sent' = sent /\ pc'[q] # "finished"
      BY <1>4 DEF StartPublisher, PublishKilled, CrashPublisher, Goto, TypeOK
    <2> QED
      BY <1>1, <2>1
  <1>5. ASSUME NEW x \in Publishers, x # q, Publisher(x)
        PROVE  sent'[q] = sent[q] /\ pc'[q] = pc[q]
    BY <1>5 DEF Publisher, StartPublisher, PublishInvalid, PublishKilled, Publish,
       FinishPublisher, CrashPublisher, Goto, TypeOK
  <1>6. ASSUME NEW p \in Consumers, Consumer(p) \/ CrashConsumer(p) \/ \E m \in Modes : Start(p, m)
        PROVE  sent' = sent /\ pc'[q] = pc[q]
    <2>1. p # q
      OBVIOUS
    <2>2. \A place : Goto(p, place) => pc'[q] = pc[q]
      BY <2>1 DEF Goto, TypeOK
    <2> QED
      BY <1>6, <2>2 DEF Consumer, Start, StartConsumer, Assign, Poll, Count, Handle,
         HandleRefused, HandleTakenKey, DeadLetter, RequestCommit, CommitLands, CommitLost, Finish, Fail,
         CrashConsumer, Leave
  <1>7. CASE UNCHANGED <<sent, pc>>
    BY <1>1, <1>7
  <1> QED
    <2>1. CASE Publisher(q)
      BY <1>2, <1>3, <1>4, <2>1 DEF Publisher
    <2>2. CASE \E x \in Publishers : x # q /\ Publisher(x)
      BY <1>1, <1>5, <2>2
    <2>3. CASE \E p \in Consumers : Consumer(p) \/ CrashConsumer(p) \/ \E m \in Modes : Start(p, m)
      BY <1>1, <1>6, <2>3
    <2>4. CASE (\E m \in Foreign : PublishForeign(m)) \/ UNCHANGED vars
      BY <1>7, <2>4 DEF PublishForeign, vars
    <2> QED
      BY <2>1, <2>2, <2>3, <2>4 DEF Next
-----------------------------------------------------------------------------
(* The theorems.                                                           *)

IInv ==
  /\ TypeOK /\ CurrentIsThere /\ IdleIsFresh
  /\ GroupsAreApart => OffsetsCoverDone
  /\ RowsAgree /\ ReplaysAreDuplicates
  /\ LedgersFollowRows /\ SentIsPublished

LEMMA InitInv == Init => IInv
  <1> SUFFICES ASSUME Init PROVE IInv
    OBVIOUS
  <1>1. TypeOK /\ CurrentIsThere
    BY InitType
  <1>2. IdleIsFresh
    BY DEF Init, IdleIsFresh
  <1>3. OffsetsCoverDone
    <2>1. Covers(0)
      BY DEF Covers, Offsets
    <2> QED
      BY <2>1 DEF Init, OffsetsCoverDone, CoversOfOne
  <1>4. RowsAgree /\ ReplaysAreDuplicates
    BY DEF Init, RowsAgree, ReplaysAreDuplicates
  <1>5. LedgersFollowRows
    <2>1. \A s \in Statuses : EmptyLedger[s] = 0
      BY DEF EmptyLedger, Statuses
    <2>2. EmptyLedger["received"] = 0 /\ Sum(EmptyLedger) = 0
      BY DEF EmptyLedger, Sum
    <2>3. \A p \in Consumers : \A s : Counted(p, s) = {}
      BY DEF Init, Counted, NothingWritten
    <2> QED
      BY <2>1, <2>2, <2>3, FS_EmptySet DEF Init, LedgersFollowRows, LedgerOfOne
  <1>6. SentIsPublished
    BY DEF Init, SentIsPublished
  <1> QED
    BY <1>1, <1>2, <1>3, <1>4, <1>5, <1>6 DEF IInv

LEMMA InvStep == IInv /\ [Next]_vars => IInv'
  <1> SUFFICES ASSUME IInv, [Next]_vars PROVE IInv'
    OBVIOUS
  <1>1. GroupsAreApart' <=> GroupsAreApart
    BY DEF GroupsAreApart
  <1> QED
    BY <1>1, TypeStep, IdleStep, CoversStep, RowsStep, LedgerStep, PublishStep DEF IInv

(* The inductive invariant holds throughout: what the theorems rest on.    *)
THEOREM Invariant == Spec => []IInv
  BY InitInv, InvStep, PTL DEF Spec

(* Type correctness of publishers, topic, groups, store and consumers.     *)
THEOREM TypeCorrect == Spec => []TypeOK
  BY Invariant, PTL DEF IInv

(* If no count, replay or start is in the persisting group, its committed  *)
(* offset passes no message that has no durable row.                       *)
THEOREM NothingIsSkipped == Spec => [](GroupsAreApart => NoMessageIsSkipped)
  <1>1. IInv => (GroupsAreApart => NoMessageIsSkipped)
    BY DEF IInv, OffsetsCoverDone, Covers, Done, NoMessageIsSkipped
  <1> QED
    BY <1>1, Invariant, PTL

(* Nor any invalid message that the DLQ has not got.                       *)
THEOREM NothingInvalidIsLost == Spec => [](GroupsAreApart => InvalidReachesDlq)
  <1>1. IInv => (GroupsAreApart => InvalidReachesDlq)
    <2> SUFFICES ASSUME IInv, GroupsAreApart, NEW o \in Offsets,
                        o < committed[DefaultGroup], "schema_invalid" \in disposed[o]
                 PROVE  InDlq(o)
      BY DEF InvalidReachesDlq, InDlq
    <2>1. Done(o)
      BY DEF IInv, OffsetsCoverDone, Covers
    <2>2. Invalid(o)
      BY DEF IInv, RowsAgree, Invalid
    <2> QED
      BY <2>1, <2>2 DEF Done
  <1> QED
    BY <1>1, Invariant, PTL

(* A message that was accepted is a duplicate whenever it comes again.     *)
THEOREM ReplayIsSafe == Spec => []ReplaysAreDuplicates
  BY Invariant, PTL DEF IInv

(* A consumer that may stop has a ledger that balances and counts the rows *)
(* of its execution.                                                       *)
THEOREM SummariesAreDurable == Spec => []SummaryIsDurable
  <1>1. IInv => SummaryIsDurable
    BY DEF IInv, LedgersFollowRows, LedgerOfOne, SummaryIsDurable, IsBalanced, Sum, Counted
  <1> QED
    BY <1>1, Invariant, PTL

(* A publisher that reports success has put every input on the topic or on *)
(* the DLQ.                                                                *)
THEOREM PublishersAreComplete == Spec => []PublisherIsComplete
  <1>1. IInv => PublisherIsComplete
    <2> SUFFICES ASSUME IInv, NEW q \in Publishers, pc[q] = "finished", NEW i \in DOMAIN Inputs[q]
                 PROVE  Published(q, i)
      BY DEF PublisherIsComplete, Published
    <2>1. i \in 1 .. sent[q]
      BY DEF IInv, SentIsPublished
    <2> QED
      BY <2>1 DEF IInv, SentIsPublished
  <1> QED
    BY <1>1, Invariant, PTL
=============================================================================
