---------------------------- MODULE BatchRunProofs ----------------------------
(***************************************************************************)
(* Proofs about the batch runner, for any number of processes of any runs, *)
(* and any states of the fixtures directory that is edited under them.     *)
(***************************************************************************)
EXTENDS BatchRun, FiniteSetTheorems, TLAPS

USE VerdictAssumption, NoneAssumption, RunOfAssumption, FixturesAssumption,
    NoVersionAssumption

(* Where a process is, and what it has by then.                            *)
PlacesAreKept ==
  \A p \in Procs :
    /\ pc[p] \in {"idle", "starting"} => sequence[p] = 0 /\ next[p] = 0
    /\ pc[p] \in {"adapting", "persisting", "recording"} => sequence[p] # 0
    /\ pc[p] # "idle" => version[p] \in Versions

(* An input that goes to a claim is a content of an event; what is written *)
(* without one has its reason.                                             *)
WorkIsReady ==
  \A p \in Procs :
    pc[p] = "persisting" =>
      /\ work[p].reason \in {"none", "schema_invalid", "kill_switch_engaged"}
      /\ work[p].reason = "none" => work[p].event \in Events /\ work[p].content \in Contents

(* Sequences come from the manifest, under the hash it was created with.   *)
SequencesAreAllocated ==
  /\ \A p \in Procs : sequence[p] # 0 =>
       /\ sequence[p] <= manifests[RunOf[p]].last
       /\ manifests[RunOf[p]].version = version[p]
  /\ \A r \in rows : r.sequence <= manifests[r.run].last

UpTo(n) == {i \in 0 .. n : i < n}

(* The durable rows of p's execution are those of its first n inputs.      *)
Written(p, n) ==
  /\ OrdinalsOf(RunOf[p], sequence[p]) = UpTo(n)
  /\ IsFiniteSet(RowsOf(RunOf[p], sequence[p]))
  /\ Cardinality(RowsOf(RunOf[p], sequence[p])) = n

RowsFollowTheLoop ==
  \A p \in Procs : sequence[p] # 0 =>
    /\ next[p] <= SourceCount(version[p])
    /\ \/ Written(p, next[p]) /\ pc[p] \notin {"recording", "stopped"}
       \/ /\ Written(p, next[p] + 1) /\ next[p] < SourceCount(version[p])
          /\ pc[p] \in {"recording", "stopped", "crashed"}
    /\ pc[p] = "persisting" => next[p] < SourceCount(version[p])

(* A process that has accepted an event since the switch was thrown will   *)
(* not claim another one.                                                  *)
SwitchIsSeen ==
  \A p \in Procs :
    /\ overrun[p] <= 1
    /\ killed /\ overrun[p] = 1 /\ pc[p] = "persisting" => work[p].reason # "none"

IInv ==
  /\ TypeOK
  /\ PlacesAreKept
  /\ WorkIsReady
  /\ SequencesAreAllocated
  /\ ExecutionsAreExclusive
  /\ RowsFollowTheLoop
  /\ SuccessIsComplete
  /\ SwitchIsSeen
-----------------------------------------------------------------------------
(* Lemmas about the operators.                                             *)

LEMMA UpToFacts ==
  ASSUME NEW n \in Nat
  PROVE  /\ UpTo(0) = {}
         /\ n \notin UpTo(n)
         /\ UpTo(n) \union {n} = UpTo(n + 1)
         /\ \A m \in Nat : UpTo(m) = UpTo(n) => m = n
  <1>1. \A i : \A k \in Nat : i \in UpTo(k) <=> i \in Nat /\ i < k
    BY DEF UpTo
  <1>2. UpTo(n) \union {n} = UpTo(n + 1)
    <2>1. ASSUME NEW i
          PROVE  i \in UpTo(n) \union {n} <=> i \in UpTo(n + 1)
      <3>1. i \in UpTo(n + 1) <=> i \in Nat /\ i < n + 1
        BY <1>1
      <3>2. i \in UpTo(n) <=> i \in Nat /\ i < n
        BY <1>1
      <3> QED
        BY <3>1, <3>2
    <2> QED
      BY <2>1
  <1>3. ASSUME NEW m \in Nat, UpTo(m) = UpTo(n)
        PROVE  m = n
    <2>1. m < n => m \in UpTo(n) /\ m \notin UpTo(m)
      BY <1>1
    <2>2. n < m => n \in UpTo(m) /\ n \notin UpTo(n)
      BY <1>1
    <2>3. ~(m < n) /\ ~(n < m)
      BY <1>3, <2>1, <2>2
    <2> QED
      BY <2>3
  <1> QED
    BY <1>1, <1>2, <1>3

LEMMA SourceCountType ==
  ASSUME NEW v \in Versions
  PROVE  SourceCount(v) \in Nat
  BY DEF SourceCount

(* The dispositions of claims and of quarantines.                          *)
LEMMA DispositionType ==
  ASSUME TypeOK, WorkIsReady, NEW p \in Procs, pc[p] = "persisting"
  PROVE  /\ DispositionFor(p) \in Dispositions \ {"none"}
         /\ DispositionFor(p) = "accepted" =>
              /\ work[p].reason = "none"
              /\ work[p].event \in Events /\ work[p].content \in Contents
  <1>1. \A q \in Claims : DispositionOf[q] \in Dispositions \ {"none"}
    BY DEF DispositionOf, Claims, Dispositions
  <1>2. \A s, c : Classify(s, c) \in Claims
    BY DEF Classify, Claims
  <1>3. /\ work[p].reason \in {"none", "schema_invalid", "kill_switch_engaged"}
        /\ work[p].reason = "none" => work[p].event \in Events /\ work[p].content \in Contents
    BY DEF WorkIsReady
  <1>4. {"schema_invalid", "kill_switch_engaged"} \subseteq Dispositions \ {"none"}
    BY DEF Dispositions
  <1>5. CASE work[p].reason = "none"
    BY <1>1, <1>2, <1>3, <1>5 DEF DispositionFor
  <1>6. CASE work[p].reason # "none"
    BY <1>3, <1>4, <1>6 DEF DispositionFor
  <1> QED
    BY <1>5, <1>6

(* What an input becomes when it is adapted.                               *)
LEMMA AdaptedWork ==
  ASSUME TypeOK, PlacesAreKept, NEW p \in Procs, AdaptInput(p)
  PROVE  \E w \in [event: Events \union {None}, content: Contents \union {None},
                   reason: {"none", "schema_invalid", "kill_switch_engaged"}] :
           /\ work' = [work EXCEPT ![p] = w]
           /\ w.reason = "none" => ~killed /\ w.event \in Events /\ w.content \in Contents
  <1> DEFINE input == CurrentInput(p)
             reason == ReasonFor(input)
             isRefused == input.content = None \/ reason = "kill_switch_engaged"
             w == [event |-> IF isRefused THEN None ELSE input.event,
                   content |-> input.content, reason |-> reason]
  <1>1. /\ input.content \in Contents \union {None}
        /\ input.content # None => input.event \in Events
    <2>1. CASE next[p] + 1 \in DOMAIN Fixtures[directory]
      <3>1. Fixtures[directory] \in Seq(Inputs)
        BY DEF TypeOK
      <3>2. input \in Inputs
        BY <2>1, <3>1 DEF CurrentInput
      <3> QED
        BY <3>2 DEF Inputs
    <2>2. CASE next[p] + 1 \notin DOMAIN Fixtures[directory]
      BY <2>2 DEF CurrentInput
    <2> QED
      BY <2>1, <2>2
  <1> HIDE DEF input
  <1>2. /\ reason \in {"none", "schema_invalid", "kill_switch_engaged"}
        /\ reason = "none" => ~killed /\ input.content # None
    <2>1. CASE input.content = None
      BY <2>1 DEF ReasonFor
    <2>2. CASE input.content # None /\ killed
      BY <2>2 DEF ReasonFor
    <2>3. CASE input.content # None /\ ~killed
      BY <2>3 DEF ReasonFor
    <2> QED
      BY <2>1, <2>2, <2>3
  <1>3. work' = [work EXCEPT ![p] = w]
    BY DEF AdaptInput, input
  <1> HIDE DEF reason
  <1>4. /\ w \in [event: Events \union {None}, content: Contents \union {None},
                  reason: {"none", "schema_invalid", "kill_switch_engaged"}]
        /\ w.reason = "none" => ~killed /\ w.event \in Events /\ w.content \in Contents
    BY <1>1, <1>2
  <1> HIDE DEF w
  <1> QED
    BY <1>3, <1>4

(* The rows of an execution stay what they are when no row of it is added. *)
LEMMA WrittenKept ==
  ASSUME NEW p \in Procs, NEW n,
         RowsOf(RunOf[p], sequence[p])' = RowsOf(RunOf[p], sequence[p])
  PROVE  Written(p, n)' <=> Written(p, n)
  BY DEF Written, OrdinalsOf
-----------------------------------------------------------------------------
(* Type correctness.                                                       *)

LEMMA TypeInit == Init => TypeOK
  <1> SUFFICES ASSUME Init
               PROVE  TypeOK
    OBVIOUS
  <1>1. NoWork \in [event: Events \union {None}, content: Contents \union {None},
                    reason: Dispositions]
    BY DEF NoWork, Dispositions
  <1>2. EmptyLedger \in [{"received"} \union Statuses -> Nat]
    BY DEF EmptyLedger, Statuses
  <1> QED
    BY <1>1, <1>2 DEF Init, TypeOK

(* A count of a ledger is one more.                                        *)
LEMMA LedgerType ==
  ASSUME NEW l \in [Procs -> [{"received"} \union Statuses -> Nat]], NEW p \in Procs,
         NEW s \in {"received"} \union Statuses
  PROVE  [l EXCEPT ![p][s] = @ + 1] \in [Procs -> [{"received"} \union Statuses -> Nat]]
  <1>1. [l[p] EXCEPT ![s] = @ + 1] \in [{"received"} \union Statuses -> Nat]
    OBVIOUS
  <1> QED
    BY <1>1

LEMMA TypeStep == TypeOK /\ PlacesAreKept /\ WorkIsReady /\ [Next]_vars => TypeOK'
  <1> SUFFICES ASSUME TypeOK, PlacesAreKept, WorkIsReady, [Next]_vars
               PROVE  TypeOK'
    OBVIOUS
  <1> USE DEF Goto, shared, local, Running, Ended
  <1>1. ASSUME NEW p \in Procs, BuildManifest(p)
        PROVE  TypeOK'
    BY <1>1 DEF BuildManifest, TypeOK
  <1>2. ASSUME NEW p \in Procs, BeginExecution(p)
        PROVE  TypeOK'
    <2>1. version[p] \in Versions /\ RunOf[p] \in Runs
      BY <1>2 DEF BeginExecution, PlacesAreKept
    <2> DEFINE seq == manifests[RunOf[p]].last + 1
               entry == [version |-> version[p], last |-> seq]
    <2>2. seq \in Nat /\ entry \in [version: Versions \union {NoVersion}, last: Nat]
      BY <2>1 DEF TypeOK
    <2>3. \/ /\ manifests' = [manifests EXCEPT ![RunOf[p]] = entry]
             /\ sequence' = [sequence EXCEPT ![p] = seq]
          \/ UNCHANGED <<manifests, sequence>>
      BY <1>2 DEF BeginExecution
    <2> HIDE DEF seq, entry
    <2>5. manifests' \in [Runs -> [version: Versions \union {NoVersion}, last: Nat]]
      <3>1. manifests \in [Runs -> [version: Versions \union {NoVersion}, last: Nat]]
        BY DEF TypeOK
      <3> QED
        BY <2>2, <2>3, <3>1
    <2>6. sequence' \in [Procs -> Nat]
      BY <2>2, <2>3 DEF TypeOK
    <2>4. pc' \in [Procs -> {"idle"} \union Running \union Ended]
      <3>1. pc' = [pc EXCEPT ![p] = "adapting"] \/ pc' = [pc EXCEPT ![p] = "drifted"]
        BY <1>2 DEF BeginExecution
      <3>2. pc \in [Procs -> {"idle"} \union Running \union Ended]
        BY DEF TypeOK
      <3> QED
        BY <3>1, <3>2
    <2> QED
      BY <1>2, <2>4, <2>5, <2>6 DEF BeginExecution, TypeOK
  <1>3. ASSUME NEW p \in Procs, AdaptInput(p)
        PROVE  TypeOK'
    <2>1. {"none", "schema_invalid", "kill_switch_engaged"} \subseteq Dispositions
      BY DEF Dispositions
    <2>2. work' \in [Procs -> [event: Events \union {None}, content: Contents \union {None},
                              reason: Dispositions]]
      <3>1. PICK w \in [event: Events \union {None}, content: Contents \union {None},
                        reason: {"none", "schema_invalid", "kill_switch_engaged"}] :
              work' = [work EXCEPT ![p] = w]
        BY <1>3, AdaptedWork
      <3>2. w \in [event: Events \union {None}, content: Contents \union {None},
                   reason: Dispositions]
        BY <2>1
      <3> QED
        BY <3>1, <3>2 DEF TypeOK
    <2>3. ledger' \in [Procs -> [{"received"} \union Statuses -> Nat]]
      BY <1>3, LedgerType DEF AdaptInput, TypeOK
    <2>4. pc' \in [Procs -> {"idle"} \union Running \union Ended]
      <3>1. pc' = [pc EXCEPT ![p] = "persisting"]
        BY <1>3 DEF AdaptInput
      <3> QED
        BY <3>1 DEF TypeOK
    <2> QED
      BY <1>3, <2>2, <2>3, <2>4 DEF AdaptInput, TypeOK
  <1>4. ASSUME NEW p \in Procs, PersistInput(p)
        PROVE  TypeOK'
    <2> DEFINE d == DispositionFor(p)
    <2>1. /\ pc[p] = "persisting" /\ sequence[p] \in Nat \ {0}
          /\ work[p].event \in Events \union {None}
      BY <1>4 DEF PersistInput, PlacesAreKept, TypeOK
    <2>2. /\ d \in Dispositions \ {"none"}
          /\ d = "accepted" => work[p].event \in Events /\ work[p].content \in Contents
      BY <2>1, DispositionType
    <2>3. [run |-> RunOf[p], sequence |-> sequence[p], ordinal |-> next[p],
           event |-> work[p].event, disposition |-> d]
             \in [run: Runs, sequence: Nat \ {0}, ordinal: Nat,
                  event: Events \union {None}, disposition: Dispositions \ {"none"}]
      BY <2>1, <2>2 DEF TypeOK
    <2>4. rows' \subseteq [run: Runs, sequence: Nat \ {0}, ordinal: Nat,
                          event: Events \union {None}, disposition: Dispositions \ {"none"}]
      BY <1>4, <2>3 DEF PersistInput, TypeOK
    <2> HIDE DEF d
    <2>5. CASE KeyIsTaken(p)
      BY <1>4, <2>5 DEF PersistInput, TypeOK
    <2>6. CASE ~KeyIsTaken(p)
      <3>1. /\ events' = IF d = "accepted" THEN [events EXCEPT ![work[p].event] = work[p].content]
                         ELSE events
            /\ overrun' \in {overrun, [overrun EXCEPT ![p] = @ + 1]}
            /\ work' = [work EXCEPT ![p].reason = d]
            /\ pc' = [pc EXCEPT ![p] = "recording"]
        BY <1>4, <2>6 DEF PersistInput, d
      <3>2. events' \in [Events -> Contents \union {None}]
        BY <2>2, <3>1 DEF TypeOK
      <3>3. overrun' \in [Procs -> Nat]
        <4>1. overrun \in [Procs -> Nat] /\ overrun[p] + 1 \in Nat
          BY DEF TypeOK
        <4> QED
          BY <3>1, <4>1
      <3>4. work' \in [Procs -> [event: Events \union {None},
                                content: Contents \union {None}, reason: Dispositions]]
        <4>1. [work[p] EXCEPT !.reason = d] \in
                [event: Events \union {None}, content: Contents \union {None},
                 reason: Dispositions]
          BY <2>2 DEF TypeOK
        <4> QED
          BY <3>1, <4>1 DEF TypeOK
      <3> QED
        BY <1>4, <2>4, <3>1, <3>2, <3>3, <3>4 DEF PersistInput, TypeOK
    <2> QED
      BY <2>5, <2>6
  <1>5. ASSUME NEW p \in Procs, RecordInput(p)
        PROVE  TypeOK'
    <2>1. StatusOf(work[p].reason) \in Statuses
      BY DEF StatusOf, Statuses
    <2>2. ledger' \in [Procs -> [{"received"} \union Statuses -> Nat]]
      BY <1>5, <2>1, LedgerType DEF RecordInput, TypeOK
    <2>3. next' \in [Procs -> Nat]
      <3>1. next' = next \/ next' = [next EXCEPT ![p] = next[p] + 1]
        BY <1>5 DEF RecordInput
      <3>2. next \in [Procs -> Nat] /\ next[p] + 1 \in Nat
        BY DEF TypeOK
      <3> QED
        BY <3>1, <3>2
    <2>4. pc' \in [Procs -> {"idle"} \union Running \union Ended]
      <3>1. pc' = [pc EXCEPT ![p] = "adapting"] \/ pc' = [pc EXCEPT ![p] = "stopped"]
        BY <1>5 DEF RecordInput
      <3>2. pc \in [Procs -> {"idle"} \union Running \union Ended]
        BY DEF TypeOK
      <3> QED
        BY <3>1, <3>2
    <2> QED
      BY <1>5, <2>2, <2>3, <2>4 DEF RecordInput, TypeOK
  <1>6. ASSUME NEW p \in Procs, Finish(p)
        PROVE  TypeOK'
    BY <1>6 DEF Finish, TypeOK
  <1>7. ASSUME NEW p \in Procs, Crash(p)
        PROVE  TypeOK'
    BY <1>7 DEF Crash, TypeOK
  <1>8. CASE Environment
    <2>1. killed' \in BOOLEAN
      BY <1>8 DEF Environment, EditFixtures, ThrowKillSwitch, ReleaseKillSwitch, TypeOK
    <2>2. overrun' \in [Procs -> Nat] /\ directory' \in Versions
          /\ UNCHANGED <<manifests, events, rows, local>>
      BY <1>8 DEF Environment, EditFixtures, ThrowKillSwitch, ReleaseKillSwitch, TypeOK
    <2> QED
      BY <2>1, <2>2 DEF TypeOK
  <1>9. CASE UNCHANGED vars
    BY <1>9 DEF vars, TypeOK
  <1> QED
    BY <1>1, <1>2, <1>3, <1>4, <1>5, <1>6, <1>7, <1>8, <1>9 DEF Next, Step
-----------------------------------------------------------------------------
(* The places of the processes and the work in their hands.                *)

LEMMA PlacesStep == TypeOK /\ PlacesAreKept /\ [Next]_vars => PlacesAreKept'
  <1> SUFFICES ASSUME TypeOK, PlacesAreKept, [Next]_vars
               PROVE  PlacesAreKept'
    OBVIOUS
  <1> USE DEF Goto, shared, local, Running, TypeOK, PlacesAreKept
  <1>1. ASSUME NEW p \in Procs, BuildManifest(p) \/ Finish(p) \/ Crash(p)
        PROVE  PlacesAreKept'
    BY <1>1 DEF BuildManifest, Finish, Crash
  <1>2. ASSUME NEW p \in Procs, BeginExecution(p)
        PROVE  PlacesAreKept'
    <2>1. manifests[RunOf[p]].last + 1 \in Nat \ {0}
      OBVIOUS
    <2> QED
      BY <1>2, <2>1 DEF BeginExecution
  <1>3. ASSUME NEW p \in Procs, AdaptInput(p) \/ PersistInput(p) \/ RecordInput(p)
        PROVE  PlacesAreKept'
    BY <1>3 DEF AdaptInput, PersistInput, RecordInput
  <1>4. CASE Environment \/ UNCHANGED vars
    BY <1>4 DEF Environment, EditFixtures, ThrowKillSwitch, ReleaseKillSwitch, vars
  <1> QED
    BY <1>1, <1>2, <1>3, <1>4 DEF Next, Step

LEMMA WorkStep == TypeOK /\ PlacesAreKept /\ WorkIsReady /\ [Next]_vars => WorkIsReady'
  <1> SUFFICES ASSUME TypeOK, PlacesAreKept, WorkIsReady, [Next]_vars
               PROVE  WorkIsReady'
    OBVIOUS
  <1> USE DEF Goto, shared, local, Running, WorkIsReady
  <1>1. ASSUME NEW p \in Procs, AdaptInput(p)
        PROVE  WorkIsReady'
    <2>1. PICK w \in [event: Events \union {None}, content: Contents \union {None},
                      reason: {"none", "schema_invalid", "kill_switch_engaged"}] :
            /\ work' = [work EXCEPT ![p] = w]
            /\ w.reason = "none" => ~killed /\ w.event \in Events /\ w.content \in Contents
      BY <1>1, AdaptedWork
    <2> QED
      BY <1>1, <2>1 DEF AdaptInput, TypeOK
  <1>2. ASSUME NEW p \in Procs, PersistInput(p)
        PROVE  WorkIsReady'
    BY <1>2 DEF PersistInput, TypeOK
  <1>3. ASSUME NEW p \in Procs,
               BuildManifest(p) \/ BeginExecution(p) \/ RecordInput(p) \/ Finish(p) \/ Crash(p)
        PROVE  WorkIsReady'
    BY <1>3 DEF BuildManifest, BeginExecution, RecordInput, Finish, Crash, TypeOK
  <1>4. CASE Environment \/ UNCHANGED vars
    BY <1>4 DEF Environment, EditFixtures, ThrowKillSwitch, ReleaseKillSwitch, vars
  <1> QED
    BY <1>1, <1>2, <1>3, <1>4 DEF Next, Step
-----------------------------------------------------------------------------
(* Executions are exclusive.                                               *)

(* What one step does to rows, manifests and executions: nothing, allocate *)
(* the next execution, or add the next row of one.                         *)
Quiet == UNCHANGED <<rows, manifests, sequence>>

Allocates(p) ==
  LET seq == manifests[RunOf[p]].last + 1
  IN  /\ pc[p] = "starting" /\ sequence[p] = 0 /\ next[p] = 0 /\ version[p] \in Versions
      /\ manifests[RunOf[p]].version \in {NoVersion, version[p]}
      /\ manifests' = [manifests EXCEPT ![RunOf[p]] = [version |-> version[p], last |-> seq]]
      /\ sequence' = [sequence EXCEPT ![p] = seq]
      /\ pc' = [pc EXCEPT ![p] = "adapting"]
      /\ UNCHANGED <<rows, version, next, ledger>>

Adds(p) ==
  /\ pc[p] = "persisting" /\ sequence[p] # 0
  /\ next[p] \notin OrdinalsOf(RunOf[p], sequence[p])
  /\ \E e, d : rows' = rows \union {[run |-> RunOf[p], sequence |-> sequence[p],
                                    ordinal |-> next[p], event |-> e, disposition |-> d]}
  /\ pc' = [pc EXCEPT ![p] = "recording"]
  /\ UNCHANGED <<manifests, sequence, version, next, ledger>>

LEMMA StepKinds ==
  ASSUME PlacesAreKept, TypeOK, [Next]_vars
  PROVE  \/ Quiet
         \/ \E p \in Procs : Allocates(p)
         \/ \E p \in Procs : Adds(p)
  <1> USE DEF shared, local
  <1>1. ASSUME NEW p \in Procs, BeginExecution(p)
        PROVE  Quiet \/ Allocates(p)
    <2>1. sequence[p] = 0 /\ next[p] = 0 /\ version[p] \in Versions
      BY <1>1 DEF BeginExecution, PlacesAreKept
    <2> QED
      BY <1>1, <2>1 DEF BeginExecution, Goto, Quiet, Allocates
  <1>2. ASSUME NEW p \in Procs, PersistInput(p)
        PROVE  Quiet \/ Adds(p)
    <2>1. sequence[p] # 0
      BY <1>2 DEF PersistInput, PlacesAreKept
    <2> QED
      BY <1>2, <2>1 DEF PersistInput, KeyIsTaken, Goto, Quiet, Adds
  <1>3. ASSUME NEW p \in Procs, BuildManifest(p) \/ AdaptInput(p) \/ RecordInput(p) \/ Finish(p) \/ Crash(p)
        PROVE  Quiet
    BY <1>3 DEF BuildManifest, AdaptInput, RecordInput, Finish, Crash, Quiet
  <1>4. CASE Environment \/ UNCHANGED vars
    BY <1>4 DEF Environment, EditFixtures, ThrowKillSwitch, ReleaseKillSwitch, vars, Quiet
  <1> QED
    BY <1>1, <1>2, <1>3, <1>4 DEF Next, Step

(* Once it has an execution, a process keeps the fixtures it hashed.       *)
LEMMA VersionsKept ==
  ASSUME PlacesAreKept, [Next]_vars
  PROVE  \A q \in Procs : pc[q] # "idle" => version'[q] = version[q]
  <1> USE DEF shared, local
  <1>1. ASSUME NEW p \in Procs, BuildManifest(p)
        PROVE  \A q \in Procs : pc[q] # "idle" => version'[q] = version[q]
    BY <1>1 DEF BuildManifest
  <1>2. ASSUME NEW p \in Procs,
               BeginExecution(p) \/ AdaptInput(p) \/ PersistInput(p) \/ RecordInput(p) \/ Finish(p) \/ Crash(p)
        PROVE  version' = version
    BY <1>2 DEF BeginExecution, AdaptInput, PersistInput, RecordInput, Finish, Crash
  <1>3. CASE Environment \/ UNCHANGED vars
    BY <1>3 DEF Environment, EditFixtures, ThrowKillSwitch, ReleaseKillSwitch, vars
  <1> QED
    BY <1>1, <1>2, <1>3 DEF Next, Step

LEMMA AllocatedStep ==
  TypeOK /\ PlacesAreKept /\ SequencesAreAllocated /\ [Next]_vars => SequencesAreAllocated'
  <1> SUFFICES ASSUME TypeOK, PlacesAreKept, SequencesAreAllocated, [Next]_vars
               PROVE  SequencesAreAllocated'
    OBVIOUS
  <1>1. \A q \in Procs : sequence[q] # 0 => version'[q] = version[q]
    BY VersionsKept DEF PlacesAreKept
  <1>2. CASE Quiet
    BY <1>1, <1>2 DEF Quiet, SequencesAreAllocated
  <1>3. ASSUME NEW p \in Procs, Allocates(p)
        PROVE  SequencesAreAllocated'
    <2> DEFINE run == RunOf[p]
               seq == manifests[run].last + 1
    <2>1. /\ run \in Runs /\ seq \in Nat /\ manifests[run].last \in Nat
          /\ manifests'[run] = [version |-> version[p], last |-> seq]
          /\ \A r \in Runs \ {run} : manifests'[r] = manifests[r]
          /\ sequence'[p] = seq
          /\ \A q \in Procs \ {p} : sequence'[q] = sequence[q]
          /\ version' = version /\ rows' = rows
      BY <1>3 DEF Allocates, TypeOK
    <2> HIDE DEF seq, run
    <2>2. ASSUME NEW q \in Procs, sequence'[q] # 0
          PROVE  sequence'[q] <= manifests'[RunOf[q]].last
                 /\ manifests'[RunOf[q]].version = version'[q]
      <3>1. CASE q = p
        BY <2>1, <3>1 DEF run
      <3>2. CASE q # p /\ RunOf[q] = run
        <4>1. sequence[q] <= manifests[run].last /\ manifests[run].version = version[q]
              /\ sequence[q] \in Nat
          BY <2>1, <2>2, <3>2 DEF SequencesAreAllocated, TypeOK
        <4>2. version[q] \in Versions
          BY <2>1, <2>2, <3>2 DEF PlacesAreKept
        <4>3. version[q] = version[p]
          BY <1>3, <4>1, <4>2 DEF Allocates, run
        <4> QED
          BY <2>1, <3>2, <4>1, <4>3 DEF seq
      <3>3. CASE q # p /\ RunOf[q] # run
        BY <2>1, <2>2, <3>3 DEF SequencesAreAllocated
      <3> QED
        BY <3>1, <3>2, <3>3
    <2>3. ASSUME NEW r \in rows
          PROVE  r.sequence <= manifests'[r.run].last
      <3>1. r.run \in Runs /\ r.sequence \in Nat /\ r.sequence <= manifests[r.run].last
        BY DEF SequencesAreAllocated, TypeOK
      <3> QED
        BY <2>1, <3>1 DEF seq
    <2> QED
      BY <2>1, <2>2, <2>3 DEF SequencesAreAllocated
  <1>4. ASSUME NEW p \in Procs, Adds(p)
        PROVE  SequencesAreAllocated'
    BY <1>4 DEF Adds, SequencesAreAllocated
  <1> QED
    BY <1>2, <1>3, <1>4, StepKinds

LEMMA ExclusiveStep ==
  /\ TypeOK /\ PlacesAreKept /\ SequencesAreAllocated /\ ExecutionsAreExclusive
  /\ [Next]_vars
  => ExecutionsAreExclusive'
  <1> SUFFICES ASSUME TypeOK, PlacesAreKept, SequencesAreAllocated, ExecutionsAreExclusive,
                      [Next]_vars
               PROVE  ExecutionsAreExclusive'
    OBVIOUS
  <1>1. \A q \in Procs : sequence[q] # 0 => version'[q] = version[q]
    BY VersionsKept DEF PlacesAreKept
  <1>2. CASE sequence' = sequence
    BY <1>1, <1>2 DEF ExecutionsAreExclusive
  <1>3. ASSUME NEW p \in Procs, Allocates(p)
        PROVE  ExecutionsAreExclusive'
    <2>1. SequencesAreAllocated'
      BY AllocatedStep
    <2>2. ASSUME NEW q \in Procs, q # p, sequence'[q] # 0, RunOf[q] = RunOf[p]
          PROVE  sequence'[q] # sequence'[p]
      <3>1. sequence'[q] = sequence[q] /\ sequence[q] \in Nat
            /\ sequence[q] <= manifests[RunOf[p]].last
        BY <1>3, <2>2 DEF Allocates, SequencesAreAllocated, TypeOK
      <3>2. sequence'[p] = manifests[RunOf[p]].last + 1 /\ manifests[RunOf[p]].last \in Nat
        BY <1>3 DEF Allocates, TypeOK
      <3> QED
        BY <3>1, <3>2
    <2>3. \A q \in Procs \ {p} : sequence'[q] = sequence[q]
      BY <1>3 DEF Allocates, TypeOK
    <2> QED
      BY <2>1, <2>2, <2>3 DEF ExecutionsAreExclusive, SequencesAreAllocated
  <1> QED
    BY <1>2, <1>3, StepKinds DEF Quiet, Adds
-----------------------------------------------------------------------------
(* The rows of an execution follow its loop.                               *)

LEMMA RowsQuiet ==
  ASSUME TypeOK, PlacesAreKept, RowsFollowTheLoop, Quiet, [Next]_vars
  PROVE  RowsFollowTheLoop'
  <1> USE DEF shared, local, Goto, Running
  <1> SUFFICES ASSUME NEW q \in Procs, sequence'[q] # 0
               PROVE  /\ next'[q] <= SourceCount(version'[q])
                      /\ \/ Written(q, next[q])' /\ pc'[q] \notin {"recording", "stopped"}
                         \/ /\ Written(q, next[q] + 1)' /\ next'[q] < SourceCount(version'[q])
                            /\ pc'[q] \in {"recording", "stopped", "crashed"}
                      /\ pc'[q] = "persisting" => next'[q] < SourceCount(version'[q])
    BY DEF RowsFollowTheLoop, SourceCount
  <1> DEFINE total == SourceCount(version[q])
  <1>1. /\ sequence[q] # 0 /\ pc[q] # "idle" /\ version[q] \in Versions
        /\ version'[q] = version[q]
    BY VersionsKept DEF Quiet, PlacesAreKept
  <1>2. total \in Nat /\ next[q] \in Nat
    BY <1>1, SourceCountType DEF TypeOK
  <1>3. /\ next[q] <= total
        /\ \/ Written(q, next[q]) /\ pc[q] \notin {"recording", "stopped"}
           \/ /\ Written(q, next[q] + 1) /\ next[q] < total
              /\ pc[q] \in {"recording", "stopped", "crashed"}
        /\ pc[q] = "persisting" => next[q] < total
    BY <1>1 DEF RowsFollowTheLoop
  <1>4. \A n : Written(q, n)' <=> Written(q, n)
    <2>1. RowsOf(RunOf[q], sequence[q])' = RowsOf(RunOf[q], sequence[q])
      BY DEF Quiet, RowsOf
    <2> QED
      BY <2>1, WrittenKept
  <1> HIDE DEF total
  <1>5. CASE UNCHANGED <<next[q], pc[q]>>
    BY <1>1, <1>3, <1>4, <1>5 DEF Written, total
  <1>6. CASE pc'[q] = "crashed" /\ next'[q] = next[q]
    BY <1>1, <1>3, <1>4, <1>6 DEF Written, total
  <1>7. CASE AdaptInput(q)
    <2>1. pc[q] = "adapting" /\ pc'[q] = "persisting" /\ next'[q] = next[q] /\ next[q] < total
      BY <1>7 DEF AdaptInput, TypeOK, total
    <2> QED
      BY <1>1, <1>3, <1>4, <2>1 DEF Written, total
  <1>8. CASE RecordInput(q)
    <2>1. /\ pc[q] = "recording" /\ Written(q, next[q] + 1) /\ next[q] < total
          /\ \/ pc'[q] = "stopped" /\ next'[q] = next[q]
             \/ pc'[q] = "adapting" /\ next'[q] = next[q] + 1
      BY <1>3, <1>8 DEF RecordInput, TypeOK
    <2> QED
      BY <1>1, <1>2, <1>4, <2>1 DEF Written, total
  <1>9. CASE Finish(q)
    <2>1. pc[q] = "adapting" /\ pc'[q] \in {"succeeded", "failed"} /\ next'[q] = next[q]
      BY <1>9 DEF Finish, TypeOK
    <2> QED
      BY <1>1, <1>3, <1>4, <2>1 DEF Written, total
  <1>10. \/ UNCHANGED <<next[q], pc[q]>>
         \/ pc'[q] = "crashed" /\ next'[q] = next[q]
         \/ AdaptInput(q) \/ RecordInput(q) \/ Finish(q)
    <2>1. ASSUME NEW p \in Procs, p # q, Step(p) \/ Crash(p)
          PROVE  UNCHANGED <<next[q], pc[q]>>
      BY <2>1 DEF Step, Crash, BuildManifest, BeginExecution, AdaptInput, PersistInput,
                  RecordInput, Finish, TypeOK
    <2>2. ASSUME Crash(q) \/ PersistInput(q)
          PROVE  pc'[q] = "crashed" /\ next'[q] = next[q]
      <3>1. CASE Crash(q)
        BY <3>1 DEF Crash, TypeOK
      <3>2. CASE PersistInput(q)
        <4>1. ~Adds(q) \/ next[q] \notin OrdinalsOf(RunOf[q], sequence[q])
          BY DEF Adds
        <4>2. CASE KeyIsTaken(q)
          BY <3>2, <4>2 DEF PersistInput, TypeOK
        <4>3. CASE ~KeyIsTaken(q)
          <5> DEFINE row == [run |-> RunOf[q], sequence |-> sequence[q], ordinal |-> next[q],
                             event |-> work[q].event, disposition |-> DispositionFor(q)]
          <5>1. rows' = rows \union {row}
            BY <3>2, <4>3 DEF PersistInput
          <5>2. row \in rows
            BY <5>1 DEF Quiet
          <5>3. row.run = RunOf[q] /\ row.sequence = sequence[q] /\ row.ordinal = next[q]
            OBVIOUS
          <5> HIDE DEF row
          <5>4. next[q] \in OrdinalsOf(RunOf[q], sequence[q])
            BY <5>2, <5>3 DEF OrdinalsOf, RowsOf
          <5> QED
            BY <4>3, <5>4 DEF KeyIsTaken
        <4> QED
          BY <4>2, <4>3
      <3> QED
        BY <2>2, <3>1, <3>2
    <2>3. ~BuildManifest(q) /\ ~BeginExecution(q)
      BY <1>1 DEF BuildManifest, BeginExecution, PlacesAreKept
    <2>4. CASE Environment \/ UNCHANGED vars
      BY <2>4 DEF Environment, EditFixtures, ThrowKillSwitch, ReleaseKillSwitch, vars
    <2> QED
      BY <2>1, <2>2, <2>3, <2>4 DEF Next, Step
  <1> QED
    BY <1>5, <1>6, <1>7, <1>8, <1>9, <1>10

(* A row of p's execution is no row of another one's.                      *)
LEMMA OthersRows ==
  ASSUME TypeOK, ExecutionsAreExclusive, NEW p \in Procs, Adds(p), NEW q \in Procs, q # p
  PROVE  RowsOf(RunOf[q], sequence[q])' = RowsOf(RunOf[q], sequence[q])
  <1>1. PICK e, d : rows' = rows \union {[run |-> RunOf[p], sequence |-> sequence[p],
                                         ordinal |-> next[p], event |-> e, disposition |-> d]}
    BY DEF Adds
  <1>2. ~(RunOf[q] = RunOf[p] /\ sequence[q] = sequence[p])
    BY DEF ExecutionsAreExclusive, Adds
  <1> QED
    BY <1>1, <1>2 DEF RowsOf, Adds

LEMMA RowsStep ==
  /\ TypeOK /\ PlacesAreKept /\ SequencesAreAllocated /\ ExecutionsAreExclusive
  /\ RowsFollowTheLoop /\ [Next]_vars
  => RowsFollowTheLoop'
  <1> SUFFICES ASSUME TypeOK, PlacesAreKept, SequencesAreAllocated, ExecutionsAreExclusive,
                      RowsFollowTheLoop, [Next]_vars
               PROVE  RowsFollowTheLoop'
    OBVIOUS
  <1>1. ASSUME NEW p \in Procs, Allocates(p)
        PROVE  RowsFollowTheLoop'
    <2>1. /\ sequence'[p] = manifests[RunOf[p]].last + 1 /\ manifests[RunOf[p]].last \in Nat
          /\ next'[p] = 0 /\ pc'[p] = "adapting" /\ version'[p] \in Versions
          /\ rows' = rows /\ version' = version /\ next' = next
          /\ \A q \in Procs \ {p} : sequence'[q] = sequence[q] /\ pc'[q] = pc[q]
      BY <1>1 DEF Allocates, TypeOK
    <2>2. RowsOf(RunOf[p], sequence[p])' = {}
      <3>1. ASSUME NEW r \in rows, r.run = RunOf[p]
            PROVE  r.sequence # sequence'[p]
        <4>1. r.sequence \in Nat /\ r.sequence <= manifests[RunOf[p]].last
          BY <3>1 DEF SequencesAreAllocated, TypeOK
        <4> QED
          BY <2>1, <4>1
      <3> QED
        BY <2>1, <3>1 DEF RowsOf
    <2>3. Written(p, 0)'
      <3>1. OrdinalsOf(RunOf[p], sequence[p])' = {}
        BY <2>2 DEF OrdinalsOf
      <3> QED
        BY <2>2, <3>1, FS_EmptySet, UpToFacts DEF Written
    <2>4. Written(p, next[p])' /\ next'[p] <= SourceCount(version'[p])
      <3>1. SourceCount(version'[p]) \in Nat
        BY <2>1, SourceCountType
      <3>2. OrdinalsOf(RunOf[p], sequence[p])' = UpTo(0) /\ next'[p] = 0
        BY <2>1, <2>3 DEF Written
      <3> QED
        BY <2>1, <2>3, <3>1, <3>2 DEF Written
    <2>5. ASSUME NEW q \in Procs, q # p
          PROVE  \A n : Written(q, n)' <=> Written(q, n)
      BY <2>1, <2>5 DEF Written, OrdinalsOf, RowsOf
    <2>6. ASSUME NEW q \in Procs, q # p
          PROVE  /\ sequence'[q] = sequence[q] /\ pc'[q] = pc[q] /\ next'[q] = next[q]
                 /\ SourceCount(version[q])' = SourceCount(version[q])
      BY <2>1, <2>6 DEF SourceCount
    <2>7. ASSUME NEW q \in Procs, sequence'[q] # 0
          PROVE  /\ next'[q] <= SourceCount(version'[q])
                 /\ \/ Written(q, next[q])' /\ pc'[q] \notin {"recording", "stopped"}
                    \/ /\ Written(q, next[q] + 1)' /\ next'[q] < SourceCount(version'[q])
                       /\ pc'[q] \in {"recording", "stopped", "crashed"}
                 /\ pc'[q] = "persisting" => next'[q] < SourceCount(version'[q])
      <3>1. CASE q = p
        BY <2>1, <2>4, <3>1
      <3>2. CASE q # p
        <4>1. /\ sequence[q] # 0 /\ version'[q] = version[q] /\ next'[q] = next[q]
              /\ pc'[q] = pc[q]
          BY <2>1, <2>6, <2>7, <3>2
        <4>2. /\ Written(q, next[q])' <=> Written(q, next[q])
              /\ Written(q, next[q] + 1)' <=> Written(q, next[q] + 1)
          BY <2>1, <2>5, <3>2 DEF Written
        <4> QED
          BY <4>1, <4>2 DEF RowsFollowTheLoop, SourceCount
      <3> QED
        BY <3>1, <3>2
    <2> QED
      BY <2>7 DEF RowsFollowTheLoop, SourceCount
  <1>2. ASSUME NEW p \in Procs, Adds(p)
        PROVE  RowsFollowTheLoop'
    <2> DEFINE n == next[p]
               mine == RowsOf(RunOf[p], sequence[p])
    <2>1. /\ pc[p] = "persisting" /\ sequence[p] # 0 /\ n \notin OrdinalsOf(RunOf[p], sequence[p])
          /\ pc' = [pc EXCEPT ![p] = "recording"]
          /\ sequence' = sequence /\ version' = version /\ next' = next
          /\ pc'[p] = "recording" /\ n \in Nat
      BY <1>2 DEF Adds, TypeOK
    <2>2. Written(p, n) /\ n < SourceCount(version[p]) /\ n <= SourceCount(version[p])
      BY <2>1 DEF RowsFollowTheLoop
    <2>3. PICK e, d : rows' = rows \union {[run |-> RunOf[p], sequence |-> sequence[p],
                                           ordinal |-> n, event |-> e, disposition |-> d]}
      BY <1>2 DEF Adds
    <2> DEFINE row == [run |-> RunOf[p], sequence |-> sequence[p],
                       ordinal |-> n, event |-> e, disposition |-> d]
    <2>4. mine' = mine \union {row}
      BY <2>1, <2>3 DEF RowsOf
    <2>5. row \notin mine
      BY <2>1 DEF OrdinalsOf
    <2>6. /\ OrdinalsOf(RunOf[p], sequence[p])' = OrdinalsOf(RunOf[p], sequence[p]) \union {n}
      <3>1. row.ordinal = n
        OBVIOUS
      <3> QED
        BY <2>1, <2>4, <3>1 DEF OrdinalsOf
    <2>7. /\ mine' = mine \union {row}
          /\ IsFiniteSet(mine \union {row}) /\ Cardinality(mine \union {row}) = n + 1
          /\ OrdinalsOf(RunOf[p], sequence[p])' = UpTo(n + 1)
      <3>1. IsFiniteSet(mine) /\ Cardinality(mine) = n
            /\ OrdinalsOf(RunOf[p], sequence[p]) = UpTo(n)
        BY <2>2 DEF Written
      <3>2. OrdinalsOf(RunOf[p], sequence[p])' = UpTo(n + 1)
        BY <2>1, <2>6, <3>1, UpToFacts
      <3> HIDE DEF row
      <3>3. IsFiniteSet(mine \union {row})
            /\ Cardinality(mine \union {row}) = IF row \in mine THEN n ELSE n + 1
        BY <3>1, FS_AddElement
      <3> QED
        BY <2>4, <2>5, <3>2, <3>3
    <2>8. Written(p, next[p] + 1)'
      BY <2>1, <2>7 DEF Written
    <2>9. ASSUME NEW q \in Procs, q # p
          PROVE  \A k : Written(q, k)' <=> Written(q, k)
      BY <1>2, <2>9, OthersRows, WrittenKept
    <2>10. ASSUME NEW q \in Procs, q # p
           PROVE  pc'[q] = pc[q]
      BY <2>1, <2>10 DEF TypeOK
    <2> QED
      BY <2>1, <2>2, <2>8, <2>9, <2>10 DEF RowsFollowTheLoop, Written, SourceCount
  <1> QED
    BY <1>1, <1>2, StepKinds, RowsQuiet
-----------------------------------------------------------------------------
(* Success is complete.                                                    *)

LEMMA SuccessStep ==
  /\ TypeOK /\ PlacesAreKept /\ SequencesAreAllocated /\ ExecutionsAreExclusive
  /\ SuccessIsComplete /\ [Next]_vars
  => SuccessIsComplete'
  <1> SUFFICES ASSUME TypeOK, PlacesAreKept, SequencesAreAllocated, ExecutionsAreExclusive,
                      SuccessIsComplete, [Next]_vars,
                      NEW q \in Procs, pc'[q] = "succeeded"
               PROVE  /\ ledger'[q].received = SourceCount(version'[q])
                      /\ \A s \in Statuses :
                           ledger'[q][s] = Cardinality({r \in rows' :
                             /\ r.run = RunOf[q] /\ r.sequence = sequence'[q]
                             /\ StatusOf(r.disposition) = s})
    BY DEF SuccessIsComplete, SourceCount, StatusOf
  <1> USE DEF shared, local, Goto
  <1>1. CASE Finish(q)
    <2>1. /\ pc[q] = "adapting" /\ CountsOf(RunOf[q], sequence[q]) = ledger[q]
          /\ UNCHANGED <<rows, version, sequence, ledger>>
      BY <1>1 DEF Finish, TypeOK
    <2>2. manifests[RunOf[q]].version = version[q]
      BY <2>1 DEF PlacesAreKept, SequencesAreAllocated
    <2>3. ledger[q].received = SourceCount(version[q])
      BY <2>1, <2>2 DEF CountsOf
    <2>4. ASSUME NEW s \in Statuses
          PROVE  ledger[q][s] = Cardinality({r \in rows :
                   /\ r.run = RunOf[q] /\ r.sequence = sequence[q] /\ StatusOf(r.disposition) = s})
      <3>1. ledger[q][s] = Cardinality({r \in RowsOf(RunOf[q], sequence[q]) :
                                         StatusOf(r.disposition) = s})
        BY <2>1 DEF CountsOf, Statuses
      <3>2. {r \in RowsOf(RunOf[q], sequence[q]) : StatusOf(r.disposition) = s}
            = {r \in rows : /\ r.run = RunOf[q] /\ r.sequence = sequence[q]
                            /\ StatusOf(r.disposition) = s}
        BY DEF RowsOf
      <3> QED
        BY <3>1, <3>2
    <2> QED
      BY <2>1, <2>3, <2>4
  <1>2. CASE ~Finish(q)
    <2>1. pc[q] = "succeeded" /\ ledger'[q] = ledger[q] /\ sequence'[q] = sequence[q]
          /\ version'[q] = version[q]
      <3>1. ASSUME NEW p \in Procs, p # q, Step(p) \/ Crash(p)
            PROVE  pc[q] = "succeeded" /\ ledger'[q] = ledger[q] /\ sequence'[q] = sequence[q]
                   /\ version'[q] = version[q]
        BY <3>1 DEF Step, Crash, BuildManifest, BeginExecution, AdaptInput, PersistInput,
                    RecordInput, Finish, TypeOK
      <3>2. ~Step(q) /\ ~Crash(q)
        BY <1>2 DEF Step, Crash, BuildManifest, BeginExecution, AdaptInput, PersistInput,
                    RecordInput, TypeOK
      <3>3. CASE Environment \/ UNCHANGED vars
        BY <3>3 DEF Environment, EditFixtures, ThrowKillSwitch, ReleaseKillSwitch, vars
      <3> QED
        BY <3>1, <3>2, <3>3 DEF Next
    <2>2. ASSUME NEW s \in Statuses
          PROVE  {r \in rows' : /\ r.run = RunOf[q] /\ r.sequence = sequence[q]
                                /\ StatusOf(r.disposition) = s}
                 = {r \in rows : /\ r.run = RunOf[q] /\ r.sequence = sequence[q]
                                 /\ StatusOf(r.disposition) = s}
      <3>1. CASE rows' = rows
        BY <3>1
      <3>2. ASSUME NEW p \in Procs, Adds(p)
            PROVE  {r \in rows' : /\ r.run = RunOf[q] /\ r.sequence = sequence[q]
                                  /\ StatusOf(r.disposition) = s}
                   = {r \in rows : /\ r.run = RunOf[q] /\ r.sequence = sequence[q]
                                   /\ StatusOf(r.disposition) = s}
        <4>1. q # p
          BY <2>1, <3>2 DEF Adds
        <4>2. RowsOf(RunOf[q], sequence[q])' = RowsOf(RunOf[q], sequence[q])
          BY <3>2, <4>1, OthersRows
        <4> QED
          BY <2>1, <4>2 DEF RowsOf
      <3> QED
        BY <3>1, <3>2, StepKinds DEF Quiet, Allocates
    <2> QED
      BY <2>1, <2>2 DEF SuccessIsComplete
  <1> QED
    BY <1>1, <1>2
-----------------------------------------------------------------------------
(* The kill switch.                                                        *)

LEMMA SwitchStep ==
  TypeOK /\ PlacesAreKept /\ WorkIsReady /\ SwitchIsSeen /\ [Next]_vars => SwitchIsSeen'
  <1> SUFFICES ASSUME TypeOK, PlacesAreKept, WorkIsReady, SwitchIsSeen, [Next]_vars
               PROVE  SwitchIsSeen'
    OBVIOUS
  <1> USE DEF shared, local, Goto
  <1>1. ASSUME NEW p \in Procs, AdaptInput(p)
        PROVE  SwitchIsSeen'
    <2>1. PICK w \in [event: Events \union {None}, content: Contents \union {None},
                      reason: {"none", "schema_invalid", "kill_switch_engaged"}] :
            /\ work' = [work EXCEPT ![p] = w]
            /\ w.reason = "none" => ~killed /\ w.event \in Events /\ w.content \in Contents
      BY <1>1, AdaptedWork
    <2>2. pc' = [pc EXCEPT ![p] = "persisting"] /\ UNCHANGED <<killed, overrun>>
      BY <1>1 DEF AdaptInput
    <2> QED
      BY <2>1, <2>2 DEF SwitchIsSeen, TypeOK
  <1>2. ASSUME NEW p \in Procs, PersistInput(p)
        PROVE  SwitchIsSeen'
    <2>1. CASE KeyIsTaken(p)
      BY <1>2, <2>1 DEF PersistInput, SwitchIsSeen, TypeOK
    <2>2. CASE ~KeyIsTaken(p)
      <3>1. /\ pc[p] = "persisting" /\ killed' = killed
            /\ pc' = [pc EXCEPT ![p] = "recording"]
            /\ \A q \in Procs \ {p} : work'[q] = work[q]
            /\ \/ overrun' = overrun
               \/ /\ overrun' = [overrun EXCEPT ![p] = @ + 1]
                  /\ killed /\ DispositionFor(p) = "accepted"
        BY <1>2, <2>2 DEF PersistInput, TypeOK
      <3>2. CASE overrun' = overrun
        BY <3>1, <3>2 DEF SwitchIsSeen, TypeOK
      <3>3. CASE overrun' = [overrun EXCEPT ![p] = @ + 1] /\ killed /\ DispositionFor(p) = "accepted"
        <4>1. work[p].reason = "none"
          BY <3>1, <3>3, DispositionType
        <4>2. overrun[p] = 0
          <5>1. overrun[p] \in Nat
            BY DEF TypeOK
          <5>2. overrun[p] <= 1 /\ overrun[p] # 1
            BY <3>1, <3>3, <4>1 DEF SwitchIsSeen
          <5> QED
            BY <5>1, <5>2
        <4>3. overrun'[p] = 1 /\ pc'[p] = "recording"
          BY <3>1, <3>3, <4>2 DEF TypeOK
        <4>4. \A q \in Procs \ {p} :
                overrun'[q] = overrun[q] /\ pc'[q] = pc[q] /\ work'[q] = work[q]
          BY <3>1, <3>3 DEF TypeOK
        <4> QED
          BY <3>1, <4>3, <4>4 DEF SwitchIsSeen
      <3> QED
        BY <3>1, <3>2, <3>3
    <2> QED
      BY <2>1, <2>2
  <1>3. ASSUME NEW p \in Procs,
               BuildManifest(p) \/ BeginExecution(p) \/ RecordInput(p) \/ Finish(p) \/ Crash(p)
        PROVE  SwitchIsSeen'
    BY <1>3 DEF BuildManifest, BeginExecution, RecordInput, Finish, Crash, SwitchIsSeen, TypeOK
  <1>4. CASE Environment
    <2>1. CASE ThrowKillSwitch
      BY <2>1 DEF ThrowKillSwitch, SwitchIsSeen
    <2>2. CASE ReleaseKillSwitch
      BY <2>2 DEF ReleaseKillSwitch, SwitchIsSeen
    <2>3. ASSUME NEW v \in Versions, EditFixtures(v)
          PROVE  SwitchIsSeen'
      BY <2>3 DEF EditFixtures, SwitchIsSeen
    <2> QED
      BY <1>4, <2>1, <2>2, <2>3 DEF Environment
  <1>5. CASE UNCHANGED vars
    BY <1>5 DEF vars, SwitchIsSeen
  <1> QED
    BY <1>1, <1>2, <1>3, <1>4, <1>5 DEF Next, Step
-----------------------------------------------------------------------------
(* The theorems.                                                           *)

LEMMA InductiveInit == Init => IInv
  <1> SUFFICES ASSUME Init
               PROVE  IInv
    OBVIOUS
  <1>1. /\ rows = {} /\ killed = FALSE
        /\ \A p \in Procs : pc[p] = "idle" /\ sequence[p] = 0 /\ next[p] = 0 /\ overrun[p] = 0
    BY DEF Init
  <1>2. /\ PlacesAreKept /\ WorkIsReady /\ SequencesAreAllocated /\ ExecutionsAreExclusive
        /\ RowsFollowTheLoop /\ SuccessIsComplete /\ SwitchIsSeen
    BY <1>1 DEF PlacesAreKept, WorkIsReady, SequencesAreAllocated, ExecutionsAreExclusive,
                RowsFollowTheLoop, SuccessIsComplete, SwitchIsSeen
  <1> QED
    BY <1>2, TypeInit DEF IInv

LEMMA InductiveStep == IInv /\ [Next]_vars => IInv'
  BY TypeStep, PlacesStep, WorkStep, AllocatedStep, ExclusiveStep, RowsStep, SuccessStep, SwitchStep
  DEF IInv

LEMMA Inductive == Spec => []IInv
  BY InductiveInit, InductiveStep, PTL DEF Spec

(* Manifests, rows, executions and ledgers are well typed.                 *)
THEOREM TypeCorrect == Spec => []TypeOK
  <1>1. IInv => TypeOK
    BY DEF IInv
  <1> QED
    BY <1>1, Inductive, PTL

(* However many processes of a run start at once, no two share an          *)
(* execution, and all of them process the fixtures hashed first.           *)
THEOREM Exclusive == Spec => []ExecutionsAreExclusive
  <1>1. IInv => ExecutionsAreExclusive
    BY DEF IInv
  <1> QED
    BY <1>1, Inductive, PTL

(* At every moment, whichever processes have crashed, the durable rows of  *)
(* an execution are those of its first inputs, without a gap.              *)
THEOREM Prefix == Spec => []RowsAreAPrefix
  <1>1. IInv => RowsAreAPrefix
    BY DEF IInv, RowsFollowTheLoop, RowsAreAPrefix, Written, UpTo
  <1> QED
    BY <1>1, Inductive, PTL

(* An execution that stopped short of its last inputs never reconciles,    *)
(* whatever the other executions wrote, and one that is through does.      *)
THEOREM LossShows == Spec => []LossIsDetectable
  <1>1. IInv => LossIsDetectable
    <2> SUFFICES ASSUME IInv, NEW p \in Procs, sequence[p] # 0
                 PROVE  /\ next[p] + 1 < SourceCount(version[p])
                             => ~Reconciles(RunOf[p], sequence[p])
                        /\ next[p] = SourceCount(version[p]) => Reconciles(RunOf[p], sequence[p])
      BY DEF LossIsDetectable
    <2>1. /\ manifests[RunOf[p]].version = version[p] /\ version[p] \in Versions
          /\ next[p] \in Nat /\ SourceCount(version[p]) \in Nat
      BY SourceCountType DEF IInv, SequencesAreAllocated, PlacesAreKept, TypeOK
    <2>2. PICK n \in {next[p], next[p] + 1} : Written(p, n) /\ n <= SourceCount(version[p])
      BY <2>1 DEF IInv, RowsFollowTheLoop
    <2>3. n = SourceCount(version[p]) <=> Reconciles(RunOf[p], sequence[p])
      BY <2>1, <2>2, UpToFacts DEF Reconciles, Written, UpTo
    <2> QED
      BY <2>1, <2>2, <2>3
  <1> QED
    BY <1>1, Inductive, PTL

(* A process that reports success has as many durable rows of each status  *)
(* as its summary counts, and keeps them.                                  *)
THEOREM SuccessIsTrue == Spec => []SuccessIsComplete
  <1>1. IInv => SuccessIsComplete
    BY DEF IInv
  <1> QED
    BY <1>1, Inductive, PTL

(* After the kill switch is thrown a process accepts at most one more      *)
(* event, however often the switch is released and thrown again.           *)
THEOREM SwitchHolds == Spec => []KillSwitchHolds
  <1>1. IInv => KillSwitchHolds
    BY DEF IInv, SwitchIsSeen, KillSwitchHolds
  <1> QED
    BY <1>1, Inductive, PTL
=============================================================================
