----------------------------- MODULE ClaimStore -----------------------------
(***************************************************************************)
(* The claim transaction of scripts/phase2/persist.py, run by any number   *)
(* of concurrent psql sessions on one PostgreSQL database.                 *)
(*                                                                         *)
(*   BEGIN; advisory lock on the event identifier; one statement that      *)
(*   inserts the event ON CONFLICT DO NOTHING, decides the claim and       *)
(*   inserts the disposition; the identity rows of a new event; COMMIT.    *)
(*                                                                         *)
(* Sessions run READ COMMITTED: a statement reads the rows committed when  *)
(* it starts, while the unique index it inserts into is always current     *)
(* and makes it wait for an uncommitted row with the same key.  Both facts *)
(* matter only because the statement reads and inserts the same key.       *)
(*                                                                         *)
(* The lock is on the text of the identifier, the row and its index on the *)
(* UUID, and the envelope's validator lets every spelling of a UUID pass   *)
(* as it is: two spellings take two locks and meet at the index only.      *)
(***************************************************************************)
EXTENDS FiniteSets, ClaimRules

CONSTANTS
  Attempts, Events,  \* as in AtomicClaim
  Spellings, \* the ways to write a UUID
  Spelling,  \* how a content writes its event_id: part of its hash
  LockKeys,  \* the 64-bit keys of the advisory lock
  LockOf,    \* hashtextextended(event_id, 0): two texts may share a key
  NoOwner    \* nobody holds the lock

ASSUME SpellingAssumption == Spelling \in [Contents -> Spellings]
ASSUME LockAssumption == LockOf \in [Events \X Spellings -> LockKeys]
ASSUME NoOwnerAssumption == NoOwner \notin Attempts

VARIABLES
  request, events, disposed, bound,  \* the committed state, as in AtomicClaim
  lock,      \* lock[k]: the transaction that holds advisory lock k
  pc,        \* where each attempt's session is
  snapshot,  \* what the attempt's statement sees stored for its event
  claim,     \* the claim its statement decided, uncommitted until COMMIT
  answer     \* what try_claim returned (or raised) to its caller

database == <<request, events, disposed, bound>>
vars == <<request, events, disposed, bound, lock, pc, snapshot, claim, answer>>

Abstract == INSTANCE AtomicClaim
  WITH undecided <- {a \in Attempts : pc[a] = "undecided"}

NoClaim == "none"

EventOf(a) == request[a].event
ContentOf(a) == request[a].content
SpellingOf(a) == Spelling[ContentOf(a)]
KeyOf(a) == LockOf[<<EventOf(a), SpellingOf(a)>>]
IdentityIsValid(a) == Verdict[ContentOf(a)] # "rejected"

(* An attempt holds its lock, and may hold uncommitted rows, in InTransaction. *)
InTransaction == {"locked", "reading", "classified", "identified"}
Ended == {"done", "lost", "failed", "undecided"}
Places == {"idle", "waiting", "committed"} \union InTransaction \union Ended

TypeOK ==
  /\ request \in [Attempts -> Abstract!Requests]
  /\ events \in [Events -> Contents \union {None}]
  /\ disposed \in [Attempts -> Abstract!Dispositions]
  /\ bound \subseteq Events
  /\ lock \in [LockKeys -> Attempts \union {NoOwner}]
  /\ pc \in [Attempts -> Places]
  /\ snapshot \in [Attempts -> Contents \union {None}]
  /\ claim \in [Attempts -> Abstract!Claims \union {NoClaim}]
  /\ answer \in [Attempts -> Abstract!Dispositions]

Init ==
  /\ pc = [a \in Attempts |-> "idle"]
  /\ Abstract!Init
  /\ lock = [k \in LockKeys |-> NoOwner]
  /\ snapshot = [a \in Attempts |-> None]
  /\ claim = [a \in Attempts |-> NoClaim]
  /\ answer = [a \in Attempts |-> "none"]

Goto(a, place) == pc' = [pc EXCEPT ![a] = place]
-----------------------------------------------------------------------------
(* The transaction, one action per point where another session may run.    *)

(* prepare_identity is pure; psql starts and opens the transaction.        *)
Begin(a) ==
  /\ pc[a] = "idle"
  /\ Verdict[ContentOf(a)] # "unvalidated"
  /\ Goto(a, "waiting")
  /\ UNCHANGED <<database, lock, snapshot, claim, answer>>

(* Slip: pg_advisory_xact_lock_shared, which lets other claims in.         *)
LockShared(a) ==
  /\ pc[a] = "waiting"
  /\ lock' = [lock EXCEPT ![KeyOf(a)] = a]
  /\ Goto(a, "locked")
  /\ UNCHANGED <<database, snapshot, claim, answer>>

(* pg_advisory_xact_lock waits until no other transaction holds the key.   *)
Lock(a) ==
  /\ pc[a] = "waiting"
  /\ lock[KeyOf(a)] = NoOwner
  /\ lock' = [lock EXCEPT ![KeyOf(a)] = a]
  /\ Goto(a, "locked")
  /\ UNCHANGED <<database, snapshot, claim, answer>>

(* The big statement starts: it takes its own snapshot, after the lock.    *)
StartStatement(a) ==
  /\ pc[a] = "locked"
  /\ snapshot' = [snapshot EXCEPT ![a] = events[EventOf(a)]]
  /\ Goto(a, "reading")
  /\ UNCHANGED <<database, lock, claim, answer>>

HasUncommittedRow(a) ==
  pc[a] \in {"classified", "identified"} /\ claim[a] = "new"

(* Another session has inserted the same identifier and not committed.     *)
RowIsInDoubt(a) ==
  \E b \in Attempts \ {a} : EventOf(b) = EventOf(a) /\ HasUncommittedRow(b)

(* Slip: ON CONFLICT DO UPDATE, the last content wins.                     *)
InsertsOrUpdates(a) == IdentityIsValid(a)

(* INSERT ... WHERE <identity is valid> ON CONFLICT (event_id) DO NOTHING. *)
Inserts(a) == IdentityIsValid(a) /\ events[EventOf(a)] = None

(* Slip: any stored event makes a duplicate, the hashes are not compared.  *)
DecideWithoutHash(a) ==
  CASE Inserts(a) -> "new"
    [] ~Inserts(a) /\ snapshot[a] # None -> "duplicate"
    [] OTHER -> "identity_invalid"

(* The decision CTE: at most one row, and no row at all when the index     *)
(* shows an event that the snapshot does not.                              *)
Decide(a) ==
  CASE Inserts(a) -> "new"
    [] ~Inserts(a) /\ snapshot[a] # None ->
         IF snapshot[a] = ContentOf(a) THEN "duplicate" ELSE "conflict"
    [] ~Inserts(a) /\ snapshot[a] = None /\ ~IdentityIsValid(a) ->
         "identity_invalid"
    [] OTHER -> NoClaim

(* The lock is released with the transaction that took it.                 *)
ReleaseLock(a) ==
  lock' = [k \in LockKeys |-> IF lock[k] = a THEN NoOwner ELSE lock[k]]

(* Only a statement that inserts meets the index.  An empty decision has   *)
(* no row for \gset: psql stops, the session's transaction rolls back, and *)
(* the input has no disposition.                                           *)
RunStatement(a) ==
  /\ pc[a] = "reading"
  /\ IdentityIsValid(a) => ~RowIsInDoubt(a)
  /\ claim' = [claim EXCEPT ![a] = Decide(a)]
  /\ IF Decide(a) = NoClaim
     THEN Goto(a, "undecided") /\ ReleaseLock(a)
     ELSE Goto(a, "classified") /\ UNCHANGED lock
  /\ UNCHANGED <<database, snapshot, answer>>

(* Slip: the identity rows are committed by a transaction of their own.    *)
BindIdentityAlone(a) ==
  /\ pc[a] = "classified"
  /\ bound' = IF claim[a] = "new" /\ Verdict[ContentOf(a)] = "prepared"
              THEN bound \union {EventOf(a)} ELSE bound
  /\ Goto(a, "identified")
  /\ UNCHANGED <<request, events, disposed, lock, snapshot, claim, answer>>

(* \if :claim_is_new ... the identity rows, in the same transaction.       *)
BindIdentity(a) ==
  /\ pc[a] = "classified"
  /\ Goto(a, "identified")
  /\ UNCHANGED <<database, lock, snapshot, claim, answer>>

(* Slip: a session lock (pg_advisory_lock) outlives the transaction.       *)
CommitKeepingLock(a) ==
  /\ pc[a] = "identified"
  /\ Abstract!Apply(a, claim[a])
  /\ Goto(a, "committed")
  /\ UNCHANGED <<lock, snapshot, claim, answer>>

Commit(a) ==
  /\ pc[a] = "identified"
  /\ Abstract!Apply(a, claim[a])
  /\ ReleaseLock(a)
  /\ Goto(a, "committed")
  /\ UNCHANGED <<snapshot, claim, answer>>

(* Slip: the claim is returned before the transaction has committed.       *)
AcknowledgeEarly(a) ==
  /\ pc[a] \in {"classified", "committed"}
  /\ answer' = [answer EXCEPT ![a] =
       IF claim[a] = NoClaim THEN "schema_invalid"
       ELSE Abstract!DispositionOf[claim[a]]]
  /\ IF pc[a] = "committed" THEN Goto(a, "done") ELSE UNCHANGED pc
  /\ UNCHANGED <<database, lock, snapshot, claim>>

(* Slip: the claim's own name is returned as the outcome.                  *)
AcknowledgeClaim(a) ==
  /\ pc[a] = "committed"
  /\ answer' = [answer EXCEPT ![a] = claim[a]]
  /\ Goto(a, "done")
  /\ UNCHANGED <<database, lock, snapshot, claim>>

(* psql's output reaches the caller, who gets the claim or, for an invalid *)
(* identity, an IdentityQuarantined exception after the commit.            *)
Acknowledge(a) ==
  /\ pc[a] = "committed"
  /\ answer' = [answer EXCEPT ![a] =
       IF claim[a] = NoClaim THEN "schema_invalid"
       ELSE Abstract!DispositionOf[claim[a]]]
  /\ Goto(a, "done")
  /\ UNCHANGED <<database, lock, snapshot, claim>>

(* persist_quarantine: one INSERT in its own transaction, no lock and no   *)
(* event row, whatever identifier the rejected candidate carries.          *)
PersistQuarantine(a) ==
  /\ pc[a] = "idle"
  /\ Verdict[ContentOf(a)] = "unvalidated"
  /\ disposed' = [disposed EXCEPT ![a] = "schema_invalid"]
  /\ Goto(a, "committed")
  /\ UNCHANGED <<request, events, bound, lock, snapshot, claim, answer>>

(* The process, its psql or the server's session dies.  Before COMMIT the  *)
(* server rolls back and frees the lock; after it only the answer is lost. *)
Crash(a) ==
  /\ pc[a] \in {"waiting", "committed"} \union InTransaction
  /\ Goto(a, IF pc[a] = "committed" THEN "lost" ELSE "failed")
  /\ ReleaseLock(a)
  /\ UNCHANGED <<database, snapshot, claim, answer>>

Step(a) ==
  \/ Begin(a) \/ Lock(a) \/ StartStatement(a) \/ RunStatement(a)
  \/ BindIdentity(a) \/ Commit(a) \/ Acknowledge(a) \/ PersistQuarantine(a)

(* Every attempt has ended: nothing is left to do.                         *)
Finished == (\A a \in Attempts : pc[a] \in Ended) /\ UNCHANGED vars

Next == (\E a \in Attempts : Step(a) \/ Crash(a)) \/ Finished

Spec == Init /\ [][Next]_vars

(* PostgreSQL and psql keep running a session that does not crash; a lock  *)
(* that is free is given to a waiter.                                      *)
FairSpec == Spec /\ \A a \in Attempts : WF_vars(Step(a))
-----------------------------------------------------------------------------
(* Properties.                                                             *)

(* Every session that reaches its decision has one.  It holds where an     *)
(* identifier has one spelling, and is not a promise of the code otherwise.*)
EveryClaimIsDecided == \A a \in Attempts : pc[a] # "undecided"

(* All an input can lose to a race: its decision is empty only where the   *)
(* event is stored under another spelling, never against a claim that took *)
(* the same lock.                                                          *)
OnlyRespelledIsUndecided ==
  \A a \in Attempts :
    pc[a] = "undecided" => Abstract!StoredRespelled(EventOf(a), ContentOf(a))

(* First wins, durably: an identifier is stored exactly when one, and only *)
(* one, attempt has an accepted disposition for it, with that content.     *)
AcceptedOnce ==
  \A e \in Events :
    LET winners == {a \in Attempts : disposed[a] = "accepted" /\ EventOf(a) = e}
    IN  IF events[e] = None
        THEN winners = {}
        ELSE \E w \in winners : winners = {w} /\ ContentOf(w) = events[e]

(* The losers agree with the winner: a duplicate repeats the stored        *)
(* content, a conflict differs from it, and only content whose identity    *)
(* is rejected is quarantined for its identity.                            *)
LosersAgreeWithStore ==
  \A a \in Attempts :
    /\ disposed[a] = "duplicate" => events[EventOf(a)] = ContentOf(a)
    /\ disposed[a] = "event_id_content_conflict" =>
         events[EventOf(a)] \notin {None, ContentOf(a)}
    /\ disposed[a] = "identity_conflict" => ~IdentityIsValid(a)

(* "Commit one event, disposition, and identity unit": the identity rows   *)
(* of an identifier are there exactly when its stored content has a        *)
(* prepared identity, whatever crash fell between the three inserts.       *)
IdentityIsOneUnit ==
  bound = {e \in Events : events[e] # None /\ Verdict[events[e]] = "prepared"}

(* What a caller was told is durable: the acknowledged outcome is that of  *)
(* the committed row ("durable per input from the moment its disposition   *)
(* transaction is acknowledged").                                          *)
AcknowledgedIsDurable ==
  \A a \in Attempts : answer[a] # "none" => disposed[a] = answer[a]

(* The lock keeps apart the transactions whose identifiers have the same   *)
(* text, from the snapshot to the commit; the index keeps apart the        *)
(* uncommitted rows of one UUID, however it is spelled.                    *)
LockExcludes ==
  \A a, b \in Attempts :
    /\ pc[a] \in InTransaction /\ pc[b] \in InTransaction
    /\ EventOf(a) = EventOf(b) /\ SpellingOf(a) = SpellingOf(b)
    => a = b

IndexExcludes ==
  \A a, b \in Attempts :
    /\ HasUncommittedRow(a) /\ HasUncommittedRow(b)
    /\ EventOf(a) = EventOf(b)
    => a = b /\ events[EventOf(a)] = None

(* The transactions implement the indivisible claim: each step is a step   *)
(* of AtomicClaim or leaves its variables alone.  An attempt overlooks the *)
(* stored event only where the two are spelled differently.                *)
ImplementsAtomicClaim == Abstract!Spec

(* No call waits for ever on the lock, whatever crashes around it.         *)
EveryCallEnds == \A a \in Attempts : pc[a] = "waiting" ~> pc[a] \in Ended
=============================================================================
