-------------------------- MODULE ClaimStoreProofs --------------------------
(***************************************************************************)
(* Proofs about the claim transaction, for every set of calls, identifiers *)
(* and contents, every spelling of the identifiers and every lock key.     *)
(***************************************************************************)
EXTENDS ClaimStore, TLAPS

USE VerdictAssumption, NoneAssumption, SpellingAssumption, LockAssumption,
    NoOwnerAssumption

(* A transaction past the lock is the lock's owner.                        *)
OwnersHold == \A a \in Attempts : pc[a] \in InTransaction => lock[KeyOf(a)] = a

(* Only a validated content is in a transaction, and an attempt that has   *)
(* not committed has no disposition.                                       *)
UncommittedIsUndisposed ==
  \A a \in Attempts :
    /\ pc[a] \in InTransaction \union {"waiting"} =>
         Verdict[ContentOf(a)] # "unvalidated"
    /\ pc[a] \notin {"committed", "done", "lost"} => disposed[a] = "none"

(* The stored event spells the attempt's identifier in another way: the    *)
(* attempt's lock has not kept the event's transaction out.                *)
Respelled(a) == Abstract!StoredRespelled(EventOf(a), ContentOf(a))

(* A statement sees the stored event, or misses one spelled otherwise.     *)
ReadsAreCurrent ==
  \A a \in Attempts :
    pc[a] = "reading" =>
      \/ snapshot[a] = events[EventOf(a)]
      \/ snapshot[a] = None /\ Respelled(a)

(* The claim a statement decided is still the right one when it commits,   *)
(* or a rejected identity that missed the stored event.                    *)
ClaimsAreCurrent ==
  \A a \in Attempts :
    pc[a] \in {"classified", "identified"} =>
      \/ claim[a] = Abstract!Classify(events[EventOf(a)], ContentOf(a))
      \/ claim[a] = "identity_invalid" /\ ~IdentityIsValid(a) /\ Respelled(a)

IInv ==
  /\ TypeOK
  /\ OwnersHold
  /\ UncommittedIsUndisposed
  /\ ReadsAreCurrent
  /\ ClaimsAreCurrent
  /\ IndexExcludes
  /\ OnlyRespelledIsUndecided
-----------------------------------------------------------------------------
(* Type correctness.                                                       *)

LEMMA DispositionOfType ==
  Abstract!DispositionOf \in [Abstract!Claims -> Abstract!Dispositions \ {"none"}]
  BY DEF Abstract!DispositionOf, Abstract!Claims, Abstract!Dispositions

LEMMA ClassifyType ==
  ASSUME NEW s, NEW c
  PROVE  Abstract!Classify(s, c) \in Abstract!Claims
  BY DEF Abstract!Classify, Abstract!Claims

LEMMA ApplyType ==
  ASSUME TypeOK, NEW a \in Attempts, NEW q \in Abstract!Claims, Abstract!Apply(a, q)
  PROVE  /\ request' = request
         /\ events' \in [Events -> Contents \union {None}]
         /\ disposed' \in [Attempts -> Abstract!Dispositions]
         /\ bound' \subseteq Events
  <1>1. /\ request[a].event \in Events
        /\ request[a].content \in Contents
    BY DEF TypeOK, Abstract!Requests
  <1>2. Abstract!DispositionOf[q] \in Abstract!Dispositions
    BY DispositionOfType
  <1> QED
    BY <1>1, <1>2 DEF TypeOK, Abstract!Apply

LEMMA DecideType ==
  ASSUME NEW a \in Attempts
  PROVE  Decide(a) \in Abstract!Claims \union {NoClaim}
  <1>1. CASE Inserts(a)
    BY <1>1 DEF Decide, Abstract!Claims
  <1>2. CASE ~Inserts(a) /\ snapshot[a] # None
    BY <1>2 DEF Decide, Abstract!Claims
  <1>3. CASE ~Inserts(a) /\ snapshot[a] = None /\ ~IdentityIsValid(a)
    BY <1>3 DEF Decide, Abstract!Claims
  <1>4. CASE ~Inserts(a) /\ snapshot[a] = None /\ IdentityIsValid(a)
    BY <1>4 DEF Decide
  <1> QED
    BY <1>1, <1>2, <1>3, <1>4

LEMMA TypeInit == Init => TypeOK
  BY DEF Init, TypeOK, Abstract!Init, Abstract!Dispositions, Places

LEMMA TypeStep == TypeOK /\ ClaimsAreCurrent /\ [Next]_vars => TypeOK'
  <1> SUFFICES ASSUME TypeOK, ClaimsAreCurrent, [Next]_vars
               PROVE  TypeOK'
    OBVIOUS
  <1> USE DEF TypeOK, Places, InTransaction, Ended, Goto, ReleaseLock, database
  <1>1. ASSUME NEW a \in Attempts, Begin(a)
        PROVE  TypeOK'
    BY <1>1 DEF Begin
  <1>2. ASSUME NEW a \in Attempts, Lock(a)
        PROVE  TypeOK'
    BY <1>2 DEF Lock
  <1>3. ASSUME NEW a \in Attempts, StartStatement(a)
        PROVE  TypeOK'
    BY <1>3 DEF StartStatement, EventOf, Abstract!Requests
  <1>4. ASSUME NEW a \in Attempts, RunStatement(a)
        PROVE  TypeOK'
    <2>1. claim' \in [Attempts -> Abstract!Claims \union {NoClaim}]
      BY <1>4, DecideType DEF RunStatement
    <2>2. lock' \in [LockKeys -> Attempts \union {NoOwner}]
      BY <1>4 DEF RunStatement
    <2>3. pc' \in [Attempts -> Places]
      BY <1>4 DEF RunStatement
    <2> QED
      BY <1>4, <2>1, <2>2, <2>3 DEF RunStatement
  <1>5. ASSUME NEW a \in Attempts, BindIdentity(a)
        PROVE  TypeOK'
    BY <1>5 DEF BindIdentity
  <1>6. ASSUME NEW a \in Attempts, Commit(a)
        PROVE  TypeOK'
    <2>1. claim[a] \in Abstract!Claims
      BY <1>6, ClassifyType DEF Commit, ClaimsAreCurrent, Abstract!Claims
    <2> QED
      BY <1>6, <2>1, ApplyType DEF Commit
  <1>7. ASSUME NEW a \in Attempts, Acknowledge(a)
        PROVE  TypeOK'
    <2>1. Abstract!Dispositions \ {"none"} \subseteq Abstract!Dispositions
          /\ "schema_invalid" \in Abstract!Dispositions
      BY DEF Abstract!Dispositions
    <2>2. answer' \in [Attempts -> Abstract!Dispositions]
      BY <1>7, <2>1, DispositionOfType DEF Acknowledge, NoClaim
    <2> QED
      BY <1>7, <2>2 DEF Acknowledge
  <1>8. ASSUME NEW a \in Attempts, PersistQuarantine(a)
        PROVE  TypeOK'
    BY <1>8 DEF PersistQuarantine, Abstract!Dispositions
  <1>9. ASSUME NEW a \in Attempts, Crash(a)
        PROVE  TypeOK'
    BY <1>9 DEF Crash
  <1>10. CASE UNCHANGED vars
    BY <1>10 DEF vars
  <1> QED
    BY <1>1, <1>2, <1>3, <1>4, <1>5, <1>6, <1>7, <1>8, <1>9, <1>10
    DEF Next, Step, Finished
-----------------------------------------------------------------------------
(* The inductive invariant.                                                *)

(* The decision CTE computes the claim of the abstract store, or it misses *)
(* an event spelled otherwise: then it is empty, unless it is the verdict  *)
(* on a rejected identity.                                                 *)
LEMMA DecideOutcome ==
  ASSUME TypeOK, ReadsAreCurrent, NEW a \in Attempts, pc[a] = "reading"
  PROVE  \/ Decide(a) = Abstract!Classify(events[EventOf(a)], ContentOf(a))
         \/ Decide(a) = "identity_invalid" /\ ~IdentityIsValid(a) /\ Respelled(a)
         \/ Decide(a) = NoClaim /\ IdentityIsValid(a) /\ Respelled(a)
  <1> DEFINE stored == events[EventOf(a)]
  <1>1. CASE snapshot[a] # None
    <2>1. snapshot[a] = stored /\ ~Inserts(a)
      BY <1>1 DEF ReadsAreCurrent, Inserts
    <2>2. Decide(a) = IF snapshot[a] = ContentOf(a) THEN "duplicate" ELSE "conflict"
      BY <1>1, <2>1 DEF Decide
    <2> QED
      BY <1>1, <2>1, <2>2 DEF Abstract!Classify
  <1>2. CASE snapshot[a] = None /\ stored = None /\ IdentityIsValid(a)
    BY <1>2 DEF Decide, Inserts, IdentityIsValid, Abstract!Classify
  <1>3. CASE snapshot[a] = None /\ stored = None /\ ~IdentityIsValid(a)
    <2>1. Decide(a) = "identity_invalid"
      BY <1>3 DEF Decide, Inserts
    <2> QED
      BY <1>3, <2>1 DEF IdentityIsValid, Abstract!Classify
  <1>4. CASE snapshot[a] = None /\ stored # None
    <2>1. Respelled(a) /\ ~Inserts(a)
      BY <1>4 DEF ReadsAreCurrent, Inserts
    <2>2. Decide(a) = IF IdentityIsValid(a) THEN NoClaim ELSE "identity_invalid"
      BY <1>4, <2>1 DEF Decide
    <2> QED
      BY <2>1, <2>2
  <1> QED
    BY <1>1, <1>2, <1>3, <1>4

LEMMA ClassifyIsClaim ==
  ASSUME NEW s, NEW c
  PROVE  Abstract!Classify(s, c) # NoClaim
  BY DEF Abstract!Classify, NoClaim

(* No step of the store changes what an attempt submits.                   *)
LEMMA RequestsAreFixed ==
  ASSUME [Next]_vars
  PROVE  /\ request' = request
         /\ \A a \in Attempts : /\ EventOf(a)' = EventOf(a)
                                /\ ContentOf(a)' = ContentOf(a)
                                /\ KeyOf(a)' = KeyOf(a)
                                /\ SpellingOf(a)' = SpellingOf(a)
                                /\ IdentityIsValid(a)' = IdentityIsValid(a)
  <1>1. request' = request
    BY DEF Next, Step, Finished, Begin, Lock, StartStatement, RunStatement,
           BindIdentity, Commit, Acknowledge, PersistQuarantine, Crash,
           Abstract!Apply, vars, database
  <1> QED
    BY <1>1 DEF EventOf, ContentOf, KeyOf, SpellingOf, IdentityIsValid

(* Ending one transaction leaves the locks of the others in their hands.   *)
LEMMA ReleaseKeepsOthers ==
  ASSUME TypeOK, NEW a \in Attempts, NEW b \in Attempts, b # a,
         ReleaseLock(a), lock[KeyOf(b)] = b
  PROVE  lock'[KeyOf(b)] = b
  <1>1. KeyOf(b) \in LockKeys
    BY DEF TypeOK, KeyOf, SpellingOf, EventOf, ContentOf, Abstract!Requests
  <1> QED
    BY <1>1 DEF ReleaseLock

(* Two transactions past the lock work on different texts.                 *)
LEMMA OwnersExclude == TypeOK /\ OwnersHold => LockExcludes
  BY DEF TypeOK, OwnersHold, LockExcludes, KeyOf

(* A commit stores its content only where nothing was stored.              *)
LEMMA CommitStores ==
  ASSUME IInv, NEW a \in Attempts, Commit(a)
  PROVE  \/ events' = events /\ claim[a] # "new"
         \/ /\ claim[a] = "new"
            /\ events[EventOf(a)] = None
            /\ events' = [events EXCEPT ![EventOf(a)] = ContentOf(a)]
            /\ ContentOf(a) # None
  <1>1. claim[a] = "new" => events[EventOf(a)] = None
    BY DEF Commit, IInv, ClaimsAreCurrent, Abstract!Classify
  <1>2. ContentOf(a) # None
    BY DEF IInv, TypeOK, ContentOf, Abstract!Requests
  <1> QED
    BY <1>1, <1>2 DEF Commit, Abstract!Apply, EventOf, ContentOf

LEMMA CommitClaims ==
  ASSUME IInv, NEW a \in Attempts, Commit(a)
  PROVE  claim[a] \in Abstract!Claims /\ claim[a] # NoClaim
  BY ClassifyType DEF Commit, IInv, ClaimsAreCurrent, Abstract!Claims, NoClaim

(* The stored event of another attempt stays as it is, or was missing and  *)
(* is now there, under another spelling if that attempt is past its lock.  *)
LEMMA CommitAndTheOthers ==
  ASSUME IInv, [Next]_vars, NEW a \in Attempts, Commit(a),
         NEW b \in Attempts, b # a
  PROVE  /\ events[EventOf(b)] # None => events'[EventOf(b)] = events[EventOf(b)]
         /\ pc[b] \in InTransaction =>
              \/ events'[EventOf(b)] = events[EventOf(b)]
              \/ /\ claim[a] = "new" /\ EventOf(a) = EventOf(b)
                 /\ events[EventOf(b)] = None
                 /\ Respelled(b)'
  <1>0. TypeOK /\ EventOf(b) \in Events
    BY DEF IInv, TypeOK, EventOf, Abstract!Requests
  <1>1. events[EventOf(b)] # None => events'[EventOf(b)] = events[EventOf(b)]
    BY <1>0, CommitStores DEF TypeOK
  <1>2. ASSUME pc[b] \in InTransaction, events'[EventOf(b)] # events[EventOf(b)]
        PROVE  /\ claim[a] = "new" /\ EventOf(a) = EventOf(b)
               /\ events[EventOf(b)] = None
               /\ Respelled(b)'
    <2>1. /\ claim[a] = "new" /\ EventOf(a) = EventOf(b)
          /\ events[EventOf(b)] = None
          /\ events'[EventOf(b)] = ContentOf(a)
          /\ ContentOf(a) # None
      BY <1>0, <1>2, CommitStores DEF TypeOK
    <2>2. SpellingOf(a) # SpellingOf(b)
      BY <1>2, <2>1, OwnersExclude DEF IInv, LockExcludes, Commit, InTransaction
    <2> QED
      BY <2>1, <2>2, RequestsAreFixed
      DEF Respelled, Abstract!StoredRespelled, SpellingOf, EventOf, ContentOf
  <1> QED
    BY <1>1, <1>2

(* What is stored stays stored, so an attempt that was beaten stays so.    *)
LEMMA RespelledStays ==
  ASSUME [Next]_vars, NEW b \in Attempts, Respelled(b),
         events[EventOf(b)] # None => events'[EventOf(b)] = events[EventOf(b)]
  PROVE  Respelled(b)'
  BY RequestsAreFixed
  DEF Respelled, Abstract!StoredRespelled, EventOf, ContentOf

LEMMA InvInit == Init => IInv
  <1> SUFFICES ASSUME Init
               PROVE  IInv
    OBVIOUS
  <1>1. TypeOK
    BY TypeInit
  <1>2. /\ OwnersHold /\ UncommittedIsUndisposed
        /\ ReadsAreCurrent /\ ClaimsAreCurrent
        /\ IndexExcludes /\ OnlyRespelledIsUndecided
    BY DEF Init, Abstract!Init, OwnersHold, UncommittedIsUndisposed,
           ReadsAreCurrent, ClaimsAreCurrent, IndexExcludes, HasUncommittedRow,
           OnlyRespelledIsUndecided, InTransaction
  <1> QED
    BY <1>1, <1>2 DEF IInv

(* A step of one attempt that neither decides nor commits.                 *)
LEMMA QuietStep ==
  ASSUME IInv, [Next]_vars, NEW a \in Attempts,
         \/ Begin(a) \/ Lock(a) \/ StartStatement(a) \/ BindIdentity(a)
         \/ Acknowledge(a) \/ PersistQuarantine(a)
  PROVE  IInv'
  <1> USE RequestsAreFixed
  <1> USE DEF IInv, TypeOK, InTransaction, Goto, database
  <1>1. TypeOK'
    BY TypeStep
  <1>2. OwnersHold'
    <2>1. CASE Lock(a)
      <3>1. /\ lock[KeyOf(a)] = NoOwner
            /\ lock' = [lock EXCEPT ![KeyOf(a)] = a]
            /\ \A b \in Attempts \ {a} : pc'[b] = pc[b]
        BY <2>1 DEF Lock
      <3>2. \A b \in Attempts : KeyOf(b) \in LockKeys
        BY DEF KeyOf, SpellingOf, EventOf, ContentOf, Abstract!Requests
      <3>3. \A b \in Attempts \ {a} : pc[b] \in InTransaction => lock'[KeyOf(b)] = b
        BY <3>1, <3>2 DEF OwnersHold
      <3>4. lock'[KeyOf(a)] = a
        BY <3>1, <3>2
      <3> QED
        BY <3>1, <3>3, <3>4 DEF OwnersHold
    <2>2. CASE \/ Begin(a) \/ StartStatement(a) \/ BindIdentity(a)
               \/ Acknowledge(a) \/ PersistQuarantine(a)
      BY <2>2 DEF Begin, StartStatement, BindIdentity, Acknowledge,
         PersistQuarantine, OwnersHold
    <2> QED
      BY <2>1, <2>2
  <1>3. UncommittedIsUndisposed'
    BY DEF Begin, Lock, StartStatement, BindIdentity, Acknowledge,
       PersistQuarantine, UncommittedIsUndisposed
  <1>4. events' = events /\ claim' = claim
    BY DEF Begin, Lock, StartStatement, BindIdentity, Acknowledge,
       PersistQuarantine
  <1>5. \A b \in Attempts : Respelled(b)' = Respelled(b)
    BY <1>4 DEF Respelled, Abstract!StoredRespelled
  <1>6. ReadsAreCurrent'
    BY <1>5 DEF Begin, Lock, StartStatement, BindIdentity, Acknowledge,
       PersistQuarantine, ReadsAreCurrent
  <1>7. \A b \in Attempts :
          /\ pc'[b] \in {"classified", "identified"} =>
               pc[b] \in {"classified", "identified"}
          /\ pc'[b] = "undecided" => pc[b] = "undecided"
    BY DEF Begin, Lock, StartStatement, BindIdentity, Acknowledge,
       PersistQuarantine
  <1>8. ClaimsAreCurrent'
    BY <1>4, <1>5, <1>7 DEF ClaimsAreCurrent
  <1>9. IndexExcludes'
    BY <1>4, <1>7 DEF IndexExcludes, HasUncommittedRow
  <1>10. OnlyRespelledIsUndecided'
    BY <1>5, <1>7 DEF OnlyRespelledIsUndecided, Respelled
  <1> QED
    BY <1>1, <1>2, <1>3, <1>6, <1>8, <1>9, <1>10

(* The statement decides: its claim is right, or it has missed an event    *)
(* spelled otherwise; it inserts only where no other row is in doubt.      *)
LEMMA DecidingStep ==
  ASSUME IInv, [Next]_vars, NEW a \in Attempts, RunStatement(a)
  PROVE  IInv'
  <1> USE RequestsAreFixed
  <1> USE DEF IInv, TypeOK, InTransaction
  <1>0. TypeOK'
    BY TypeStep
  <1>1. /\ pc[a] = "reading"
        /\ IdentityIsValid(a) => ~RowIsInDoubt(a)
        /\ claim' = [claim EXCEPT ![a] = Decide(a)]
        /\ UNCHANGED <<request, events, disposed, bound, snapshot, answer>>
        /\ pc' = [pc EXCEPT ![a] =
                    IF Decide(a) = NoClaim THEN "undecided" ELSE "classified"]
        /\ Decide(a) # NoClaim => lock' = lock
        /\ Decide(a) = NoClaim => ReleaseLock(a)
    BY DEF RunStatement, Goto, database
  <1>2. /\ \A b \in Attempts \ {a} : pc'[b] = pc[b] /\ claim'[b] = claim[b]
        /\ pc'[a] = IF Decide(a) = NoClaim THEN "undecided" ELSE "classified"
        /\ claim'[a] = Decide(a)
    BY <1>1
  <1>3. \A b \in Attempts : Respelled(b)' = Respelled(b)
    BY <1>1 DEF Respelled, Abstract!StoredRespelled
  <1>4. OwnersHold'
    <2>1. CASE Decide(a) # NoClaim
      BY <1>1, <1>2, <2>1 DEF OwnersHold
    <2>2. CASE Decide(a) = NoClaim
      BY <1>1, <1>2, <2>2, ReleaseKeepsOthers DEF OwnersHold
    <2> QED
      BY <2>1, <2>2
  <1>5. UncommittedIsUndisposed' /\ ReadsAreCurrent'
    BY <1>1, <1>2, <1>3 DEF UncommittedIsUndisposed, ReadsAreCurrent
  <1>6. ClaimsAreCurrent'
    <2>1. \A b \in Attempts \ {a} :
            pc'[b] \in {"classified", "identified"} =>
              \/ claim'[b] = Abstract!Classify(events'[EventOf(b)], ContentOf(b))
              \/ claim'[b] = "identity_invalid" /\ ~IdentityIsValid(b) /\ Respelled(b)'
      BY <1>1, <1>2, <1>3 DEF ClaimsAreCurrent
    <2>2. pc'[a] \in {"classified", "identified"} =>
            \/ claim'[a] = Abstract!Classify(events'[EventOf(a)], ContentOf(a))
            \/ claim'[a] = "identity_invalid" /\ ~IdentityIsValid(a) /\ Respelled(a)'
      BY <1>1, <1>2, <1>3, DecideOutcome
    <2>3. \A b \in Attempts :
            Abstract!Classify(events[EventOf(b)], ContentOf(b))'
              = Abstract!Classify(events'[EventOf(b)], ContentOf(b))
      BY DEF Abstract!Classify
    <2> QED
      BY <2>1, <2>2, <2>3 DEF ClaimsAreCurrent
  <1>7. IndexExcludes'
    <2>1. Decide(a) = "new" =>
            /\ events[EventOf(a)] = None
            /\ \A b \in Attempts \ {a} :
                 EventOf(b) = EventOf(a) => ~HasUncommittedRow(b)
      BY <1>1 DEF Decide, Inserts, RowIsInDoubt, NoClaim
    <2>2. \A b \in Attempts \ {a} : HasUncommittedRow(b)' = HasUncommittedRow(b)
      BY <1>2 DEF HasUncommittedRow
    <2>3. HasUncommittedRow(a)' => Decide(a) = "new"
      BY <1>2 DEF HasUncommittedRow
    <2> SUFFICES ASSUME NEW b \in Attempts, NEW d \in Attempts,
                        HasUncommittedRow(b)', HasUncommittedRow(d)',
                        EventOf(b) = EventOf(d)
                 PROVE  b = d /\ events[EventOf(b)] = None
      BY <1>1 DEF IndexExcludes
    <2>4. CASE b # a /\ d # a
      BY <2>2, <2>4 DEF IndexExcludes
    <2>5. CASE b = a
      BY <2>1, <2>2, <2>3, <2>5
    <2>6. CASE d = a
      BY <2>1, <2>2, <2>3, <2>6
    <2> QED
      BY <2>4, <2>5, <2>6
  <1>8. OnlyRespelledIsUndecided'
    <2>1. Decide(a) = NoClaim => Respelled(a)
      BY <1>1, DecideOutcome, ClassifyIsClaim DEF NoClaim
    <2> QED
      BY <1>1, <1>2, <1>3, <2>1 DEF OnlyRespelledIsUndecided, Respelled
  <1> QED
    BY <1>0, <1>4, <1>5, <1>6, <1>7, <1>8

(* A commit makes a new event visible: the transactions it can take by     *)
(* surprise are those that spell the identifier in another way.            *)
LEMMA CommittingStep ==
  ASSUME IInv, [Next]_vars, NEW a \in Attempts, Commit(a)
  PROVE  IInv'
  <1> USE RequestsAreFixed
  <1> USE DEF IInv, TypeOK, InTransaction
  <1>0. TypeOK'
    BY TypeStep
  <1>1. /\ pc[a] = "identified"
        /\ pc'[a] = "committed"
        /\ \A b \in Attempts \ {a} : pc'[b] = pc[b] /\ disposed'[b] = disposed[b]
        /\ UNCHANGED <<snapshot, claim>>
        /\ ReleaseLock(a)
    BY DEF Commit, Goto, Abstract!Apply
  <1>2. OwnersHold'
    BY <1>1, ReleaseKeepsOthers DEF OwnersHold
  <1>3. UncommittedIsUndisposed'
    BY <1>1 DEF UncommittedIsUndisposed
  <1>4. ReadsAreCurrent'
    <2> SUFFICES ASSUME NEW b \in Attempts, pc'[b] = "reading"
                 PROVE  \/ snapshot[b] = events'[EventOf(b)]
                        \/ snapshot[b] = None /\ Respelled(b)'
      BY <1>1 DEF ReadsAreCurrent
    <2>1. b # a /\ pc[b] = "reading"
      BY <1>1
    <2>2. \/ snapshot[b] = events[EventOf(b)]
          \/ snapshot[b] = None /\ Respelled(b)
      BY <2>1 DEF ReadsAreCurrent
    <2>3. CASE snapshot[b] = events[EventOf(b)]
      BY <2>1, <2>3, CommitAndTheOthers
    <2>4. CASE snapshot[b] = None /\ Respelled(b)
      BY <2>1, <2>4, CommitAndTheOthers, RespelledStays
    <2> QED
      BY <2>2, <2>3, <2>4
  <1>5. ClaimsAreCurrent'
    <2> SUFFICES ASSUME NEW b \in Attempts, pc'[b] \in {"classified", "identified"}
                 PROVE  \/ claim[b] = Abstract!Classify(events'[EventOf(b)], ContentOf(b))
                        \/ /\ claim[b] = "identity_invalid"
                           /\ ~IdentityIsValid(b) /\ Respelled(b)'
      BY <1>1 DEF ClaimsAreCurrent, Abstract!Classify
    <2>1. b # a /\ pc[b] \in {"classified", "identified"}
      BY <1>1
    <2>2. CASE claim[b] = Abstract!Classify(events[EventOf(b)], ContentOf(b))
      <3>1. CASE events'[EventOf(b)] = events[EventOf(b)]
        BY <2>2, <3>1
      <3>2. CASE events'[EventOf(b)] # events[EventOf(b)]
        <4>1. /\ claim[a] = "new" /\ EventOf(a) = EventOf(b)
              /\ events[EventOf(b)] = None
              /\ Respelled(b)'
          BY <2>1, <3>2, CommitAndTheOthers
        <4>2. claim[b] # "new"
          BY <1>1, <2>1, <4>1 DEF IndexExcludes, HasUncommittedRow
        <4>3. claim[b] = "identity_invalid" /\ ~IdentityIsValid(b)
          BY <2>2, <4>1, <4>2 DEF Abstract!Classify, IdentityIsValid
        <4> QED
          BY <4>1, <4>3
      <3> QED
        BY <3>1, <3>2
    <2>3. CASE claim[b] = "identity_invalid" /\ ~IdentityIsValid(b) /\ Respelled(b)
      BY <2>1, <2>3, CommitAndTheOthers, RespelledStays
    <2> QED
      BY <2>1, <2>2, <2>3 DEF ClaimsAreCurrent
  <1>6. IndexExcludes'
    <2> SUFFICES ASSUME NEW b \in Attempts, NEW d \in Attempts,
                        HasUncommittedRow(b)', HasUncommittedRow(d)',
                        EventOf(b) = EventOf(d)
                 PROVE  b = d /\ events'[EventOf(b)] = None
      BY DEF IndexExcludes
    <2>1. b # a /\ HasUncommittedRow(b) /\ HasUncommittedRow(d)
      BY <1>1 DEF HasUncommittedRow
    <2>2. b = d /\ events[EventOf(b)] = None
      BY <2>1 DEF IndexExcludes
    <2>3. events'[EventOf(b)] = events[EventOf(b)]
      <3>1. pc[b] \in InTransaction
        BY <2>1 DEF HasUncommittedRow
      <3>2. ~(claim[a] = "new" /\ EventOf(a) = EventOf(b))
        BY <1>1, <2>1 DEF IndexExcludes, HasUncommittedRow
      <3> QED
        BY <2>1, <3>1, <3>2, CommitAndTheOthers
    <2> QED
      BY <2>2, <2>3
  <1>7. OnlyRespelledIsUndecided'
    BY <1>1, CommitAndTheOthers, RespelledStays
    DEF OnlyRespelledIsUndecided, Respelled
  <1> QED
    BY <1>0, <1>2, <1>3, <1>4, <1>5, <1>6, <1>7

(* A lost session gives up its lock and its uncommitted rows.              *)
LEMMA CrashingStep ==
  ASSUME IInv, [Next]_vars, NEW a \in Attempts, Crash(a)
  PROVE  IInv'
  <1> USE RequestsAreFixed
  <1> USE DEF IInv, TypeOK
  <1>0. TypeOK'
    BY TypeStep
  <1>1. /\ \A b \in Attempts \ {a} : pc'[b] = pc[b]
        /\ pc'[a] = IF pc[a] = "committed" THEN "lost" ELSE "failed"
        /\ pc[a] \notin {"undecided", "done", "lost"}
        /\ UNCHANGED <<request, events, disposed, bound, snapshot, claim, answer>>
        /\ ReleaseLock(a)
    BY DEF Crash, Goto, database, InTransaction
  <1>2. OwnersHold'
    BY <1>1, ReleaseKeepsOthers DEF OwnersHold, InTransaction
  <1>3. UncommittedIsUndisposed'
    BY <1>1 DEF UncommittedIsUndisposed, InTransaction
  <1>4. \A b \in Attempts : Respelled(b)' = Respelled(b)
    BY <1>1 DEF Respelled, Abstract!StoredRespelled
  <1>5. ReadsAreCurrent' /\ ClaimsAreCurrent'
    BY <1>1, <1>4 DEF ReadsAreCurrent, ClaimsAreCurrent
  <1>6. IndexExcludes'
    <2>1. \A b \in Attempts : HasUncommittedRow(b)' => HasUncommittedRow(b)
      BY <1>1 DEF HasUncommittedRow
    <2> QED
      BY <1>1, <2>1 DEF IndexExcludes
  <1>7. OnlyRespelledIsUndecided'
    BY <1>1, <1>4 DEF OnlyRespelledIsUndecided, Respelled
  <1> QED
    BY <1>0, <1>2, <1>3, <1>5, <1>6, <1>7

LEMMA InvStep == IInv /\ [Next]_vars => IInv'
  <1> SUFFICES ASSUME IInv, [Next]_vars
               PROVE  IInv'
    OBVIOUS
  <1>1. CASE UNCHANGED vars
    BY <1>1 DEF vars, IInv, TypeOK, OwnersHold, UncommittedIsUndisposed,
       ReadsAreCurrent, ClaimsAreCurrent, IndexExcludes, HasUncommittedRow,
       OnlyRespelledIsUndecided, Respelled, Abstract!StoredRespelled,
       EventOf, ContentOf, SpellingOf, KeyOf, IdentityIsValid, Abstract!Classify
  <1> QED
    BY <1>1, QuietStep, DecidingStep, CommittingStep, CrashingStep
    DEF Next, Step, Finished

LEMMA Invariant == Spec => []IInv
  BY InvInit, InvStep, PTL DEF Spec
-----------------------------------------------------------------------------
(* Theorems.                                                               *)

(* Every variable of the store keeps its type.                             *)
THEOREM TypeCorrect == Spec => []TypeOK
  BY Invariant, PTL DEF IInv

(* The advisory lock keeps apart two transactions whose identifiers have   *)
(* one text, and the unique index the uncommitted rows of one UUID.        *)
THEOREM MutualExclusion == Spec => [](LockExcludes /\ IndexExcludes)
  <1>1. IInv => LockExcludes /\ IndexExcludes
    BY OwnersExclude DEF IInv
  <1> QED
    BY <1>1, Invariant, PTL

(* An input ends without a disposition because of a race only where its    *)
(* event is stored under another spelling of the identifier.               *)
THEOREM EmptyDecisions == Spec => []OnlyRespelledIsUndecided
  BY Invariant, PTL DEF IInv

(* Every identifier is written in one way only, as str(uuid.UUID(...))     *)
(* would write it.  Nothing in the code sees to it.                        *)
OneSpelling == \A c, d \in Contents : Spelling[c] = Spelling[d]

(* Where identifiers have one spelling, the decision CTE is never empty.   *)
THEOREM NoEmptyDecision ==
  ASSUME OneSpelling
  PROVE  Spec => []EveryClaimIsDecided
  <1>1. IInv => EveryClaimIsDecided
    BY DEF OneSpelling, IInv, TypeOK, OnlyRespelledIsUndecided, Abstract!StoredRespelled,
       EveryClaimIsDecided, EventOf, ContentOf, Abstract!Requests
  <1> QED
    BY <1>1, Invariant, PTL
-----------------------------------------------------------------------------
(* The transactions implement the indivisible claim.                       *)

(* The attempts that the refinement mapping shows as undecided.            *)
Undecided == {a \in Attempts : pc[a] = "undecided"}

(* The commit of a transaction is a claim of the abstract store, or the    *)
(* verdict on a rejected identity that overlooks the stored event.         *)
LEMMA CommitIsClaim ==
  ASSUME IInv, NEW a \in Attempts, Commit(a)
  PROVE  Abstract!Claim(a) \/ Abstract!Overlook(a)
  <1>1. pc[a] = "identified" /\ pc' = [pc EXCEPT ![a] = "committed"]
    BY DEF Commit, Goto
  <1>2. /\ disposed[a] = "none"
        /\ Verdict[ContentOf(a)] # "unvalidated"
    BY <1>1 DEF IInv, UncommittedIsUndisposed, InTransaction
  <1>3. Abstract!Open(a)
    BY <1>1, <1>2 DEF Abstract!Open
  <1>4. Undecided' = Undecided
    BY <1>1 DEF IInv, TypeOK, Undecided
  <1>5. Abstract!Apply(a, claim[a])
    BY DEF Commit
  <1>6. CASE claim[a] = Abstract!Classify(events[EventOf(a)], ContentOf(a))
    BY <1>2, <1>3, <1>4, <1>5, <1>6
    DEF Abstract!Claim, EventOf, ContentOf, Undecided
  <1>7. CASE claim[a] = "identity_invalid" /\ ~IdentityIsValid(a) /\ Respelled(a)
    BY <1>2, <1>3, <1>4, <1>5, <1>7
    DEF Abstract!Overlook, EventOf, ContentOf, Undecided, IdentityIsValid, Respelled
  <1> QED
    BY <1>1, <1>6, <1>7 DEF IInv, ClaimsAreCurrent

(* A statement that decides nothing overlooks the stored event.            *)
LEMMA EmptyDecisionIsOverlook ==
  ASSUME IInv, NEW a \in Attempts, RunStatement(a), Decide(a) = NoClaim
  PROVE  Abstract!Overlook(a)
  <1>1. /\ pc[a] = "reading"
        /\ pc' = [pc EXCEPT ![a] = "undecided"]
        /\ UNCHANGED database
    BY DEF RunStatement, Goto
  <1>2. IdentityIsValid(a) /\ Respelled(a)
    BY <1>1, DecideOutcome, ClassifyIsClaim DEF IInv, NoClaim
  <1>3. /\ disposed[a] = "none"
        /\ Verdict[ContentOf(a)] # "unvalidated"
        /\ Abstract!Open(a)
    BY <1>1 DEF IInv, UncommittedIsUndisposed, InTransaction, Abstract!Open
  <1>4. Undecided' = Undecided \union {a}
    BY <1>1 DEF IInv, TypeOK, Undecided
  <1> QED
    BY <1>1, <1>2, <1>3, <1>4
    DEF Abstract!Overlook, database, EventOf, ContentOf, Undecided,
        IdentityIsValid, Respelled

(* Its quarantine transaction is the abstract quarantine.                  *)
LEMMA PersistQuarantineIsQuarantine ==
  ASSUME IInv, NEW a \in Attempts, PersistQuarantine(a)
  PROVE  Abstract!Quarantine(a)
  <1>1. Undecided' = Undecided
    BY DEF IInv, TypeOK, PersistQuarantine, Goto, Undecided
  <1> QED
    BY <1>1 DEF IInv, UncommittedIsUndisposed, PersistQuarantine,
       Abstract!Quarantine, Abstract!Open, ContentOf, Undecided

(* Every other step leaves what the abstract store shows alone.            *)
LEMMA OtherStepsStutter ==
  ASSUME IInv, [Next]_vars,
         ~(\E a \in Attempts : Commit(a) \/ PersistQuarantine(a)),
         ~(\E a \in Attempts : RunStatement(a) /\ Decide(a) = NoClaim)
  PROVE  UNCHANGED database /\ Undecided' = Undecided
  <1>1. UNCHANGED database
    BY DEF Next, Step, Finished, Begin, Lock, StartStatement,
       RunStatement, BindIdentity, Acknowledge, Crash, vars, database
  <1>2. \A b \in Attempts : pc'[b] = "undecided" <=> pc[b] = "undecided"
    BY DEF IInv, TypeOK, Next, Step, Finished, Begin, Lock, StartStatement,
       RunStatement, BindIdentity, Acknowledge, Crash, vars, Goto, InTransaction
  <1> QED
    BY <1>1, <1>2 DEF Undecided

LEMMA StepRefines == IInv /\ [Next]_vars => [Abstract!Next]_(Abstract!vars)
  <1> SUFFICES ASSUME IInv, [Next]_vars
               PROVE  [Abstract!Next]_(Abstract!vars)
    OBVIOUS
  <1>1. CASE \E a \in Attempts : Commit(a)
    BY <1>1, CommitIsClaim DEF Abstract!Next
  <1>2. CASE \E a \in Attempts : PersistQuarantine(a)
    BY <1>2, PersistQuarantineIsQuarantine DEF Abstract!Next
  <1>3. CASE \E a \in Attempts : RunStatement(a) /\ Decide(a) = NoClaim
    BY <1>3, EmptyDecisionIsOverlook DEF Abstract!Next
  <1>4. CASE /\ ~(\E a \in Attempts : Commit(a) \/ PersistQuarantine(a))
             /\ ~(\E a \in Attempts : RunStatement(a) /\ Decide(a) = NoClaim)
    BY <1>4, OtherStepsStutter DEF database, Undecided, Abstract!vars
  <1> QED
    BY <1>1, <1>2, <1>3, <1>4

(* The detailed store implements the abstract one: what a caller sees of   *)
(* the database is what indivisible claims, in commit order, would do.     *)
THEOREM Refinement == Spec => ImplementsAtomicClaim
  <1>1. Init => Abstract!Init
    BY DEF Init
  <1> QED
    BY <1>1, StepRefines, Invariant, PTL
    DEF Spec, ImplementsAtomicClaim, Abstract!Spec
-----------------------------------------------------------------------------
(* First wins.                                                             *)

(* What one step does to the accepted dispositions and the stored events.  *)
LEMMA OnlyNewIsAccepted ==
  ASSUME IInv, [Next]_vars
  PROVE  \/ /\ events' = events
            /\ \A b \in Attempts : disposed'[b] = "accepted" <=> disposed[b] = "accepted"
         \/ \E a \in Attempts :
              /\ events[EventOf(a)] = None
              /\ events' = [events EXCEPT ![EventOf(a)] = ContentOf(a)]
              /\ disposed' = [disposed EXCEPT ![a] = "accepted"]
  <1>0. TypeOK
    BY DEF IInv
  <1>1. ASSUME NEW a \in Attempts, Commit(a)
        PROVE  \/ /\ events' = events
                  /\ \A b \in Attempts :
                       disposed'[b] = "accepted" <=> disposed[b] = "accepted"
               \/ /\ events[EventOf(a)] = None
                  /\ events' = [events EXCEPT ![EventOf(a)] = ContentOf(a)]
                  /\ disposed' = [disposed EXCEPT ![a] = "accepted"]
    <2>1. /\ claim[a] = "new" => events[EventOf(a)] = None
          /\ claim[a] \in Abstract!Claims
          /\ disposed[a] = "none"
      BY <1>1, CommitStores, CommitClaims
      DEF Commit, IInv, UncommittedIsUndisposed
    <2>2. /\ disposed' = [disposed EXCEPT ![a] = Abstract!DispositionOf[claim[a]]]
          /\ events' = IF claim[a] = "new"
                       THEN [events EXCEPT ![EventOf(a)] = ContentOf(a)] ELSE events
      BY <1>1 DEF Commit, Abstract!Apply, EventOf, ContentOf
    <2>3. CASE claim[a] = "new"
      <3>1. events[EventOf(a)] = None
        BY <2>1, <2>3
      <3>2. Abstract!DispositionOf[claim[a]] = "accepted"
        BY <2>3 DEF Abstract!DispositionOf, Abstract!Claims
      <3> QED
        BY <2>2, <2>3, <3>1, <3>2
    <2>4. CASE claim[a] # "new"
      <3>1. Abstract!DispositionOf[claim[a]] # "accepted"
        BY <2>1, <2>4 DEF Abstract!DispositionOf, Abstract!Claims
      <3> QED
        BY <1>0, <2>1, <2>2, <2>4, <3>1 DEF TypeOK
    <2> QED
      BY <2>3, <2>4
  <1>2. ASSUME NEW a \in Attempts, PersistQuarantine(a)
        PROVE  /\ events' = events
               /\ \A b \in Attempts :
                    disposed'[b] = "accepted" <=> disposed[b] = "accepted"
    BY <1>0, <1>2 DEF PersistQuarantine, IInv, UncommittedIsUndisposed, TypeOK
  <1>3. CASE ~(\E a \in Attempts : Commit(a) \/ PersistQuarantine(a))
    BY <1>3 DEF Next, Step, Finished, Begin, Lock, StartStatement,
       RunStatement, BindIdentity, Acknowledge, Crash, vars, database
  <1> QED
    BY <1>1, <1>2, <1>3

LEMMA AcceptedOnceStep == IInv /\ AcceptedOnce /\ [Next]_vars => AcceptedOnce'
  <1> SUFFICES ASSUME IInv, AcceptedOnce, [Next]_vars, NEW e \in Events
               PROVE  (LET winners == {a \in Attempts :
                                        disposed[a] = "accepted" /\ EventOf(a) = e}
                       IN  IF events[e] = None
                           THEN winners = {}
                           ELSE \E w \in winners :
                                  winners = {w} /\ ContentOf(w) = events[e])'
    BY DEF AcceptedOnce
  <1> DEFINE winners == {a \in Attempts : disposed[a] = "accepted" /\ EventOf(a) = e}
  <1>0. TypeOK
    BY DEF IInv
  <1>1. IF events[e] = None
        THEN winners = {}
        ELSE \E w \in winners : winners = {w} /\ ContentOf(w) = events[e]
    BY DEF AcceptedOnce
  <1>2. CASE /\ events' = events
             /\ \A b \in Attempts : disposed'[b] = "accepted" <=> disposed[b] = "accepted"
    <2>1. winners' = winners
      BY <1>2, RequestsAreFixed
    <2> QED
      BY <1>1, <1>2, <2>1, RequestsAreFixed
  <1>3. ASSUME NEW a \in Attempts,
               events[EventOf(a)] = None,
               events' = [events EXCEPT ![EventOf(a)] = ContentOf(a)],
               disposed' = [disposed EXCEPT ![a] = "accepted"]
        PROVE  IF events'[e] = None
               THEN winners' = {}
               ELSE \E w \in winners' : winners' = {w} /\ ContentOf(w)' = events'[e]
    <2>1. CASE EventOf(a) = e
      <3>1. winners = {}
        BY <1>1, <1>3, <2>1
      <3>2. winners' = {a}
        BY <1>0, <1>3, <2>1, <3>1, RequestsAreFixed DEF TypeOK
      <3>3. events'[e] = ContentOf(a) /\ ContentOf(a) \in Contents
        BY <1>0, <1>3, <2>1 DEF TypeOK, ContentOf, Abstract!Requests
      <3> QED
        BY <3>2, <3>3, RequestsAreFixed, NoneAssumption
    <2>2. CASE EventOf(a) # e
      <3>1. winners' = winners
        BY <1>0, <1>3, <2>2, RequestsAreFixed DEF TypeOK
      <3>2. events'[e] = events[e]
        BY <1>0, <1>3, <2>2 DEF TypeOK
      <3> QED
        BY <1>1, <3>1, <3>2, RequestsAreFixed
    <2> QED
      BY <2>1, <2>2
  <1> QED
    BY <1>2, <1>3, OnlyNewIsAccepted

(* First wins, durably, for any number of concurrent calls.                *)
THEOREM FirstWins == Spec => []AcceptedOnce
  <1>1. Init => AcceptedOnce
    BY DEF Init, Abstract!Init, AcceptedOnce
  <1> QED
    BY <1>1, AcceptedOnceStep, Invariant, PTL DEF Spec
-----------------------------------------------------------------------------
(* The losers and the identity rows, which follow from the abstract step.  *)

(* An abstract step leaves the database alone, quarantines, or claims with *)
(* the claim that the stored content gives.                                *)
LEMMA AbstractStep ==
  ASSUME IInv, [Next]_vars
  PROVE  \/ UNCHANGED database
         \/ \E a \in Attempts, reason \in {"schema_invalid", "identity_conflict"} :
              /\ reason = "identity_conflict" => ~IdentityIsValid(a)
              /\ disposed' = [disposed EXCEPT ![a] = reason]
              /\ UNCHANGED <<request, events, bound>>
         \/ \E a \in Attempts :
              Abstract!Apply(a, Classify(events[EventOf(a)], ContentOf(a)))
  <1>1. CASE \E a \in Attempts : Abstract!Claim(a)
    <2>1. PICK a \in Attempts : Abstract!Claim(a)
      BY <1>1
    <2>2. Abstract!Apply(a, Classify(events[EventOf(a)], ContentOf(a)))
      BY <2>1 DEF Abstract!Claim, EventOf, ContentOf, Abstract!Classify, Classify
    <2> QED
      BY <2>2
  <1>2. CASE \E a \in Attempts : Abstract!Quarantine(a)
    BY <1>2 DEF Abstract!Quarantine
  <1>3. CASE \E a \in Attempts : Abstract!Overlook(a)
    <2>1. PICK a \in Attempts : Abstract!Overlook(a)
      BY <1>3
    <2>2. Abstract!DispositionOf["identity_invalid"] = "identity_conflict"
      BY DEF Abstract!DispositionOf, Abstract!Claims
    <2> QED
      BY <2>1, <2>2
      DEF Abstract!Overlook, Abstract!Apply, IdentityIsValid, ContentOf, database
  <1>4. CASE UNCHANGED Abstract!vars
    BY <1>4 DEF Abstract!vars, database
  <1> QED
    BY <1>1, <1>2, <1>3, <1>4, StepRefines DEF Abstract!Next

(* What a claim does to the stored events and to its own disposition.      *)
LEMMA ApplyEffect ==
  ASSUME TypeOK, NEW a \in Attempts,
         Abstract!Apply(a, Classify(events[EventOf(a)], ContentOf(a)))
  PROVE  /\ request' = request
         /\ \A b \in Attempts \ {a} : disposed'[b] = disposed[b]
         /\ \A e \in Events : events[e] # None => events'[e] = events[e]
         /\ disposed'[a] = "duplicate" => events'[EventOf(a)] = ContentOf(a)
         /\ disposed'[a] = "event_id_content_conflict" =>
              events'[EventOf(a)] \notin {None, ContentOf(a)}
         /\ disposed'[a] = "identity_conflict" => ~IdentityIsValid(a)
  <1> DEFINE e == EventOf(a)
             c == ContentOf(a)
             q == Classify(events[e], c)
  <1>1. /\ e \in Events
        /\ c \in Contents
    BY DEF TypeOK, Abstract!Requests, EventOf, ContentOf
  <1>2. /\ request' = request
        /\ disposed' = [disposed EXCEPT ![a] = Abstract!DispositionOf[q]]
        /\ events' = IF q = "new" THEN [events EXCEPT ![e] = c] ELSE events
    BY DEF Abstract!Apply, EventOf, ContentOf
  <1>3. /\ q = "new" => Abstract!DispositionOf[q] = "accepted" /\ events[e] = None
        /\ q = "duplicate" => Abstract!DispositionOf[q] = "duplicate" /\ events[e] = c
        /\ q = "conflict" => /\ Abstract!DispositionOf[q] = "event_id_content_conflict"
                             /\ events[e] \notin {None, c}
        /\ q = "identity_invalid" => /\ Abstract!DispositionOf[q] = "identity_conflict"
                                     /\ Verdict[c] = "rejected"
        /\ q \in {"new", "duplicate", "conflict", "identity_invalid"}
    BY DEF Classify, Abstract!DispositionOf, Abstract!Claims
  <1>4. /\ \A b \in Attempts \ {a} : disposed'[b] = disposed[b]
        /\ disposed'[a] = Abstract!DispositionOf[q]
    BY <1>2 DEF TypeOK
  <1>5. \A f \in Events : events[f] # None => events'[f] = events[f]
    BY <1>1, <1>2, <1>3 DEF TypeOK
  <1>6. CASE q = "new"
    BY <1>2, <1>3, <1>4, <1>5, <1>6
  <1>7. CASE q # "new"
    BY <1>2, <1>3, <1>4, <1>5, <1>7 DEF IdentityIsValid
  <1> QED
    BY <1>6, <1>7

LEMMA LosersStep ==
  IInv /\ LosersAgreeWithStore /\ [Next]_vars => LosersAgreeWithStore'
  <1> SUFFICES ASSUME IInv, LosersAgreeWithStore, [Next]_vars
               PROVE  LosersAgreeWithStore'
    OBVIOUS
  <1>0. TypeOK /\ request' = request
    BY RequestsAreFixed DEF IInv
  <1>1. CASE UNCHANGED database
    BY <1>1 DEF database, LosersAgreeWithStore, EventOf, ContentOf, IdentityIsValid
  <1>2. ASSUME NEW a \in Attempts,
               NEW reason \in {"schema_invalid", "identity_conflict"},
               reason = "identity_conflict" => ~IdentityIsValid(a),
               disposed' = [disposed EXCEPT ![a] = reason],
               UNCHANGED <<request, events, bound>>
        PROVE  LosersAgreeWithStore'
    BY <1>0, <1>2
    DEF TypeOK, LosersAgreeWithStore, EventOf, ContentOf, IdentityIsValid
  <1>3. ASSUME NEW a \in Attempts,
               Abstract!Apply(a, Classify(events[EventOf(a)], ContentOf(a)))
        PROVE  LosersAgreeWithStore'
    <2> SUFFICES ASSUME NEW b \in Attempts
                 PROVE  /\ disposed'[b] = "duplicate" => events'[EventOf(b)] = ContentOf(b)
                        /\ disposed'[b] = "event_id_content_conflict" =>
                             events'[EventOf(b)] \notin {None, ContentOf(b)}
                        /\ disposed'[b] = "identity_conflict" => ~IdentityIsValid(b)
      BY <1>0 DEF LosersAgreeWithStore, EventOf, ContentOf, IdentityIsValid
    <2>1. CASE b = a
      BY <1>0, <1>3, <2>1, ApplyEffect
    <2>2. CASE b # a
      <3>1. disposed'[b] = disposed[b]
        BY <1>0, <1>3, <2>2, ApplyEffect
      <3>2. EventOf(b) \in Events /\ ContentOf(b) \in Contents
        BY <1>0 DEF TypeOK, Abstract!Requests, EventOf, ContentOf
      <3>3. events[EventOf(b)] # None => events'[EventOf(b)] = events[EventOf(b)]
        BY <1>0, <1>3, <3>2, ApplyEffect
      <3> QED
        BY <3>1, <3>2, <3>3, NoneAssumption DEF LosersAgreeWithStore
    <2> QED
      BY <2>1, <2>2
  <1> QED
    BY <1>1, <1>2, <1>3, AbstractStep

(* Every duplicate and every conflict agrees with what is stored, and only *)
(* rejected identities are quarantined for their identity.                 *)
THEOREM LosersAgree == Spec => []LosersAgreeWithStore
  <1>1. Init => LosersAgreeWithStore
    BY DEF Init, Abstract!Init, LosersAgreeWithStore
  <1> QED
    BY <1>1, LosersStep, Invariant, PTL DEF Spec

LEMMA OneUnitStep ==
  IInv /\ IdentityIsOneUnit /\ [Next]_vars => IdentityIsOneUnit'
  <1> SUFFICES ASSUME IInv, IdentityIsOneUnit, [Next]_vars
               PROVE  IdentityIsOneUnit'
    OBVIOUS
  <1>0. TypeOK
    BY DEF IInv
  <1>1. CASE UNCHANGED <<events, bound>>
    BY <1>1 DEF IdentityIsOneUnit
  <1>2. ASSUME NEW a \in Attempts,
               Abstract!Apply(a, Classify(events[EventOf(a)], ContentOf(a)))
        PROVE  IdentityIsOneUnit'
    <2> DEFINE e == EventOf(a)
               c == ContentOf(a)
               q == Classify(events[e], c)
    <2>1. /\ events' = IF q = "new" THEN [events EXCEPT ![e] = c] ELSE events
          /\ bound' = IF q = "new" /\ Verdict[c] = "prepared"
                      THEN bound \union {e} ELSE bound
          /\ e \in Events
          /\ c \in Contents
      BY <1>0, <1>2 DEF Abstract!Apply, TypeOK, Abstract!Requests, EventOf, ContentOf
    <2>2. q = "new" => events[e] = None
      BY DEF Classify
    <2>3. CASE q = "new"
      <3>1. events' = [events EXCEPT ![e] = c] /\ events[e] = None /\ c # None
        BY <2>1, <2>2, <2>3, NoneAssumption
      <3>2. \A f \in Events : events'[f] = IF f = e THEN c ELSE events[f]
        BY <1>0, <2>1, <3>1 DEF TypeOK
      <3>3. e \notin bound
        BY <3>1 DEF IdentityIsOneUnit
      <3> QED
        BY <2>1, <2>3, <3>1, <3>2, <3>3 DEF IdentityIsOneUnit
    <2>4. CASE q # "new"
      BY <2>1, <2>4 DEF IdentityIsOneUnit
    <2> QED
      BY <2>3, <2>4
  <1> QED
    BY <1>1, <1>2, AbstractStep DEF database

(* The event and its identity rows are one unit: whatever crashes, the     *)
(* rows are there exactly for the stored contents that have an identity.   *)
THEOREM OneUnit == Spec => []IdentityIsOneUnit
  <1>1. Init => IdentityIsOneUnit
    BY NoneAssumption DEF Init, Abstract!Init, IdentityIsOneUnit
  <1> QED
    BY <1>1, OneUnitStep, Invariant, PTL DEF Spec
-----------------------------------------------------------------------------
(* Durability of what the caller was told.                                 *)

OutcomeOf(q) == IF q = NoClaim THEN "schema_invalid" ELSE Abstract!DispositionOf[q]

(* No claim is decided before its statement has run; a committed attempt   *)
(* has the disposition of its claim; only an attempt that is done was      *)
(* answered, with its disposition.                                         *)
AnswersFollowCommits ==
  \A a \in Attempts :
    /\ pc[a] \in {"idle", "waiting", "locked", "reading"} => claim[a] = NoClaim
    /\ pc[a] = "committed" => disposed[a] = OutcomeOf(claim[a])
    /\ answer[a] # "none" => pc[a] = "done" /\ disposed[a] = answer[a]

LEMMA AnswersStep ==
  IInv /\ AnswersFollowCommits /\ [Next]_vars => AnswersFollowCommits'
  <1> SUFFICES ASSUME IInv, AnswersFollowCommits, [Next]_vars
               PROVE  AnswersFollowCommits'
    OBVIOUS
  <1>0. TypeOK
    BY DEF IInv
  <1>1. ASSUME NEW a \in Attempts, Begin(a) \/ Lock(a) \/ StartStatement(a)
        PROVE  AnswersFollowCommits'
    BY <1>0, <1>1
    DEF TypeOK, AnswersFollowCommits, OutcomeOf, Begin, Lock, StartStatement,
        Goto, database
  <1>2. ASSUME NEW a \in Attempts, RunStatement(a) \/ BindIdentity(a) \/ Crash(a)
        PROVE  AnswersFollowCommits'
    BY <1>0, <1>2
    DEF TypeOK, AnswersFollowCommits, OutcomeOf, RunStatement, BindIdentity, Crash,
        Goto, database, InTransaction
  <1>3. ASSUME NEW a \in Attempts, Commit(a)
        PROVE  AnswersFollowCommits'
    <2>1. claim[a] # NoClaim
      BY <1>3, CommitClaims
    <2>2. disposed' = [disposed EXCEPT ![a] = OutcomeOf(claim[a])]
      BY <1>3, <2>1 DEF Commit, Abstract!Apply, OutcomeOf
    <2> QED
      BY <1>0, <1>3, <2>2 DEF TypeOK, AnswersFollowCommits, OutcomeOf, Commit, Goto
  <1>4. ASSUME NEW a \in Attempts, Acknowledge(a)
        PROVE  AnswersFollowCommits'
    <2>1. answer' = [answer EXCEPT ![a] = OutcomeOf(claim[a])]
      BY <1>4 DEF Acknowledge, OutcomeOf
    <2>2. /\ pc[a] = "committed"
          /\ pc' = [pc EXCEPT ![a] = "done"]
          /\ UNCHANGED <<disposed, claim>>
      BY <1>4 DEF Acknowledge, Goto, database
    <2> QED
      BY <1>0, <2>1, <2>2 DEF TypeOK, AnswersFollowCommits, OutcomeOf
  <1>5. ASSUME NEW a \in Attempts, PersistQuarantine(a)
        PROVE  AnswersFollowCommits'
    BY <1>0, <1>5
    DEF TypeOK, AnswersFollowCommits, OutcomeOf, PersistQuarantine, Goto
  <1>6. CASE UNCHANGED vars
    BY <1>6 DEF vars, AnswersFollowCommits, OutcomeOf
  <1> QED
    BY <1>1, <1>2, <1>3, <1>4, <1>5, <1>6 DEF Next, Step, Finished

(* What a caller was told is what is durably stored.                       *)
THEOREM AnswersAreDurable == Spec => []AcknowledgedIsDurable
  <1>1. Init => AnswersFollowCommits
    BY DEF Init, Abstract!Init, AnswersFollowCommits
  <1>2. AnswersFollowCommits => AcknowledgedIsDurable
    BY DEF AnswersFollowCommits, AcknowledgedIsDurable
  <1> QED
    BY <1>1, <1>2, AnswersStep, Invariant, PTL DEF Spec
=============================================================================
