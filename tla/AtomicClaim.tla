---------------------------- MODULE AtomicClaim ----------------------------
(***************************************************************************)
(* What the claim store promises its callers: one attempt to persist one   *)
(* input is one indivisible step that classifies the input against the     *)
(* stored events, writes its disposition and, for the first accepted       *)
(* content of an event identifier, the event and its identity rows.        *)
(*                                                                         *)
(* It is the ClaimStore protocol of contracts/python/dcim_contracts with   *)
(* its first-wins rule.  ClaimStore.tla is the transaction of persist.py   *)
(* that implements it.                                                     *)
(*                                                                         *)
(* The promise has one gap.  The identifier is a UUID to the database and  *)
(* a text to the code, and a UUID has many texts (upper and lower case).   *)
(* An attempt may miss the event stored under another text of its UUID:    *)
(* it ends undecided, with no row, or is judged as if nothing were stored. *)
(***************************************************************************)
EXTENDS ClaimRules

CONSTANTS
  Attempts,  \* the calls: each has its own (run, execution, ordinal) key
  Events,    \* event identifiers, as UUIDs
  Spelling   \* the spelling in which a canonical content has its identifier

VARIABLES
  request,   \* request[a]: the event identifier and content a submits
  events,    \* phase2.events: the stored content of each identifier
  disposed,  \* phase2.dispositions: the row of each attempt, by its reason
  bound,     \* identifiers whose identity rows were written with the event
  undecided  \* attempts that failed with an empty decision, for good

vars == <<request, events, disposed, bound, undecided>>

Requests == [event: Events, content: Contents]

\* The durable effect of an attempt whose claim is known.
Apply(a, claim) ==
  LET e == request[a].event
      c == request[a].content
  IN  /\ disposed' = [disposed EXCEPT ![a] = DispositionOf[claim]]
      /\ events' = IF claim = "new" THEN [events EXCEPT ![e] = c] ELSE events
      /\ bound' = IF claim = "new" /\ Verdict[c] = "prepared"
                  THEN bound \union {e} ELSE bound
      /\ UNCHANGED request

Init ==
  /\ request \in [Attempts -> Requests]
  /\ events = [e \in Events |-> None]
  /\ disposed = [a \in Attempts |-> "none"]
  /\ bound = {}
  /\ undecided = {}

Open(a) == disposed[a] = "none" /\ a \notin undecided

Claim(a) ==
  /\ Open(a)
  /\ Verdict[request[a].content] # "unvalidated"
  /\ Apply(a, Classify(events[request[a].event], request[a].content))
  /\ UNCHANGED undecided

\* The stored event spells the identifier of an attempt in another way.
StoredRespelled(e, c) ==
  /\ events[e] # None
  /\ Spelling[events[e]] # Spelling[c]

\* The attempt misses the stored event, which spells the identifier otherwise.
Overlook(a) ==
  /\ Open(a)
  /\ Verdict[request[a].content] # "unvalidated"
  /\ StoredRespelled(request[a].event, request[a].content)
  /\ \/ /\ Verdict[request[a].content] = "rejected"
        /\ Apply(a, "identity_invalid")
        /\ UNCHANGED undecided
     \/ /\ Verdict[request[a].content] # "rejected"
        /\ undecided' = undecided \union {a}
        /\ UNCHANGED <<request, events, disposed, bound>>

Quarantine(a) ==
  /\ Open(a)
  /\ Verdict[request[a].content] = "unvalidated"
  /\ disposed' = [disposed EXCEPT ![a] = "schema_invalid"]
  /\ UNCHANGED <<request, events, bound, undecided>>

Next == \E a \in Attempts : Claim(a) \/ Overlook(a) \/ Quarantine(a)

Spec == Init /\ [][Next]_vars
=============================================================================
