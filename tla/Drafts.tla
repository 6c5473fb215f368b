------------------------------- MODULE Drafts -------------------------------
(***************************************************************************)
(* The workflow service: drafts that are created open and decided once, by *)
(* a simulated approval or rejection.  A decision reads the draft, then    *)
(* updates it in a second command; callers whose answer is lost try again. *)
(***************************************************************************)
EXTENDS Naturals, Sequences

CONSTANTS
  DraftIds,   \* identifiers uuid4 may return
  Deciders,   \* callers of simulate
  DecisionOf, \* "approve" or "reject"
  NoDraft

ASSUME DecisionAssumption == DecisionOf \in [Deciders -> {"approve", "reject"}]

Entries == {"created"} \union (Deciders \X {"approve", "reject"})
DraftRows == [status: {"draft", "simulated_approved", "simulated_rejected"},
              audit: Seq(Entries)]

ASSUME NoDraftAssumption == NoDraft \notin DraftIds /\ NoDraft \notin DraftRows

VARIABLES
  drafts,   \* phase2.workflow_drafts: status and audit of each, or NoDraft
  deciding, \* where the handler of each decider is
  target,   \* the draft it is about
  read      \* the audit it has read

draftsVars == <<drafts, deciding, target, read>>

(* Slip: the decision itself is stored as the status.                      *)
DecisionAsStatus(decision) == decision

StatusOf(decision) == IF decision = "approve" THEN "simulated_approved" ELSE "simulated_rejected"

DraftsTypeOK ==
  /\ drafts \in [DraftIds -> DraftRows \union {NoDraft}]
  /\ deciding \in [Deciders -> {"idle", "read", "decided", "terminal", "lost"}]
  /\ target \in [Deciders -> DraftIds \union {NoDraft}]
  /\ read \in [Deciders -> Seq(Entries)]

DraftsInit ==
  /\ drafts = [d \in DraftIds |-> NoDraft]
  /\ deciding = [c \in Deciders |-> "idle"]
  /\ target = [c \in Deciders |-> NoDraft]
  /\ read = [c \in Deciders |-> <<>>]

Tell(c, answer) == deciding' = [deciding EXCEPT ![c] = answer]
-----------------------------------------------------------------------------
(* POST drafts.  A caller whose answer is lost creates another one.        *)
CreateDraft(d) ==
  /\ drafts[d] = NoDraft
  /\ drafts' = [drafts EXCEPT ![d] = [status |-> "draft", audit |-> <<"created">>]]
  /\ UNCHANGED <<deciding, target, read>>

(* simulate: retrieve, and the check of the status read.  The audit the    *)
(* handler will write is the one it has read and its own entry.            *)
ReadDraft(c, d) ==
  /\ deciding[c] = "idle" /\ target[c] \in {d, NoDraft}
  /\ drafts[d] # NoDraft
  /\ target' = [target EXCEPT ![c] = d]
  /\ read' = [read EXCEPT ![c] = drafts[d].audit]
  /\ Tell(c, IF drafts[d].status = "draft" THEN "read" ELSE "terminal")
  /\ UNCHANGED drafts

Decide(c) ==
  drafts' = [drafts EXCEPT ![target[c]] =
    [status |-> StatusOf(DecisionOf[c]), audit |-> Append(read[c], <<c, DecisionOf[c]>>)]]

(* Slip: UPDATE without the condition on the status.                       *)
UpdateAnyDraft(c) ==
  /\ deciding[c] = "read"
  /\ Decide(c)
  /\ Tell(c, "decided")
  /\ UNCHANGED <<target, read>>

(* UPDATE ... WHERE status = 'draft' RETURNING: one command, which waits   *)
(* for a concurrent update of the row and looks at the status again.       *)
UpdateOpenDraft(c) ==
  /\ deciding[c] = "read"
  /\ IF drafts[target[c]].status = "draft"
     THEN Decide(c) /\ Tell(c, "decided")
     ELSE Tell(c, "terminal") /\ UNCHANGED drafts
  /\ UNCHANGED <<target, read>>

(* The handler is cancelled, its command fails, or its answer is lost; the *)
(* caller tries again.                                                     *)
LoseDecision(c) ==
  /\ deciding[c] \in {"read", "decided"}
  /\ Tell(c, "lost")
  /\ UNCHANGED <<drafts, target, read>>

RetryDecision(c) ==
  /\ deciding[c] = "lost"
  /\ Tell(c, "idle")
  /\ read' = [read EXCEPT ![c] = <<>>]
  /\ UNCHANGED <<drafts, target>>

DraftsNext ==
  \/ \E d \in DraftIds : CreateDraft(d)
  \/ \E c \in Deciders, d \in DraftIds : ReadDraft(c, d)
  \/ \E c \in Deciders : UpdateOpenDraft(c) \/ LoseDecision(c) \/ RetryDecision(c)

DraftsSpec == DraftsInit /\ [][DraftsNext]_draftsVars
-----------------------------------------------------------------------------
(* Simulation is terminal: a draft's audit has no more than one decision,  *)
(* its status is that decision, and whoever was told it decided, is the    *)
(* one the audit names, whatever deciders read and retried meanwhile.      *)
OneDecision ==
  /\ \A d \in DraftIds : drafts[d] # NoDraft =>
       \/ drafts[d] = [status |-> "draft", audit |-> <<"created">>]
       \/ \E c \in Deciders :
            drafts[d] = [status |-> StatusOf(DecisionOf[c]),
                         audit |-> <<"created", <<c, DecisionOf[c]>> >>]
  /\ \A c \in Deciders : deciding[c] = "decided" =>
       drafts[target[c]].audit = <<"created", <<c, DecisionOf[c]>> >>
=============================================================================
