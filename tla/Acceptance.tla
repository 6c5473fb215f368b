----------------------------- MODULE Acceptance -----------------------------
(***************************************************************************)
(* The clean acceptance of the foundation: a fixed plan of steps in a new  *)
(* runtime root, whose last one accepts the evidence the smoke runs left   *)
(* there, and a report that is written however it ends.  Meanwhile the     *)
(* repository it runs from is committed to and edited, the operator starts *)
(* and stops the normal stack and runs smokes of his own, which may outlast *)
(* the acceptance, and the acceptance may be killed and tried again.       *)
(***************************************************************************)
EXTENDS Naturals, Sequences, FiniteSets

CONSTANTS
  Commits,
  NoCommit,
  MaxOwnSmokes  \* bound on the evidence the operator's own smokes leave

ASSUME AcceptanceAssumption == NoCommit \notin Commits /\ MaxOwnSmokes \in Nat

Plan == <<"check", "bootstrap", "override", "images", "artifacts", "config", "policy",
          "supply-chain", "up", "inventory", "fast", "recovery", "stop", "summary">>
Modes == {"fast", "recovery"}

VARIABLES
  head,       \* the commit checked out
  dirty,      \* whether the worktree differs from it
  rootThere,  \* whether the runtime root exists
  normalUp,   \* whether the normal stack has any docker resource
  services,   \* the acceptance's own compose project
  evidence,   \* smoke evidence in the root
  summary,    \* the runs in phase1-clean-acceptance-summary.json
  report,     \* clean-runtime-acceptance.json
  step,       \* the step of the plan the acceptance is at; 0: not running
  commit,     \* HEAD when it began
  mayExist,   \* services_may_exist
  ownSmokes

acceptanceVars == <<head, dirty, rootThere, normalUp, services, evidence, summary, report, step,
                    commit, mayExist, ownSmokes>>
repository == <<head, dirty>>
acceptance == <<step, commit, mayExist>>

Results == {"pass", "fail"}
NoVerdict == [commit |-> NoCommit, result |-> "fail"]
Reporting == Len(Plan) + 1   \* the finally block, after a failure
Passing == Len(Plan) + 2     \* the finally block, after the summary
Evidence == [mode: Modes, commit: Commits, result: Results]

AcceptanceTypeOK ==
  /\ head \in Commits /\ {dirty, rootThere, normalUp, mayExist} \subseteq BOOLEAN
  /\ services \in {"none", "up", "stopped"}
  /\ evidence \subseteq Evidence /\ summary \subseteq Evidence
  /\ report \in [commit: Commits, result: Results] \union {NoVerdict}
  /\ step \in 0 .. Passing
  /\ commit \in Commits \union {NoCommit}
  /\ ownSmokes \in 0 .. MaxOwnSmokes

AcceptanceInit ==
  /\ head \in Commits /\ dirty \in BOOLEAN /\ normalUp \in BOOLEAN
  /\ rootThere = FALSE /\ services = "none"
  /\ evidence = {} /\ summary = {} /\ report = NoVerdict
  /\ step = 0 /\ commit = NoCommit /\ mayExist = FALSE /\ ownSmokes = 0
-----------------------------------------------------------------------------
CheckOut(c) ==
  /\ c # head /\ head' = c
  /\ UNCHANGED <<dirty, rootThere, normalUp, services, evidence, summary, report, acceptance,
                 ownSmokes>>

EditTree ==
  /\ dirty' = ~dirty
  /\ UNCHANGED <<head, rootThere, normalUp, services, evidence, summary, report, acceptance,
                 ownSmokes>>

NormalStack ==
  /\ normalUp' = ~normalUp
  /\ UNCHANGED <<repository, rootThere, services, evidence, summary, report, acceptance,
                 ownSmokes>>

(* Each smoke names the commit checked out when it ends.  One that cannot  *)
(* tell names none, and is refused like one of another commit.             *)
Smoked(mode, result) == evidence \union {[mode |-> mode, commit |-> head, result |-> result]}

(* A smoke that ends, well or not, looks at its containers, which are      *)
(* there also when they are stopped, and the evidence command writes what  *)
(* it is told: neither asks whether the acceptance is over.                *)
OwnSmoke(mode, result) ==
  /\ services # "none" /\ ownSmokes < MaxOwnSmokes
  /\ ownSmokes' = ownSmokes + 1
  /\ evidence' = Smoked(mode, result)
  /\ UNCHANGED <<repository, rootThere, normalUp, services, summary, report, acceptance>>

(* A recovery smoke that began before a stop restarts what was stopped.    *)
OwnRestart ==
  /\ services = "stopped"
  /\ services' = "up"
  /\ UNCHANGED <<repository, rootThere, normalUp, evidence, summary, report, acceptance,
                 ownSmokes>>
-----------------------------------------------------------------------------
(* A root that exists is refused without a report: only a valid root is    *)
(* ever reported to, and a refusal past that point creates it.             *)
Begin ==
  /\ step = 0 /\ ~rootThere
  /\ commit' = head
  /\ step' = 1
  /\ UNCHANGED <<repository, rootThere, normalUp, services, evidence, summary, report, mayExist,
                 ownSmokes>>

At(name) == step \in 1 .. Len(Plan) /\ Plan[step] = name
Succeed == step' = step + 1

(* The worktree is clean now, whatever was checked out when HEAD was read; *)
(* neither the normal stack nor the new project has anything in docker.    *)
CheckTree ==
  /\ At("check") /\ ~dirty /\ ~normalUp /\ services = "none" /\ Succeed
  /\ UNCHANGED <<repository, rootThere, normalUp, services, evidence, summary, report, commit,
                 mayExist, ownSmokes>>

(* Steps that leave nothing behind but files in the root.                  *)
Prepare(name) ==
  /\ At(name) /\ Succeed
  /\ rootThere' = TRUE
  /\ mayExist' = (name = "supply-chain")
  /\ UNCHANGED <<repository, normalUp, services, evidence, summary, report, commit, ownSmokes>>

Up ==
  /\ At("up") /\ Succeed
  /\ services' = "up"
  /\ UNCHANGED <<repository, rootThere, normalUp, evidence, summary, report, commit, mayExist,
                 ownSmokes>>

Inventory ==
  /\ At("inventory") /\ services = "up" /\ Succeed
  /\ UNCHANGED <<repository, rootThere, normalUp, services, evidence, summary, report, commit,
                 mayExist, ownSmokes>>

(* A smoke that fails leaves its evidence and fails the step.              *)
Smoke(mode, result) ==
  /\ At(mode) /\ services # "none"
  /\ result = "pass" => services = "up"
  /\ evidence' = Smoked(mode, result)
  /\ step' = IF result = "pass" THEN step + 1 ELSE Reporting
  /\ UNCHANGED <<repository, rootThere, normalUp, services, summary, report, commit, mayExist,
                 ownSmokes>>

Stop ==
  /\ At("stop") /\ Succeed
  /\ services' = "stopped" /\ mayExist' = FALSE
  /\ UNCHANGED <<repository, rootThere, normalUp, evidence, summary, report, commit, ownSmokes>>

(* Slip: the summary does not ask for the commit of the evidence.          *)
AcceptedAnyCommit ==
  /\ \A mode \in Modes : \E record \in evidence : record.mode = mode
  /\ \A record \in evidence : record.result = "pass"

(* acceptance_errors: both modes, every record a pass of this commit.      *)
Accepted ==
  /\ \A mode \in Modes : \E record \in evidence : record.mode = mode
  /\ \A record \in evidence : record.result = "pass" /\ record.commit = commit

(* The summary keeps the runs it accepted; evidence that comes later is    *)
(* not in it.                                                              *)
Summarise ==
  /\ At("summary") /\ Accepted
  /\ summary' = evidence
  /\ step' = Passing
  /\ UNCHANGED <<repository, rootThere, normalUp, services, evidence, report, commit, mayExist,
                 ownSmokes>>

ReportPass ==
  /\ step = Passing
  /\ report' = [commit |-> commit, result |-> "pass"]
  /\ step' = 0 /\ commit' = NoCommit
  /\ UNCHANGED <<repository, rootThere, normalUp, services, evidence, summary, mayExist, ownSmokes>>

(* What a step that does not end well may have done: a part of the root,   *)
(* some containers started or all of them stopped, the summary written.    *)
DonePartly ==
  /\ rootThere' \in IF At("bootstrap") THEN BOOLEAN ELSE {rootThere}
  /\ services' \in IF At("up") THEN {"none", "up"}
                    ELSE IF At("stop") THEN {services, "stopped"} ELSE {services}
  /\ summary' \in IF At("summary") /\ Accepted THEN {summary, evidence} ELSE {summary}

(* Any step may fail or time out.                                          *)
FailStep ==
  /\ step \in 1 .. Len(Plan)
  /\ DonePartly
  /\ step' = Reporting
  /\ UNCHANGED <<repository, normalUp, evidence, report, commit, mayExist, ownSmokes>>

(* finally: stop what may be running, or fail to, then write the report.   *)
StopAfterFailure ==
  /\ step = Reporting /\ mayExist
  /\ mayExist' = FALSE
  /\ services' \in {services, IF services = "up" THEN "stopped" ELSE services}
  /\ UNCHANGED <<repository, rootThere, normalUp, evidence, summary, report, step, commit,
                 ownSmokes>>

ReportFailure ==
  /\ step = Reporting /\ ~mayExist
  /\ report' = [commit |-> commit, result |-> "fail"]
  /\ rootThere' = TRUE
  /\ step' = 0 /\ commit' = NoCommit
  /\ UNCHANGED <<repository, normalUp, services, evidence, summary, mayExist, ownSmokes>>

KillAcceptance ==
  /\ step # 0
  /\ DonePartly
  /\ step' = 0 /\ commit' = NoCommit /\ mayExist' = FALSE
  /\ UNCHANGED <<repository, normalUp, evidence, report, ownSmokes>>

AcceptanceNext ==
  \/ \E c \in Commits : CheckOut(c)
  \/ EditTree \/ NormalStack
  \/ \E mode \in Modes, result \in Results : OwnSmoke(mode, result) \/ Smoke(mode, result)
  \/ OwnRestart
  \/ Begin \/ CheckTree
  \/ \E name \in {"bootstrap", "override", "images", "artifacts", "config", "policy", "supply-chain"} :
       Prepare(name)
  \/ Up \/ Inventory \/ Stop \/ Summarise \/ ReportPass \/ FailStep
  \/ StopAfterFailure \/ ReportFailure \/ KillAcceptance

AcceptanceSpec == AcceptanceInit /\ [][AcceptanceNext]_acceptanceVars
-----------------------------------------------------------------------------
(* A report that says pass is about one commit: the runs in the summary    *)
(* beside it are passes of both smokes at the commit the report names, the *)
(* evidence of each of them is still in the root, whatever smokes of the   *)
(* operator add to it later, and no later acceptance runs in that root.    *)
PassIsAboutOneCommit ==
  report.result = "pass" =>
    /\ {record.mode : record \in summary} = Modes
    /\ \A record \in summary : record.commit = report.commit /\ record.result = "pass"
    /\ summary \subseteq evidence
    /\ step = 0 /\ rootThere
=============================================================================
