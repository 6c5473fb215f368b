----------------------------- MODULE ClaimRules -----------------------------
(***************************************************************************)
(* The first-wins rule of the claim store: how one input is classified     *)
(* against what is stored for its event identifier.  A content stands for  *)
(* a canonical envelope, told apart from others by its content_sha256.     *)
(***************************************************************************)
CONSTANTS
  Contents,  \* canonical contents
  Verdict,   \* what validation and identity preparation say of a content
  None       \* no content: the identifier is not stored

(***************************************************************************)
(* A content either fails the envelope's validation, or its identity is    *)
(* omitted, prepared or rejected: prepare_identity looks at the content    *)
(* and at the execution's clock, which is well formed.                     *)
(***************************************************************************)
ASSUME VerdictAssumption ==
  Verdict \in [Contents -> {"unvalidated", "omitted", "prepared", "rejected"}]

ASSUME NoneAssumption == None \notin Contents

Claims == {"new", "duplicate", "conflict", "identity_invalid"}

(* A disposition row is named by its status when it has no reason, and by  *)
(* its reason when it is quarantined.                                      *)
Dispositions ==
  {"none", "accepted", "duplicate", "event_id_content_conflict",
   "identity_conflict", "schema_invalid", "kill_switch_engaged",
   "missing_source_run_id"}

DispositionOf ==
  [claim \in Claims |->
     CASE claim = "new"              -> "accepted"
       [] claim = "duplicate"        -> "duplicate"
       [] claim = "conflict"         -> "event_id_content_conflict"
       [] claim = "identity_invalid" -> "identity_conflict"]

StatusOf(disposition) ==
  IF disposition \in {"accepted", "duplicate"} THEN disposition ELSE "quarantined"

\* First wins: the stored content decides, then the identity verdict.
Classify(stored, content) ==
  IF stored # None
  THEN IF stored = content THEN "duplicate" ELSE "conflict"
  ELSE IF Verdict[content] = "rejected" THEN "identity_invalid" ELSE "new"
=============================================================================
