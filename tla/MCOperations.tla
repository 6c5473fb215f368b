---------------------------- MODULE MCOperations ----------------------------
(* The programs an operator runs.  The groups of them share no state here, *)
(* so a behaviour is about one group, which `focus` names: a check, the    *)
(* latency harness it starts and a generator on the tables of a run; two   *)
(* migrators; two recovery checks; one qualification of one image; two     *)
(* bootstraps and two receipts; one acceptance; a fast and a recovery      *)
(* smoke.                                                                  *)
EXTENDS RunTables, Migrations, Recovery, ImageLock, Receipts, Acceptance, SmokeRuns

CONSTANTS c1, l1, w1, x1, g1, std, mg1, mg2, rc1, rc2, t1, t2, im1, r1, r2, b1, b2, rg1, rg2,
          h1, h2, f1, y1

VARIABLE focus
vars == <<focus, runVars, migrationVars, recoveryVars, imageVars, receiptVars, acceptanceVars, smokeVars>>

MCParentOf == [l \in {l1} |-> c1]
MCOwn == [h \in {c1, l1} |-> IF h = c1 THEN <<w1>> ELSE <<x1>>]
MCRunOf == [g \in {g1} |-> c1]

NotTables == <<migrationVars, recoveryVars, imageVars, receiptVars, acceptanceVars, smokeVars>>
NotMigrations == <<runVars, recoveryVars, imageVars, receiptVars, acceptanceVars, smokeVars>>
NotRecovery == <<runVars, migrationVars, imageVars, receiptVars, acceptanceVars, smokeVars>>
NotImages == <<runVars, migrationVars, recoveryVars, receiptVars, acceptanceVars, smokeVars>>
NotReceipts == <<runVars, migrationVars, recoveryVars, imageVars, acceptanceVars, smokeVars>>
NotAcceptance == <<runVars, migrationVars, recoveryVars, imageVars, receiptVars, smokeVars>>
NotSmoke == <<runVars, migrationVars, recoveryVars, imageVars, receiptVars, acceptanceVars>>

(* Where a group has several initial states, the others keep one of them.  *)
Init ==
  /\ focus \in {"tables", "migrations", "recovery", "images", "receipts", "acceptance", "smoke"}
  /\ RunTablesInit /\ MigrationsInit /\ RecoveryInit
  /\ ImageLockInit /\ ReceiptsInit /\ AcceptanceInit /\ SmokeInit
  /\ focus # "images" => manifest[im1] = r1 /\ dispositions.reviewed = {}
  /\ focus # "receipts" => volume = Absent
  /\ focus # "acceptance" => head = h1 /\ ~dirty /\ ~normalUp
  /\ focus # "smoke" => persistent = Stores

Next ==
  /\ UNCHANGED focus
  /\ \/ focus = "tables" /\ RunTablesNext /\ UNCHANGED NotTables
     \/ focus = "migrations" /\ MigrationsNext /\ UNCHANGED NotMigrations
     \/ focus = "recovery" /\ RecoveryNext /\ UNCHANGED NotRecovery
     \/ focus = "images" /\ ImageLockNext /\ UNCHANGED NotImages
     \/ focus = "receipts" /\ ReceiptsNext /\ UNCHANGED NotReceipts
     \/ focus = "acceptance" /\ AcceptanceNext /\ UNCHANGED NotAcceptance
     \/ focus = "smoke" /\ SmokeNext /\ UNCHANGED NotSmoke

(* The fairness of RunTables, for the behaviours that are about it.        *)
Fairness ==
  \A h \in Harnesses :
    /\ WF_vars(focus = "tables" /\ HarnessStep(h) /\ UNCHANGED <<focus, NotTables>>)
    /\ WF_vars(focus = "tables" /\ TimeOutStage(h) /\ UNCHANGED <<focus, NotTables>>)

Spec == Init /\ [][Next]_vars /\ Fairness

(* Every variable of the programs holds a value of its type: rows name     *)
(* runs that exist, files are absent, empty or whole, positions are within *)
(* a plan.                                                                 *)
TypeOK ==
  /\ RunTablesTypeOK /\ MigrationsTypeOK /\ RecoveryTypeOK
  /\ ImageLockTypeOK /\ ReceiptsTypeOK /\ AcceptanceTypeOK /\ SmokeTypeOK
=============================================================================
