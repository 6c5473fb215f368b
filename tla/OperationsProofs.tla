-------------------------- MODULE OperationsProofs --------------------------
(***************************************************************************)
(* Proofs about the composition of the programs an operator runs: what is  *)
(* proved of each of them holds where they are checked together.           *)
(***************************************************************************)
EXTENDS MCOperations, ToolsProofs, FoundationProofs

(* A behaviour of the composition is one of each program: it starts as     *)
(* they do, and a step of one leaves the variables of the others alone.    *)
THEOREM OperationsCompose ==
  Spec => /\ RunTablesInit /\ [][RunTablesNext]_runVars
          /\ MigrationsSpec /\ RecoverySpec
          /\ ImageLockSpec /\ ReceiptsSpec /\ AcceptanceSpec /\ SmokeSpec
<1>1. Init => /\ RunTablesInit /\ MigrationsInit /\ RecoveryInit
              /\ ImageLockInit /\ ReceiptsInit /\ AcceptanceInit /\ SmokeInit
  BY DEF Init
<1>2. [Next]_vars => [RunTablesNext]_runVars
  BY DEF Next, vars, NotMigrations, NotRecovery, NotImages, NotReceipts, NotAcceptance, NotSmoke
<1>3. [Next]_vars => [MigrationsNext]_migrationVars
  BY DEF Next, vars, NotTables, NotRecovery, NotImages, NotReceipts, NotAcceptance, NotSmoke
<1>4. [Next]_vars => [RecoveryNext]_recoveryVars
  BY DEF Next, vars, NotTables, NotMigrations, NotImages, NotReceipts, NotAcceptance, NotSmoke
<1>5. [Next]_vars => [ImageLockNext]_imageVars
  BY DEF Next, vars, NotTables, NotMigrations, NotRecovery, NotReceipts, NotAcceptance, NotSmoke
<1>6. [Next]_vars => [ReceiptsNext]_receiptVars
  BY DEF Next, vars, NotTables, NotMigrations, NotRecovery, NotImages, NotAcceptance, NotSmoke
<1>7. [Next]_vars => [AcceptanceNext]_acceptanceVars
  BY DEF Next, vars, NotTables, NotMigrations, NotRecovery, NotImages, NotReceipts, NotSmoke
<1>8. [Next]_vars => [SmokeNext]_smokeVars
  BY DEF Next, vars, NotTables, NotMigrations, NotRecovery, NotImages, NotReceipts, NotAcceptance
<1> QED
  BY <1>1, <1>2, <1>3, <1>4, <1>5, <1>6, <1>7, <1>8, PTL
  DEF Spec, MigrationsSpec, RecoverySpec, ImageLockSpec, ReceiptsSpec, AcceptanceSpec, SmokeSpec

(* TypeOK: the programs keep their types, each while the others run too.   *)
THEOREM OperationsTypeCorrect == Spec => []TypeOK
<1>1. RunTablesInit /\ [][RunTablesNext]_runVars => []RunTablesTypeOK
  BY RunTablesTypeInit, RunTablesTypeStep, PTL
<1> QED
  BY <1>1, OperationsCompose, MigrationsTypeCorrect, RecoveryTypeCorrect, ImageLockTypeCorrect,
     ReceiptsTypeCorrect, AcceptanceTypeCorrect, SmokeTypeCorrect, PTL DEF TypeOK
=============================================================================
