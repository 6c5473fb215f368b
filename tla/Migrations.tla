----------------------------- MODULE Migrations -----------------------------
(***************************************************************************)
(* The migration runner: any number of processes that apply the migrations *)
(* of the phase2 schema one by one, roll one back, or run the acceptance   *)
(* gate, which applies, rolls back and applies again between its other     *)
(* stages.  Nothing serialises them but the transaction of each migration. *)
(***************************************************************************)
EXTENDS Sequences

CONSTANTS
  Migrators  \* processes, each started any number of times

m0001 == "m0001_phase2_core"
m0002 == "m0002_execution_reconciliation"
m0003 == "m0003_ci_relationships"
m0004 == "m0004_workflow_drafts"
Migrations == {m0001, m0002, m0003, m0004}

VARIABLES
  objects,  \* the migrations whose tables and columns are in the database
  recorded, \* the rows of phase2.schema_migrations
  roles,    \* the migrations whose service roles have been created
  plan,     \* the commands each process has still to run
  rescue,   \* those it runs instead if one of them fails
  due       \* whether it has found that its next command is due

migrationVars == <<objects, recorded, roles, plan, rescue, due>>

(* What the up migration of m finds missing, or already there, when it     *)
(* fails; m0003 and m0004 refer to tables of m0001.                        *)
Needs(m) == IF m = m0001 THEN {} ELSE {m0001}

Apply(m) == [do |-> "apply", migration |-> m]
Rollback(m) == [do |-> "rollback", migration |-> m]
Stage(what) == [do |-> what, migration |-> m0001]
Commands == {Apply(m) : m \in Migrations} \union {Rollback(m) : m \in Migrations}
            \union {Stage(s) : s \in {"verify", "work", "guard", "unguard"}}

(* apply with --role-password-dir, and without.                            *)
ApplyAll == <<Apply(m0001), Apply(m0002), Apply(m0003), Apply(m0004)>>
ApplyCore == <<Apply(m0001), Apply(m0002)>>

(* The gate: migrate-apply applies twice and verifies; rollback-reapply    *)
(* rolls the core back, and from then on a failure applies and verifies    *)
(* before the gate gives up.  Its other stages are work.                   *)
Gate == ApplyAll \o ApplyAll \o <<Stage("verify"), Stage("work"), Rollback(m0001), Stage("guard")>>
        \o ApplyAll \o <<Stage("verify"), Stage("work"), Stage("unguard"), Stage("work")>>

Programs == {ApplyAll, ApplyCore, Gate} \union {<<Rollback(m)>> : m \in Migrations}

MigrationsTypeOK ==
  /\ objects \subseteq Migrations
  /\ recorded \subseteq Migrations
  /\ roles \subseteq Migrations
  /\ plan \in [Migrators -> Seq(Commands)]
  /\ rescue \in [Migrators -> Seq(Commands)]
  /\ due \in [Migrators -> BOOLEAN]

MigrationsInit ==
  /\ objects = {} /\ recorded = {} /\ roles = {}
  /\ plan = [p \in Migrators |-> <<>>]
  /\ rescue = [p \in Migrators |-> <<>>]
  /\ due = [p \in Migrators |-> FALSE]

Now(p) == Head(plan[p])
Does(p, what) == plan[p] # <<>> /\ Now(p).do = what

Advance(p) ==
  /\ plan' = [plan EXCEPT ![p] = Tail(@)]
  /\ due' = [due EXCEPT ![p] = FALSE]
  /\ UNCHANGED rescue

Fail(p) ==
  /\ plan' = [plan EXCEPT ![p] = rescue[p]]
  /\ rescue' = [rescue EXCEPT ![p] = <<>>]
  /\ due' = [due EXCEPT ![p] = FALSE]
-----------------------------------------------------------------------------
StartProgram(p, program) ==
  /\ plan[p] = <<>>
  /\ plan' = [plan EXCEPT ![p] = program]
  /\ UNCHANGED <<objects, recorded, roles, rescue, due>>

(* _is_applied: what is recorded is not applied again, and what is not     *)
(* recorded is not rolled back.                                            *)
Look(p) ==
  LET isRecorded == Now(p).migration \in recorded
  IN  /\ Does(p, "apply") \/ Does(p, "rollback")
      /\ ~due[p]
      /\ CASE Does(p, "apply") /\ isRecorded -> Advance(p)
           [] Does(p, "rollback") /\ ~isRecorded -> Fail(p)
           [] OTHER -> due' = [due EXCEPT ![p] = TRUE] /\ UNCHANGED <<plan, rescue>>
      /\ UNCHANGED <<objects, recorded, roles>>

(* Slip: a migration and its record are two transactions.                  *)
ApplyUnrecorded(p) ==
  LET m == Now(p).migration
  IN  /\ Does(p, "apply") /\ due[p]
      /\ m \notin objects /\ Needs(m) \subseteq objects
      /\ objects' = objects \union {m}
      /\ recorded' \in {recorded, recorded \union {m}}
      /\ roles' = roles \union ({m} \intersect {m0003, m0004})
      /\ Advance(p)

(* BEGIN; up; INSERT of the record; COMMIT.  What another process did in   *)
(* the meantime, or the key of the registry, makes the transaction fail.   *)
ApplyMigration(p) ==
  LET m == Now(p).migration
  IN  /\ Does(p, "apply") /\ due[p]
      /\ IF m \notin objects /\ Needs(m) \subseteq objects /\ m \notin recorded
         THEN /\ objects' = objects \union {m}
              /\ recorded' = recorded \union {m}
              /\ roles' = roles \union ({m} \intersect {m0003, m0004})
              /\ Advance(p)
         ELSE Fail(p) /\ UNCHANGED <<objects, recorded, roles>>

(* BEGIN; DELETE of the record; down; COMMIT.  The down of m0001 drops the *)
(* schema with everything in it, the registry too; those of m0003 and      *)
(* m0004 drop roles that still hold privileges on the schema, which the    *)
(* database refuses, so the whole transaction fails.                       *)
RollbackMigration(p) ==
  LET m == Now(p).migration
  IN  /\ Does(p, "rollback") /\ due[p]
      /\ IF m \in objects /\ m \in {m0001, m0002}
         THEN /\ objects' = IF m = m0001 THEN {} ELSE objects \ {m}
              /\ recorded' = IF m = m0001 THEN {} ELSE recorded \ {m}
              /\ Advance(p)
         ELSE Fail(p) /\ UNCHANGED <<objects, recorded>>
      /\ UNCHANGED roles

(* verify: the inventory of tables, columns and constraints.               *)
Verify(p) ==
  /\ Does(p, "verify")
  /\ IF objects = Migrations THEN Advance(p) ELSE Fail(p)
  /\ UNCHANGED <<objects, recorded, roles>>

(* The other stages, which do not change the schema and may fail.          *)
Work(p) ==
  /\ Does(p, "work")
  /\ Advance(p) \/ Fail(p)
  /\ UNCHANGED <<objects, recorded, roles>>

(* try: ... finally: if not stage_complete.                                *)
Guard(p) ==
  /\ Does(p, "guard") \/ Does(p, "unguard")
  /\ rescue' = [rescue EXCEPT ![p] =
       IF Does(p, "guard") THEN ApplyAll \o <<Stage("verify")>> ELSE <<>>]
  /\ plan' = [plan EXCEPT ![p] = Tail(@)]
  /\ UNCHANGED <<objects, recorded, roles, due>>

(* The process dies, or psql fails before its transaction commits.         *)
DieMigrating(p) ==
  /\ plan[p] # <<>>
  /\ plan' = [plan EXCEPT ![p] = <<>>]
  /\ rescue' = [rescue EXCEPT ![p] = <<>>]
  /\ due' = [due EXCEPT ![p] = FALSE]
  /\ UNCHANGED <<objects, recorded, roles>>

MigrationStep(p) ==
  \/ Look(p) \/ ApplyMigration(p) \/ RollbackMigration(p)
  \/ Verify(p) \/ Work(p) \/ Guard(p)

MigrationsNext ==
  \E p \in Migrators :
    \/ MigrationStep(p)
    \/ DieMigrating(p)
    \/ \E program \in Programs : StartProgram(p, program)

MigrationsSpec == MigrationsInit /\ [][MigrationsNext]_migrationVars
-----------------------------------------------------------------------------
(* The registry tells the truth: whatever processes apply, roll back and   *)
(* die at once, a migration is recorded exactly when its objects are in    *)
(* the database, so that a later apply neither skips nor repeats one, and  *)
(* nothing stands on a core schema that is gone.                           *)
RecordedIsThere ==
  /\ recorded = objects
  /\ \A m \in objects : Needs(m) \subseteq objects
  /\ objects \intersect {m0003, m0004} \subseteq roles
=============================================================================
