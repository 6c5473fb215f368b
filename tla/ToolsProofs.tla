---------------------------- MODULE ToolsProofs -----------------------------
(***************************************************************************)
(* Proofs about the tools that work on the database: the migration runner, *)
(* for any number of processes that apply, roll back, gate and die at once; *)
(* the recovery check, for any number of checks and of tables; and the     *)
(* harnesses and generators on the tables of runs, for every plan of theirs. *)
(***************************************************************************)
EXTENDS RunTables, Migrations, Recovery, SequenceTheorems, TLAPS

-----------------------------------------------------------------------------
(* The migration runner: what the registry records is there.               *)

USE DEF m0001, m0002, m0003, m0004

MigrationsInv == MigrationsTypeOK /\ RecordedIsThere
-----------------------------------------------------------------------------
(* Type correctness.                                                       *)

LEMMA CommandsType ==
  /\ \A m \in Migrations : Apply(m) \in Commands /\ Rollback(m) \in Commands
  /\ \A s \in {"verify", "work", "guard", "unguard"} : Stage(s) \in Commands
  BY DEF Commands

(* Every program is a sequence of commands.                                *)
LEMMA ProgramsType ==
  /\ ApplyAll \in Seq(Commands)
  /\ ApplyAll \o <<Stage("verify")>> \in Seq(Commands)
  /\ \A program \in Programs : program \in Seq(Commands)
  <1>1. m0001 \in Migrations /\ m0002 \in Migrations /\ m0003 \in Migrations
        /\ m0004 \in Migrations
    BY DEF Migrations
  <1>2. ApplyAll \in Seq(Commands) /\ ApplyCore \in Seq(Commands)
    BY <1>1, CommandsType DEF ApplyAll, ApplyCore
  <1>3. /\ <<Stage("verify")>> \in Seq(Commands)
        /\ <<Stage("verify"), Stage("work"), Rollback(m0001), Stage("guard")>> \in Seq(Commands)
        /\ <<Stage("verify"), Stage("work"), Stage("unguard"), Stage("work")>> \in Seq(Commands)
    BY <1>1, CommandsType
  <1>4. ApplyAll \o <<Stage("verify")>> \in Seq(Commands)
    BY <1>2, <1>3, ConcatProperties
  <1>5. Gate \in Seq(Commands)
    BY <1>2, <1>3, ConcatProperties DEF Gate
  <1>6. \A m \in Migrations : <<Rollback(m)>> \in Seq(Commands)
    BY CommandsType
  <1> QED
    BY <1>2, <1>4, <1>5, <1>6 DEF Programs

(* What ends or fails a command leaves a plan of commands.                 *)
LEMMA AdvanceType ==
  ASSUME MigrationsTypeOK, NEW p \in Migrators, plan[p] # <<>>, Advance(p)
  PROVE  /\ plan' \in [Migrators -> Seq(Commands)]
         /\ rescue' \in [Migrators -> Seq(Commands)]
         /\ due' \in [Migrators -> BOOLEAN]
  <1>1. Tail(plan[p]) \in Seq(Commands)
    BY HeadTailProperties DEF MigrationsTypeOK
  <1> QED
    BY <1>1 DEF MigrationsTypeOK, Advance

LEMMA FailType ==
  ASSUME MigrationsTypeOK, NEW p \in Migrators, Fail(p)
  PROVE  /\ plan' \in [Migrators -> Seq(Commands)]
         /\ rescue' \in [Migrators -> Seq(Commands)]
         /\ due' \in [Migrators -> BOOLEAN]
  <1>1. <<>> \in Seq(Commands)
    OBVIOUS
  <1> QED
    BY <1>1 DEF MigrationsTypeOK, Fail

LEMMA MigrationsTypeInit == MigrationsInit => MigrationsTypeOK
  <1>1. <<>> \in Seq(Commands)
    OBVIOUS
  <1> QED
    BY <1>1 DEF MigrationsInit, MigrationsTypeOK

LEMMA NowType ==
  ASSUME MigrationsTypeOK, NEW p \in Migrators, NEW what, Does(p, what)
  PROVE  plan[p] # <<>> /\ Now(p).migration \in Migrations
  <1>1. plan[p] \in Seq(Commands) /\ plan[p] # <<>>
    BY DEF MigrationsTypeOK, Does
  <1>2. Now(p) \in Commands
    BY <1>1, HeadTailProperties DEF Now
  <1>3. \A c \in Commands : c.migration \in Migrations
    BY DEF Commands, Apply, Rollback, Stage, Migrations
  <1> QED
    BY <1>1, <1>2, <1>3

LEMMA MigrationsTypeStep == MigrationsTypeOK /\ [MigrationsNext]_migrationVars => MigrationsTypeOK'
  <1> SUFFICES ASSUME MigrationsTypeOK, [MigrationsNext]_migrationVars
               PROVE  MigrationsTypeOK'
    OBVIOUS
  <1>1. ASSUME NEW p \in Migrators, Look(p)
        PROVE  MigrationsTypeOK'
    <2>1. plan[p] # <<>> /\ UNCHANGED <<objects, recorded, roles>>
      BY <1>1, NowType DEF Look
    <2>2. CASE Advance(p)
      BY <2>1, <2>2, AdvanceType DEF MigrationsTypeOK
    <2>3. CASE Fail(p)
      BY <2>1, <2>3, FailType DEF MigrationsTypeOK
    <2>4. CASE due' = [due EXCEPT ![p] = TRUE] /\ UNCHANGED <<plan, rescue>>
      BY <2>1, <2>4 DEF MigrationsTypeOK
    <2> QED
      BY <1>1, <2>2, <2>3, <2>4 DEF Look
  <1>2. ASSUME NEW p \in Migrators, ApplyMigration(p)
        PROVE  MigrationsTypeOK'
    <2>1. plan[p] # <<>> /\ Now(p).migration \in Migrations
      BY <1>2, NowType DEF ApplyMigration
    <2>2. objects' \subseteq Migrations /\ recorded' \subseteq Migrations
          /\ roles' \subseteq Migrations
      BY <1>2, <2>1 DEF ApplyMigration, MigrationsTypeOK
    <2> QED
      BY <1>2, <2>1, <2>2, AdvanceType, FailType DEF ApplyMigration, MigrationsTypeOK
  <1>3. ASSUME NEW p \in Migrators, RollbackMigration(p)
        PROVE  MigrationsTypeOK'
    <2>1. plan[p] # <<>>
      BY <1>3, NowType DEF RollbackMigration
    <2>2. objects' \subseteq Migrations /\ recorded' \subseteq Migrations
          /\ roles' \subseteq Migrations
      BY <1>3 DEF RollbackMigration, MigrationsTypeOK
    <2> QED
      BY <1>3, <2>1, <2>2, AdvanceType, FailType DEF RollbackMigration, MigrationsTypeOK
  <1>4. ASSUME NEW p \in Migrators, Verify(p) \/ Work(p)
        PROVE  MigrationsTypeOK'
    <2>1. plan[p] # <<>>
      BY <1>4, NowType DEF Verify, Work
    <2>2. (Advance(p) \/ Fail(p)) /\ UNCHANGED <<objects, recorded, roles>>
      BY <1>4 DEF Verify, Work
    <2> QED
      BY <2>1, <2>2, AdvanceType, FailType DEF MigrationsTypeOK
  <1>5. ASSUME NEW p \in Migrators, Guard(p)
        PROVE  MigrationsTypeOK'
    <2>1. plan[p] # <<>>
      BY <1>5, NowType DEF Guard
    <2>2. Tail(plan[p]) \in Seq(Commands)
      BY <2>1, HeadTailProperties DEF MigrationsTypeOK
    <2>3. <<>> \in Seq(Commands)
      OBVIOUS
    <2> QED
      BY <1>5, <2>2, <2>3, ProgramsType DEF Guard, MigrationsTypeOK
  <1>6. ASSUME NEW p \in Migrators, DieMigrating(p)
        PROVE  MigrationsTypeOK'
    <2>1. <<>> \in Seq(Commands)
      OBVIOUS
    <2> QED
      BY <1>6, <2>1 DEF DieMigrating, MigrationsTypeOK
  <1>7. ASSUME NEW p \in Migrators, NEW program \in Programs, StartProgram(p, program)
        PROVE  MigrationsTypeOK'
    BY <1>7, ProgramsType DEF StartProgram, MigrationsTypeOK
  <1>8. CASE UNCHANGED migrationVars
    BY <1>8 DEF migrationVars, MigrationsTypeOK
  <1> QED
    BY <1>1, <1>2, <1>3, <1>4, <1>5, <1>6, <1>7, <1>8 DEF MigrationsNext, MigrationStep

(* Whatever the processes interleave, objects and records are sets of the  *)
(* four migrations and every plan is a sequence of commands.               *)
THEOREM MigrationsTypeCorrect == MigrationsSpec => []MigrationsTypeOK
  <1> QED
    BY MigrationsTypeInit, MigrationsTypeStep, PTL DEF MigrationsSpec
-----------------------------------------------------------------------------
(* The registry of migrations tells the truth.                             *)

(* The steps that change the schema are the transaction of one migration:  *)
(* its objects and its record come, or go, together.                       *)
LEMMA SchemaStep ==
  ASSUME MigrationsTypeOK, NEW p \in Migrators, ApplyMigration(p) \/ RollbackMigration(p)
  PROVE  \/ UNCHANGED <<objects, recorded, roles>>
         \/ \E m \in Migrations :
              /\ Needs(m) \subseteq objects
              /\ objects' = objects \union {m} /\ recorded' = recorded \union {m}
              /\ roles' = roles \union ({m} \intersect {m0003, m0004})
         \/ objects' = {} /\ recorded' = {} /\ roles' = roles
         \/ /\ objects' = objects \ {m0002} /\ recorded' = recorded \ {m0002}
            /\ roles' = roles
  <1>1. CASE ApplyMigration(p)
    <2>1. Now(p).migration \in Migrations
      BY <1>1, NowType DEF ApplyMigration
    <2> QED
      BY <1>1, <2>1 DEF ApplyMigration
  <1>2. CASE RollbackMigration(p)
    BY <1>2 DEF RollbackMigration
  <1> QED
    BY <1>1, <1>2

(* Only they do.                                                           *)
LEMMA OtherSteps ==
  ASSUME [MigrationsNext]_migrationVars,
         ~ \E p \in Migrators : ApplyMigration(p) \/ RollbackMigration(p)
  PROVE  UNCHANGED <<objects, recorded, roles>>
  BY DEF MigrationsNext, MigrationStep, Look, Verify, Work, Guard, DieMigrating, StartProgram,
         migrationVars

LEMMA RecordedStep == MigrationsInv /\ [MigrationsNext]_migrationVars => RecordedIsThere'
  <1> SUFFICES ASSUME MigrationsInv, [MigrationsNext]_migrationVars
               PROVE  RecordedIsThere'
    OBVIOUS
  <1> USE DEF MigrationsInv
  <1>1. CASE UNCHANGED <<objects, recorded, roles>>
    BY <1>1 DEF RecordedIsThere, Needs
  <1>2. ASSUME NEW m \in Migrations, Needs(m) \subseteq objects,
               objects' = objects \union {m}, recorded' = recorded \union {m},
               roles' = roles \union ({m} \intersect {m0003, m0004})
        PROVE  RecordedIsThere'
    BY <1>2 DEF RecordedIsThere, Needs
  <1>3. CASE objects' = {} /\ recorded' = {} /\ roles' = roles
    BY <1>3 DEF RecordedIsThere
  <1>4. CASE objects' = objects \ {m0002} /\ recorded' = recorded \ {m0002} /\ roles' = roles
    BY <1>4 DEF RecordedIsThere, Needs
  <1> QED
    BY <1>1, <1>2, <1>3, <1>4, SchemaStep, OtherSteps

(* However many processes apply, roll back and die at once, a migration is *)
(* recorded exactly when its objects are in the database, none stands on a *)
(* core schema that is gone, and its roles exist.                          *)
THEOREM RegistryIsTrue == MigrationsSpec => []RecordedIsThere
  <1>1. MigrationsInit => MigrationsInv
    BY MigrationsTypeInit DEF MigrationsInit, MigrationsInv, RecordedIsThere
  <1>2. MigrationsInv /\ [MigrationsNext]_migrationVars => MigrationsInv'
    BY MigrationsTypeStep, RecordedStep DEF MigrationsInv
  <1>3. MigrationsInv => RecordedIsThere
    BY DEF MigrationsInv
  <1> QED
    BY <1>1, <1>2, <1>3, PTL DEF MigrationsSpec

HIDE DEF m0001, m0002, m0003, m0004

-----------------------------------------------------------------------------
(* The recovery check: it compares its own backup with its own restore.    *)

(* A check that is under way, from the lock to its clean-up.               *)
Dumping == {"before", "dumping", "creating", "restoring", "reading", "after", "cleaning"}
UnderWay == Dumping \union {"locked", "condemned"}

(* The file lock is held by the one check that is under way.               *)
HolderIsUnderWay == \A p \in Checkers : checking[p] \in UnderWay <=> holder = p

(* A late command belongs to a check that has given up, so that once a     *)
(* check has dropped what was left behind no restore is late.              *)
LateIsOfTheGone ==
  /\ \A p \in Checkers, what \in {"create", "restore"} :
       <<p, what>> \in late => checking[p] \in {"condemned", "failed", "killed"}
  /\ \A p \in Checkers : checking[p] \in Dumping => ~InUse

(* From the dump on, dump file and temporary database are its own.         *)
WorksOnItsOwn ==
  \A p \in Checkers :
    /\ checking[p] \in {"creating", "restoring", "reading", "after", "cleaning"} => dumpFile.of = p
    /\ checking[p] = "restoring" => temporary.by = p /\ temporary.of = Nobody
    /\ checking[p] = "cleaning" => before[p] = restored[p] /\ restored[p] = after[p]

RecoveryInv ==
  RecoveryTypeOK /\ HolderIsUnderWay /\ LateIsOfTheGone /\ WorksOnItsOwn /\ RecoveryComparesItsOwn
-----------------------------------------------------------------------------
(* What a step of one check does to the places of all.                     *)
LEMMA MoveType ==
  ASSUME RecoveryTypeOK, NEW p \in Checkers, NEW from, NEW to \in Places, Move(p, from, to)
  PROVE  /\ checking' \in [Checkers -> Places]
         /\ checking[p] = from /\ checking'[p] = to
         /\ \A q \in Checkers : q # p => checking'[q] = checking[q]
  BY DEF Move, RecoveryTypeOK

LEMMA RecoveryTypeInit == RecoveryInit => RecoveryTypeOK
  <1> SUFFICES ASSUME RecoveryInit
               PROVE  RecoveryTypeOK
    OBVIOUS
  <1>1. NotRead \in [Tables -> Unread] /\ live \in Digests
    BY MaxWritesAssumption DEF RecoveryInit, NotRead, Unread, Digests
  <1>2. "idle" \in Places
    BY DEF Places
  <1> QED
    BY <1>1, <1>2 DEF RecoveryInit, RecoveryTypeOK, NoDatabase, NoDump

LEMMA RecoveryTypeStep == RecoveryTypeOK /\ [RecoveryNext]_recoveryVars => RecoveryTypeOK'
  <1> SUFFICES ASSUME RecoveryTypeOK, [RecoveryNext]_recoveryVars
               PROVE  RecoveryTypeOK'
    OBVIOUS
  <1> USE MaxWritesAssumption
  <1>1. NotRead \in [Tables -> Unread] /\ Digests \subseteq [Tables -> Unread]
    BY DEF NotRead, Unread, Digests
  <1>2. \A place \in {"idle", "locked", "before", "dumping", "creating", "restoring", "reading",
                       "after", "cleaning", "condemned", "passed", "failed", "killed"} :
          place \in Places
    BY DEF Places, Verdicts
  <1>3. NoDatabase \in [by: Checkers \union {Nobody}, of: Checkers \union {Nobody},
                        state: [Tables -> Unread]]
    BY <1>1 DEF NoDatabase
  <1>4. ASSUME NEW t \in Tables, Write(t)
        PROVE  RecoveryTypeOK'
    <2>1. live' \in Digests
      BY <1>4 DEF Write, RecoveryTypeOK, Digests
    <2> QED
      BY <1>4, <2>1 DEF Write, RecoveryTypeOK
  <1>5. ASSUME NEW p \in Checkers, Lock(p)
        PROVE  RecoveryTypeOK'
    BY <1>2, <1>5, MoveType DEF Lock, RecoveryTypeOK
  <1>6. ASSUME NEW p \in Checkers, DropLeftover(p)
        PROVE  RecoveryTypeOK'
    BY <1>2, <1>3, <1>6, MoveType DEF DropLeftover, RecoveryTypeOK
  <1>7. ASSUME NEW p \in Checkers, NEW t \in Tables, ReadBefore(p, t) \/ ReadAfter(p, t)
        PROVE  RecoveryTypeOK'
    <2>1. live[t] \in Unread
      BY DEF RecoveryTypeOK, Digests, Unread
    <2>2. CASE ReadBefore(p, t)
      BY <2>1, <2>2 DEF ReadBefore, RecoveryTypeOK
    <2>3. CASE ReadAfter(p, t)
      BY <2>1, <2>3 DEF ReadAfter, RecoveryTypeOK
    <2> QED
      BY <1>7, <2>2, <2>3
  <1>8. ASSUME NEW p \in Checkers, CountBefore(p) \/ Compare(p)
        PROVE  RecoveryTypeOK'
    BY <1>2, <1>8, MoveType DEF CountBefore, Compare, RecoveryTypeOK
  <1>9. ASSUME NEW p \in Checkers, Dump(p)
        PROVE  RecoveryTypeOK'
    <2>1. dumpFile' \in [of: Checkers \union {Nobody}, state: [Tables -> Unread]]
      BY <1>1, <1>9 DEF Dump, RecoveryTypeOK
    <2> QED
      BY <1>2, <1>9, <2>1, MoveType DEF Dump, RecoveryTypeOK
  <1>10. ASSUME NEW p \in Checkers, Create(p)
         PROVE  RecoveryTypeOK'
    <2>1. [by |-> p, of |-> Nobody, state |-> NotRead]
            \in [by: Checkers \union {Nobody}, of: Checkers \union {Nobody},
                 state: [Tables -> Unread]]
      BY <1>1
    <2> QED
      BY <1>2, <1>10, <2>1, MoveType DEF Create, RecoveryTypeOK
  <1>11. [temporary EXCEPT !.of = dumpFile.of, !.state = dumpFile.state]
           \in [by: Checkers \union {Nobody}, of: Checkers \union {Nobody},
                state: [Tables -> Unread]]
    BY DEF RecoveryTypeOK
  <1>12. ASSUME NEW p \in Checkers, Restore(p)
         PROVE  RecoveryTypeOK'
    BY <1>2, <1>11, <1>12, MoveType DEF Restore, RecoveryTypeOK
  <1>13. ASSUME NEW p \in Checkers, ReadRestored(p)
         PROVE  RecoveryTypeOK'
    BY <1>2, <1>13, MoveType DEF ReadRestored, RecoveryTypeOK
  <1>14. ASSUME NEW p \in Checkers, CleanUp(p)
         PROVE  RecoveryTypeOK'
    BY <1>2, <1>3, <1>14, MoveType DEF CleanUp, RecoveryTypeOK
  <1>15. ASSUME NEW p \in Checkers, TimeOut(p)
         PROVE  RecoveryTypeOK'
    BY <1>2, <1>15, MoveType DEF TimeOut, RecoveryTypeOK
  <1>16. ASSUME NEW p \in Checkers, NEW what \in {"create", "restore"}, LateCommand(p, what)
         PROVE  RecoveryTypeOK'
    <2>1. [by |-> p, of |-> Nobody, state |-> NotRead]
            \in [by: Checkers \union {Nobody}, of: Checkers \union {Nobody},
                 state: [Tables -> Unread]]
      BY <1>1
    <2>2. temporary' \in {[by |-> p, of |-> Nobody, state |-> NotRead], temporary,
                          [temporary EXCEPT !.of = dumpFile.of, !.state = dumpFile.state]}
      BY <1>16 DEF LateCommand
    <2> QED
      BY <1>11, <1>16, <2>1, <2>2 DEF LateCommand, RecoveryTypeOK
  <1>17. ASSUME NEW p \in Checkers, KillChecker(p)
         PROVE  RecoveryTypeOK'
    <2>1. late' \subseteq Checkers \X {"create", "restore"}
      BY <1>17 DEF KillChecker, RecoveryTypeOK
    <2> QED
      BY <1>2, <1>17, <2>1 DEF KillChecker, RecoveryTypeOK
  <1>18. CASE UNCHANGED recoveryVars
    BY <1>18 DEF recoveryVars, RecoveryTypeOK
  <1> QED
    BY <1>4, <1>5, <1>6, <1>7, <1>8, <1>9, <1>10, <1>12, <1>13, <1>14, <1>15, <1>16, <1>17, <1>18
    DEF RecoveryNext
-----------------------------------------------------------------------------
LEMMA HolderStep == RecoveryInv /\ [RecoveryNext]_recoveryVars => HolderIsUnderWay'
  <1> SUFFICES ASSUME RecoveryInv, [RecoveryNext]_recoveryVars
               PROVE  HolderIsUnderWay'
    OBVIOUS
  <1> USE DEF RecoveryInv, HolderIsUnderWay, UnderWay, Dumping
  <1>1. CASE UNCHANGED <<holder, checking>>
    BY <1>1
  <1>2. ASSUME NEW p \in Checkers, Lock(p)
        PROVE  HolderIsUnderWay'
    BY <1>2, NobodyAssumption DEF Lock, Move, RecoveryTypeOK
  <1>3. ASSUME NEW p \in Checkers, UNCHANGED holder, checking[p] \in UnderWay,
               NEW to \in UnderWay, checking' = [checking EXCEPT ![p] = to]
        PROVE  HolderIsUnderWay'
    BY <1>3 DEF RecoveryTypeOK
  <1>4. ASSUME NEW p \in Checkers, holder' = Nobody, checking[p] \in UnderWay,
               NEW to \in {"passed", "failed", "killed"}, checking' = [checking EXCEPT ![p] = to]
        PROVE  HolderIsUnderWay'
    BY <1>4, NobodyAssumption DEF RecoveryTypeOK
  <1>5. ASSUME NEW p \in Checkers,
               \/ DropLeftover(p) \/ CountBefore(p) \/ Dump(p) \/ Create(p) \/ Restore(p)
               \/ ReadRestored(p) \/ Compare(p) \/ TimeOut(p)
        PROVE  HolderIsUnderWay'
    <2>1. UNCHANGED holder
      BY <1>5 DEF DropLeftover, CountBefore, Dump, Create, Restore, ReadRestored, Compare, TimeOut
    <2>2. PICK from \in UnderWay, to \in UnderWay : Move(p, from, to)
      BY <1>5 DEF DropLeftover, CountBefore, Dump, Create, Restore, ReadRestored, Compare, TimeOut
    <2> QED
      BY <1>3, <2>1, <2>2 DEF Move
  <1>6. ASSUME NEW p \in Checkers, CleanUp(p) \/ KillChecker(p)
        PROVE  HolderIsUnderWay'
    BY <1>4, <1>6 DEF CleanUp, KillChecker, Move
  <1>7. ASSUME NEW p \in Checkers,
               \/ \E t \in Tables : ReadBefore(p, t) \/ ReadAfter(p, t)
               \/ \E what \in {"create", "restore"} : LateCommand(p, what)
        PROVE  HolderIsUnderWay'
    BY <1>1, <1>7 DEF ReadBefore, ReadAfter, LateCommand
  <1>8. ASSUME NEW t \in Tables, Write(t)
        PROVE  HolderIsUnderWay'
    BY <1>1, <1>8 DEF Write
  <1> QED
    BY <1>1, <1>2, <1>5, <1>6, <1>7, <1>8 DEF RecoveryNext, recoveryVars

(* Only one check is under way.                                            *)
LEMMA OneIsUnderWay ==
  ASSUME RecoveryInv, NEW p \in Checkers, NEW q \in Checkers,
         checking[p] \in UnderWay, checking[q] \in UnderWay
  PROVE  p = q
  BY DEF RecoveryInv, HolderIsUnderWay

LEMMA LateStep == RecoveryInv /\ [RecoveryNext]_recoveryVars => LateIsOfTheGone'
  <1> SUFFICES ASSUME RecoveryInv, [RecoveryNext]_recoveryVars
               PROVE  LateIsOfTheGone'
    OBVIOUS
  <1> USE DEF RecoveryInv, LateIsOfTheGone
  <1>1. CASE UNCHANGED <<checking, late>>
    BY <1>1 DEF InUse
  <1>2. ASSUME NEW p \in Checkers, NEW from, NEW to, UNCHANGED late, Move(p, from, to),
               from \notin {"condemned", "failed", "killed"} \/ to \in {"failed", "killed"},
               to \in Dumping => from \in Dumping \/ ~InUse
        PROVE  LateIsOfTheGone'
    BY <1>2 DEF Move, RecoveryTypeOK, InUse, Dumping
  <1>3. ASSUME NEW p \in Checkers,
               \/ Lock(p) \/ DropLeftover(p) \/ CountBefore(p) \/ Dump(p) \/ Create(p)
               \/ Restore(p) \/ ReadRestored(p) \/ Compare(p) \/ CleanUp(p)
        PROVE  LateIsOfTheGone'
    <2>1. UNCHANGED late
      BY <1>3 DEF Lock, DropLeftover, CountBefore, Dump, Create, Restore, ReadRestored, Compare,
                  CleanUp
    <2>2. PICK from, to :
            /\ Move(p, from, to)
            /\ from \notin {"condemned", "failed", "killed"} \/ to \in {"failed", "killed"}
            /\ to \in Dumping => from \in Dumping \/ ~InUse
      BY <1>3 DEF Lock, DropLeftover, CountBefore, Dump, Create, Restore, ReadRestored, Compare,
                  CleanUp, Dumping
    <2> QED
      BY <1>2, <2>1, <2>2
  <1>4. ASSUME NEW p \in Checkers, checking[p] \in UnderWay,
               NEW what \in {"create", "restore"}, late' \in {late, late \union {<<p, what>>}},
               NEW to \in {"condemned", "killed"}, checking' = [checking EXCEPT ![p] = to]
        PROVE  LateIsOfTheGone'
    <2>1. \A q \in Checkers : checking'[q] \notin Dumping
      BY <1>4, OneIsUnderWay DEF RecoveryTypeOK, Dumping, UnderWay
    <2> QED
      BY <1>4, <2>1 DEF RecoveryTypeOK
  <1>5. ASSUME NEW p \in Checkers, TimeOut(p)
        PROVE  LateIsOfTheGone'
    BY <1>4, <1>5 DEF TimeOut, Move, UnderWay, Dumping
  <1>6. ASSUME NEW p \in Checkers, KillChecker(p)
        PROVE  LateIsOfTheGone'
    <2>1. checking[p] \in UnderWay
      BY <1>6 DEF KillChecker, HolderIsUnderWay
    <2>2. PICK what \in {"create", "restore"} : late' \in {late, late \union {<<p, what>>}}
      BY <1>6 DEF KillChecker
    <2> QED
      BY <1>4, <1>6, <2>1, <2>2 DEF KillChecker
  <1>7. ASSUME NEW p \in Checkers, NEW what \in {"create", "restore"}, LateCommand(p, what)
        PROVE  LateIsOfTheGone'
    BY <1>7 DEF LateCommand, InUse
  <1>8. ASSUME NEW p \in Checkers, NEW t \in Tables, ReadBefore(p, t) \/ ReadAfter(p, t)
        PROVE  LateIsOfTheGone'
    BY <1>1, <1>8 DEF ReadBefore, ReadAfter
  <1>9. ASSUME NEW t \in Tables, Write(t)
        PROVE  LateIsOfTheGone'
    BY <1>1, <1>9 DEF Write
  <1> QED
    BY <1>1, <1>3, <1>5, <1>6, <1>7, <1>8, <1>9 DEF RecoveryNext, recoveryVars
-----------------------------------------------------------------------------
LEMMA OwnStep ==
  RecoveryInv /\ [RecoveryNext]_recoveryVars => WorksOnItsOwn' /\ RecoveryComparesItsOwn'
  <1> SUFFICES ASSUME RecoveryInv, [RecoveryNext]_recoveryVars
               PROVE  WorksOnItsOwn' /\ RecoveryComparesItsOwn'
    OBVIOUS
  <1> USE DEF RecoveryInv, WorksOnItsOwn, RecoveryComparesItsOwn
  <1> DEFINE Vouching == {"creating", "restoring", "reading", "after", "cleaning"}
  (* The others are not under way while p is. *)
  <1>1. ASSUME NEW p \in Checkers, checking[p] \in UnderWay, NEW q \in Checkers, q # p
        PROVE  checking[q] \notin UnderWay
    BY <1>1, OneIsUnderWay
  <1>2. CASE UNCHANGED <<temporary, dumpFile, checking, before, after, restored>>
    BY <1>2
  <1>3. ASSUME NEW p \in Checkers, Lock(p)
        PROVE  WorksOnItsOwn' /\ RecoveryComparesItsOwn'
    BY <1>3 DEF Lock, Move, RecoveryTypeOK
  (* A step of p that changes what only p works on. *)
  <1>4. ASSUME NEW p \in Checkers, NEW to, checking[p] \in UnderWay,
               checking' = [checking EXCEPT ![p] = to],
               UNCHANGED <<before, after>>,
               \A q \in Checkers : q # p => restored'[q] = restored[q],
               to \in Vouching => dumpFile'.of = p,
               to = "restoring" => temporary'.by = p /\ temporary'.of = Nobody,
               to \in {"reading", "after", "cleaning"} => temporary'.by = p /\ temporary'.of = p,
               to \in {"cleaning", "passed"} => before[p] = restored'[p] /\ restored'[p] = after[p]
        PROVE  WorksOnItsOwn' /\ RecoveryComparesItsOwn'
    <2>1. ASSUME NEW q \in Checkers, q # p
          PROVE  /\ checking'[q] \notin UnderWay /\ checking'[q] = checking[q]
                 /\ before'[q] = before[q] /\ after'[q] = after[q] /\ restored'[q] = restored[q]
      BY <1>1, <1>4, <2>1 DEF RecoveryTypeOK
    <2>2. checking'[p] = to
      BY <1>4 DEF RecoveryTypeOK
    <2>3. ASSUME NEW q \in Checkers
          PROVE  /\ checking'[q] \in Vouching => dumpFile'.of = q
                 /\ checking'[q] = "restoring" => temporary'.by = q /\ temporary'.of = Nobody
                 /\ checking'[q] \in {"reading", "after", "cleaning"}
                       => temporary'.by = q /\ temporary'.of = q
                 /\ checking'[q] \in {"cleaning", "passed"}
                       => before'[q] = restored'[q] /\ restored'[q] = after'[q]
      <3>1. CASE q = p
        BY <1>4, <2>2, <3>1
      <3>2. CASE q # p
        BY <2>1, <3>2 DEF UnderWay, Dumping
      <3> QED
        BY <3>1, <3>2
    <2> QED
      BY <2>3
  <1>5. ASSUME NEW p \in Checkers, DropLeftover(p)
        PROVE  WorksOnItsOwn' /\ RecoveryComparesItsOwn'
    <2>1. PICK to \in {"before", "condemned"} : Move(p, "locked", to)
      BY <1>5 DEF DropLeftover
    <2> QED
      BY <1>4, <1>5, <2>1 DEF DropLeftover, Move, UnderWay, Dumping
  <1>6. ASSUME NEW p \in Checkers, CountBefore(p)
        PROVE  WorksOnItsOwn' /\ RecoveryComparesItsOwn'
    <2>1. PICK to \in {"dumping", "condemned"} : Move(p, "before", to)
      BY <1>6 DEF CountBefore
    <2> QED
      BY <1>4, <1>6, <2>1 DEF CountBefore, Move, UnderWay, Dumping
  <1>7. ASSUME NEW p \in Checkers, Dump(p)
        PROVE  WorksOnItsOwn' /\ RecoveryComparesItsOwn'
    <2>1. dumpFile'.of = p
      BY <1>7 DEF Dump
    <2> QED
      BY <1>4, <1>7, <2>1 DEF Dump, Move, UnderWay, Dumping
  <1>8. ASSUME NEW p \in Checkers, Create(p)
        PROVE  WorksOnItsOwn' /\ RecoveryComparesItsOwn'
    <2>1. PICK to \in {"restoring", "condemned"} : Move(p, "creating", to)
                /\ (to = "restoring" => temporary'.by = p /\ temporary'.of = Nobody)
      BY <1>8 DEF Create
    <2> QED
      BY <1>4, <1>8, <2>1 DEF Create, Move, UnderWay, Dumping
  <1>9. ASSUME NEW p \in Checkers, Restore(p)
        PROVE  WorksOnItsOwn' /\ RecoveryComparesItsOwn'
    <2>1. dumpFile.of = p /\ temporary.by = p
      BY <1>9 DEF Restore, Move
    <2>2. PICK to \in {"reading", "condemned"} : Move(p, "restoring", to)
                /\ (to = "reading" => temporary'.by = p /\ temporary'.of = p)
      BY <1>9, <2>1 DEF Restore, RecoveryTypeOK
    <2> QED
      BY <1>4, <1>9, <2>1, <2>2 DEF Restore, Move, UnderWay, Dumping
  <1>10. ASSUME NEW p \in Checkers, ReadRestored(p)
         PROVE  WorksOnItsOwn' /\ RecoveryComparesItsOwn'
    BY <1>4, <1>10 DEF ReadRestored, Move, UnderWay, Dumping, RecoveryTypeOK
  <1>11. ASSUME NEW p \in Checkers, Compare(p)
         PROVE  WorksOnItsOwn' /\ RecoveryComparesItsOwn'
    <2>1. PICK to \in {"cleaning", "condemned"} : Move(p, "after", to)
                /\ (to = "cleaning" => before[p] = restored[p] /\ restored[p] = after[p])
      BY <1>11 DEF Compare
    <2> QED
      BY <1>4, <1>11, <2>1 DEF Compare, Move, UnderWay, Dumping
  <1>12. ASSUME NEW p \in Checkers, CleanUp(p)
         PROVE  WorksOnItsOwn' /\ RecoveryComparesItsOwn'
    <2>1. PICK from \in {"cleaning", "condemned"}, to \in {"passed", "failed"} :
            Move(p, from, to) /\ (to = "passed" => from = "cleaning")
      BY <1>12 DEF CleanUp
    <2> QED
      BY <1>4, <1>12, <2>1 DEF CleanUp, Move, UnderWay, Dumping
  <1>13. ASSUME NEW p \in Checkers, TimeOut(p) \/ KillChecker(p)
         PROVE  WorksOnItsOwn' /\ RecoveryComparesItsOwn'
    <2>1. checking[p] \in UnderWay
      BY <1>13 DEF TimeOut, KillChecker, Move, HolderIsUnderWay, UnderWay, Dumping
    <2>2. PICK to \in {"condemned", "killed"} : checking' = [checking EXCEPT ![p] = to]
      BY <1>13 DEF TimeOut, KillChecker, Move
    <2> QED
      BY <1>4, <1>13, <2>1, <2>2 DEF TimeOut, KillChecker
  (* What is late finds the database of the one that is under way. *)
  <1>14. ASSUME NEW p \in Checkers, NEW what \in {"create", "restore"}, LateCommand(p, what)
         PROVE  WorksOnItsOwn' /\ RecoveryComparesItsOwn'
    <2>1. UNCHANGED <<dumpFile, checking, before, after, restored>>
      BY <1>14 DEF LateCommand
    <2>2. ASSUME NEW q \in Checkers, checking[q] \in {"restoring", "reading", "after", "cleaning"}
          PROVE  temporary' = temporary
      <3>1. temporary # NoDatabase
        BY <2>2, NobodyAssumption DEF NoDatabase
      <3>2. what # "restore"
        BY <1>14, <2>2 DEF LateCommand, LateIsOfTheGone, InUse, Dumping
      <3> QED
        BY <1>14, <3>1, <3>2 DEF LateCommand
    <2> QED
      BY <2>1, <2>2
  <1>15. ASSUME NEW p \in Checkers, NEW t \in Tables, ReadBefore(p, t) \/ ReadAfter(p, t)
         PROVE  WorksOnItsOwn' /\ RecoveryComparesItsOwn'
    BY <1>15 DEF ReadBefore, ReadAfter, RecoveryTypeOK
  <1>16. ASSUME NEW t \in Tables, Write(t)
         PROVE  WorksOnItsOwn' /\ RecoveryComparesItsOwn'
    BY <1>2, <1>16 DEF Write
  <1> QED
    BY <1>2, <1>3, <1>5, <1>6, <1>7, <1>8, <1>9, <1>10, <1>11, <1>12, <1>13, <1>14, <1>15, <1>16
    DEF RecoveryNext, recoveryVars

LEMMA RecoveryInvInit == RecoveryInit => RecoveryInv
  BY RecoveryTypeInit, NobodyAssumption
  DEF RecoveryInit, RecoveryInv, HolderIsUnderWay, LateIsOfTheGone, InUse, WorksOnItsOwn,
      RecoveryComparesItsOwn, UnderWay, Dumping

LEMMA RecoveryInvStep == RecoveryInv /\ [RecoveryNext]_recoveryVars => RecoveryInv'
  BY RecoveryTypeStep, HolderStep, LateStep, OwnStep DEF RecoveryInv

(* Digests, dump, database and places of the recovery checks are well      *)
(* typed, however many checks there are.                                   *)
THEOREM RecoveryTypeCorrect == RecoverySpec => []RecoveryTypeOK
  <1> QED
    BY RecoveryTypeInit, RecoveryTypeStep, PTL DEF RecoverySpec

(* Whatever is killed, timed out or carried out late: a check that passed  *)
(* compared its own dump, restored into a database of its own.             *)
THEOREM RecoveryIsOfItsOwn == RecoverySpec => []RecoveryComparesItsOwn
  <1>1. RecoveryInv => RecoveryComparesItsOwn
    BY DEF RecoveryInv
  <1> QED
    BY <1>1, RecoveryInvInit, RecoveryInvStep, PTL DEF RecoverySpec

-----------------------------------------------------------------------------
(* The tables of runs: a harness that passed has removed what it wrote.    *)

(* The foreign keys of the schema: no row of a run without its manifest.   *)
RowsHaveManifests ==
  /\ \A d \in disposed : d[1] \in manifests
  /\ \A c \in cards : c[1] \in manifests
  /\ \A e \in Events : stored[e] \in manifests \union {None}

(* Clean-up begins at the first table, and one that has been through all   *)
(* of them without an error has removed its manifest, as the last row.     *)
ManifestGoesLast ==
  \A h \in Harnesses :
    /\ stage[h] \notin {"deleting", "killed"} => table[h] = 0
    /\ stage[h] = "deleting" /\ table[h] = Len(TableOrder) /\ ~broken[h] => h \notin manifests
    /\ stage[h] = "passed" => h \notin manifests

RunTablesInv == RunTablesTypeOK /\ RowsHaveManifests /\ ManifestGoesLast
-----------------------------------------------------------------------------
(* Lengths, and what an append or a look at the topic yields.              *)
LEMMA TopicFacts ==
  ASSUME RunTablesTypeOK
  PROVE  /\ Len(topic) \in Nat
         /\ \A n \in Nat : n < Len(topic) => topic[n + 1] \in Events
         /\ \A e \in Events : Append(topic, e) \in Seq(Events)
                              /\ Len(Append(topic, e)) = Len(topic) + 1
  <1>1. topic \in Seq(Events)
    BY DEF RunTablesTypeOK
  <1> QED
    BY <1>1, LenProperties, AppendProperties, ElementOfSeq

LEMMA OwnFacts ==
  ASSUME NEW h \in Harnesses
  PROVE  Len(Own[h]) \in Nat /\ \A n \in Nat : n < Len(Own[h]) => Own[h][n + 1] \in Events
  <1>1. Own[h] \in Seq(Events)
    BY HarnessAssumption
  <1> QED
    BY <1>1, LenProperties, ElementOfSeq

LEMMA ClaimType ==
  ASSUME RunTablesTypeOK, NEW run \in Runs, NEW e \in Events, Claim(run, e)
  PROVE  /\ stored' \in [Events -> Runs \union {None}]
         /\ disposed' \subseteq Runs \X Events \X Statuses
         /\ StatusOf(e) \in Statuses
  BY DEF RunTablesTypeOK, Claim, StatusOf, Statuses

LEMMA GotoType ==
  ASSUME RunTablesTypeOK, NEW h \in Harnesses, NEW place \in {"idle"} \union Stages \union Ended,
         Goto(h, place)
  PROVE  /\ stage' \in [Harnesses -> {"idle"} \union Stages \union Ended]
         /\ stage'[h] = place /\ \A i \in Harnesses : i # h => stage'[i] = stage[i]
  BY DEF RunTablesTypeOK, Goto

(* The counts of the consumers, kept together.                             *)
CountsOK ==
  /\ position \in [Harnesses -> Nat] /\ sent \in [Harnesses -> Nat]
  /\ ledger \in [Harnesses -> [Statuses -> Nat]]
  /\ \A h \in Harnesses : Received(h) <= sent[h] /\ sent[h] <= Len(Own[h])

LEMMA ForgetWrittenType ==
  ASSUME RunTablesTypeOK, NEW gone, ForgetCounts(gone)
  PROVE  CountsOK'
  <1>1. /\ position' \in [Harnesses -> Nat] /\ sent' \in [Harnesses -> Nat]
        /\ ledger' \in [Harnesses -> [Statuses -> Nat]]
    BY DEF RunTablesTypeOK, ForgetCounts
  <1>2. ASSUME NEW h \in Harnesses
        PROVE  Received(h)' <= sent'[h] /\ sent'[h] <= Len(Own[h])
    <2>1. CASE h \in gone
      BY <2>1, OwnFacts DEF ForgetCounts, Received, Statuses
    <2>2. CASE h \notin gone
      BY <2>2 DEF RunTablesTypeOK, ForgetCounts, Received
    <2> QED
      BY <2>1, <2>2
  <1> QED
    BY <1>1, <1>2 DEF CountsOK

LEMMA RunTablesTypeInit == RunTablesInit => RunTablesTypeOK
  <1> SUFFICES ASSUME RunTablesInit
               PROVE  RunTablesTypeOK
    OBVIOUS
  <1>1. <<>> \in Seq(Events) /\ Len(<<>>) = 0
    OBVIOUS
  <1>2. CountsOK
    BY OwnFacts DEF RunTablesInit, CountsOK, Received, Statuses
  <1>3. /\ manifests \subseteq Runs /\ stored \in [Events -> Runs \union {None}]
        /\ topic \in Seq(Events) /\ standing \in 0 .. Len(topic)
    BY <1>1 DEF RunTablesInit, Runs
  <1>4. Len(TableOrder) = 4
    BY DEF TableOrder
  <1>5. /\ stage \in [Harnesses -> {"idle"} \union Stages \union Ended]
        /\ broken \in [Harnesses -> BOOLEAN]
        /\ table \in [Harnesses -> 0 .. Len(TableOrder)]
        /\ lateClaim \in [Harnesses -> Events \union {None}]
    BY <1>4 DEF RunTablesInit
  <1>6. /\ disposed \subseteq (Runs \X Events \X Statuses) /\ cards \subseteq (Runs \X Events)
        /\ drafted \subseteq Events
        /\ projecting \in [Generators -> {"idle", "computed", "committed", "read", "half", "done", "failed"}]
        /\ desired \in [Generators -> SUBSET Events]
        /\ files \in [{"json", "html"} -> SUBSET (Runs \X Events)]
    BY DEF RunTablesInit
  <1> QED
    BY <1>2, <1>3, <1>5, <1>6 DEF RunTablesTypeOK, CountsOK
-----------------------------------------------------------------------------
LEMMA OthersType ==
  ASSUME RunTablesTypeOK,
         \/ \E e \in Events : ForeignPublish(e) \/ DraftAbout(e)
         \/ StandingConsume \/ TruncateAll
  PROVE  RunTablesTypeOK'
  <1> USE DEF tables, stream, harness, noc
  <1>1. ASSUME NEW e \in Events, ForeignPublish(e)
        PROVE  RunTablesTypeOK'
    <2>1. /\ topic' = Append(topic, e)
          /\ UNCHANGED <<manifests, stored, disposed, cards, drafted, standing, stage, position,
                         sent, ledger, broken, table, lateClaim, projecting, desired, files>>
      BY <1>1 DEF ForeignPublish
    <2>2. topic' \in Seq(Events) /\ standing' \in 0 .. Len(topic')
      BY <2>1, TopicFacts DEF RunTablesTypeOK
    <2> QED
      BY <2>1, <2>2 DEF RunTablesTypeOK, Received
  <1>2. ASSUME NEW e \in Events, DraftAbout(e)
        PROVE  RunTablesTypeOK'
    BY <1>2 DEF DraftAbout, RunTablesTypeOK, Received
  <1>3. CASE StandingConsume
    <2>1. standing \in Nat /\ standing < Len(topic)
      BY <1>3 DEF StandingConsume, RunTablesTypeOK
    <2>2. topic[standing + 1] \in Events /\ Len(topic) \in Nat
      BY <2>1, TopicFacts
    <2>3. /\ Claim(Standing, topic[standing + 1]) /\ standing' = standing + 1
          /\ UNCHANGED <<manifests, cards, drafted, topic, stage, position,
                         sent, ledger, broken, table, lateClaim, projecting, desired, files>>
      BY <1>3 DEF StandingConsume
    <2>4. stored' \in [Events -> Runs \union {None}] /\ disposed' \subseteq Runs \X Events \X Statuses
      BY <2>2, <2>3, ClaimType DEF Runs
    <2>5. standing' \in 0 .. Len(topic')
      BY <2>1, <2>2, <2>3
    <2> QED
      BY <2>3, <2>4, <2>5 DEF RunTablesTypeOK, Received
  <1>4. CASE TruncateAll
    <2>1. manifests' \subseteq Runs /\ stored' \in [Events -> Runs \union {None}]
      BY <1>4 DEF TruncateAll, Runs
    <2> QED
      BY <1>4, <2>1 DEF TruncateAll, RunTablesTypeOK, Received
  <1> QED
    BY <1>1, <1>2, <1>3, <1>4

LEMMA GeneratorType ==
  ASSUME RunTablesTypeOK, NEW g \in Generators,
         ComputeCards(g) \/ CommitCards(g) \/ ReadCards(g) \/ WriteFile(g) \/ DieProjecting(g)
  PROVE  RunTablesTypeOK'
  <1> USE DEF tables, stream, harness, noc
  <1> DEFINE GeneratorAt == {"idle", "computed", "committed", "read", "half", "done", "failed"}
  <1>1. RunOf[g] \in Runs
    BY HarnessAssumption
  <1>2. \A place \in GeneratorAt : ProjectTo(g, place) => projecting' \in [Generators -> GeneratorAt]
    BY DEF ProjectTo, RunTablesTypeOK
  <1>3. /\ UNCHANGED <<manifests, stored, disposed, drafted, topic, standing, stage, position,
                       sent, ledger, broken, table, lateClaim>>
        /\ projecting' \in [Generators -> GeneratorAt]
    <2>1. UNCHANGED <<manifests, stored, disposed, drafted, topic, standing, stage, position,
                      sent, ledger, broken, table, lateClaim>>
      BY DEF ComputeCards, CommitCards, ReadCards, WriteFile, DieProjecting
    <2>2. PICK place \in GeneratorAt : ProjectTo(g, place)
      BY DEF ComputeCards, CommitCards, ReadCards, WriteFile, DieProjecting
    <2> QED
      BY <1>2, <2>1, <2>2
  <1>4. desired' \in [Generators -> SUBSET Events]
    <2>1. PICK own \in SUBSET Events : desired' = [desired EXCEPT ![g] = own]
      <3>1. CASE ComputeCards(g)
        BY <3>1 DEF ComputeCards, RowsOf
      <3>2. CASE CommitCards(g) \/ DieProjecting(g)
        BY <3>2 DEF CommitCards, DieProjecting
      <3>3. CASE ReadCards(g)
        <4>1. {c[2] : c \in {c \in cards : c[1] = RunOf[g]}} \in SUBSET Events
          BY DEF RunTablesTypeOK
        <4> QED
          BY <3>3, <4>1 DEF ReadCards
      <3>4. CASE WriteFile(g)
        BY <3>4 DEF WriteFile, RunTablesTypeOK
      <3> QED
        BY <3>1, <3>2, <3>3, <3>4
    <2> QED
      BY <2>1 DEF RunTablesTypeOK
  <1>5. cards' \subseteq Runs \X Events
    <2>1. CASE CommitCards(g)
      BY <1>1, <2>1 DEF CommitCards, RunTablesTypeOK
    <2>2. CASE ComputeCards(g) \/ ReadCards(g) \/ WriteFile(g) \/ DieProjecting(g)
      BY <2>2 DEF ComputeCards, ReadCards, WriteFile, DieProjecting, RunTablesTypeOK
    <2> QED
      BY <2>1, <2>2
  <1>6. files' \in [{"json", "html"} -> SUBSET (Runs \X Events)]
    <2>1. CASE WriteFile(g)
      <3>1. {RunOf[g]} \X desired[g] \in SUBSET (Runs \X Events)
        BY <1>1 DEF RunTablesTypeOK
      <3>2. PICK f \in {"json", "html"} : files' = [files EXCEPT ![f] = {RunOf[g]} \X desired[g]]
        BY <2>1 DEF WriteFile
      <3> QED
        BY <3>1, <3>2 DEF RunTablesTypeOK
    <2>2. CASE ComputeCards(g) \/ CommitCards(g) \/ ReadCards(g) \/ DieProjecting(g)
      BY <2>2 DEF ComputeCards, CommitCards, ReadCards, DieProjecting, RunTablesTypeOK
    <2> QED
      BY <2>1, <2>2
  <1> QED
    BY <1>3, <1>4, <1>5, <1>6 DEF RunTablesTypeOK, Received

LEMMA ReceivedType ==
  ASSUME RunTablesTypeOK, NEW h \in Harnesses
  PROVE  /\ ledger[h] \in [Statuses -> Nat] /\ Received(h) \in Nat
         /\ sent[h] \in Nat /\ Received(h) <= sent[h] /\ sent[h] <= Len(Own[h])
  <1>1. ledger[h] \in [Statuses -> Nat] /\ sent[h] \in Nat
    BY DEF RunTablesTypeOK
  <1>2. ledger[h].accepted \in Nat /\ ledger[h].duplicate \in Nat
    BY <1>1 DEF Statuses
  <1> QED
    BY <1>1, <1>2 DEF RunTablesTypeOK, Received

(* Each step of a harness.                                                 *)
LEMMA HarnessType ==
  ASSUME RunTablesTypeOK, NEW h \in Harnesses, HarnessStep(h) \/ TimeOutStage(h) \/ LateClaim(h)
  PROVE  RunTablesTypeOK'
  <1> USE DEF tables, stream, harness, noc
  <1> DEFINE Everywhere == {"idle"} \union Stages \union Ended
  <1>1. Len(TableOrder) = 4
    BY DEF TableOrder
  <1>2. h \in Runs /\ RowsOf(h) \subseteq Events
    BY DEF Runs, RowsOf
  <1>3. {h} \X RowsOf(h) \subseteq Runs \X Events
    BY <1>2
  <1>4. CountsOK
    BY DEF RunTablesTypeOK, CountsOK
  <1>5. CASE Capture(h)
    <2>1. /\ Goto(h, "publishing") /\ position' = [position EXCEPT ![h] = Len(topic)]
          /\ UNCHANGED <<manifests, stored, disposed, cards, drafted, topic, standing, sent, ledger,
                         broken, table, lateClaim, projecting, desired, files>>
      BY <1>5 DEF Capture
    <2>2. stage' \in [Harnesses -> Everywhere] /\ position' \in [Harnesses -> Nat]
      BY <2>1, GotoType, TopicFacts DEF Stages, RunTablesTypeOK
    <2> QED
      BY <2>1, <2>2 DEF RunTablesTypeOK, Received
  <1>6. CASE Publish(h)
    <2>1. /\ sent[h] < Len(Own[h]) /\ topic' = Append(topic, Own[h][sent[h] + 1])
          /\ sent' = [sent EXCEPT ![h] = @ + 1]
          /\ manifests' \in {manifests, manifests \union {h}}
          /\ Goto(h, "draining") \/ UNCHANGED stage
          /\ UNCHANGED <<stored, disposed, cards, drafted, standing, position, ledger, broken, table,
                         lateClaim, projecting, desired, files>>
      BY <1>6 DEF Publish
    <2>2. stage' \in [Harnesses -> Everywhere]
      BY <2>1, GotoType DEF Stages, RunTablesTypeOK
    <2>3. sent[h] \in Nat /\ Own[h][sent[h] + 1] \in Events /\ Len(Own[h]) \in Nat
      BY <2>1, OwnFacts DEF RunTablesTypeOK
    <2>4. topic' \in Seq(Events) /\ standing' \in 0 .. Len(topic')
      BY <2>1, <2>3, TopicFacts DEF RunTablesTypeOK
    <2>5. sent' \in [Harnesses -> Nat]
      BY <2>1, <2>3 DEF RunTablesTypeOK
    <2>6. ASSUME NEW i \in Harnesses
          PROVE  Received(i)' <= sent'[i] /\ sent'[i] <= Len(Own[i])
      <3>1. /\ Received(i)' = Received(i) /\ Received(i) \in Nat /\ Len(Own[i]) \in Nat
            /\ sent[i] \in Nat /\ Received(i) <= sent[i] /\ sent[i] <= Len(Own[i])
        BY <2>1, OwnFacts, ReceivedType DEF Received
      <3>2. sent'[i] = IF i = h THEN sent[i] + 1 ELSE sent[i]
        BY <2>1 DEF RunTablesTypeOK
      <3> QED
        BY <2>1, <3>1, <3>2
    <2>7. manifests' \subseteq Runs
      BY <1>2, <2>1 DEF RunTablesTypeOK
    <2> QED
      BY <2>1, <2>2, <2>4, <2>5, <2>6, <2>7 DEF RunTablesTypeOK
  <1>7. CASE Drain(h)
    <2>1. position[h] \in Nat /\ position[h] < Len(topic) /\ Received(h) < sent[h]
      BY <1>7 DEF Drain, RunTablesTypeOK
    <2> DEFINE e == topic[position[h] + 1]
    <2>2. e \in Events
      BY <2>1, TopicFacts
    <2>3. /\ Claim(h, e) /\ ledger' = [ledger EXCEPT ![h][StatusOf(e)] = @ + 1]
          /\ position' = [position EXCEPT ![h] = @ + 1]
          /\ UNCHANGED <<manifests, cards, drafted, topic, standing, stage, sent, broken, table,
                         lateClaim, projecting, desired, files>>
      BY <1>7 DEF Drain
    <2> HIDE DEF e
    <2>4. /\ stored' \in [Events -> Runs \union {None}] /\ disposed' \subseteq Runs \X Events \X Statuses
          /\ StatusOf(e) \in Statuses
      BY <1>2, <2>2, <2>3, ClaimType
    <2>5. ledger' \in [Harnesses -> [Statuses -> Nat]] /\ position' \in [Harnesses -> Nat]
      BY <2>1, <2>3, <2>4 DEF RunTablesTypeOK
    <2>6. ASSUME NEW i \in Harnesses
          PROVE  Received(i)' <= sent'[i] /\ sent'[i] <= Len(Own[i])
      <3>1. CASE i # h
        BY <2>3, <3>1 DEF RunTablesTypeOK, Received
      <3>2. CASE i = h
        <4>1. ledger' = [ledger EXCEPT ![h] = [ledger[h] EXCEPT ![StatusOf(e)] = @ + 1]]
          BY <2>3
        <4>2. ledger'[h] = [ledger[h] EXCEPT ![StatusOf(e)] = @ + 1]
          BY <4>1 DEF RunTablesTypeOK
        <4>3. ledger'[h].accepted + ledger'[h].duplicate
                = ledger[h].accepted + ledger[h].duplicate + 1
          <5>1. ledger[h].accepted \in Nat /\ ledger[h].duplicate \in Nat
            BY ReceivedType DEF Statuses
          <5>2. CASE StatusOf(e) = "accepted"
            BY <4>2, <5>1, <5>2, ReceivedType DEF Statuses
          <5>3. CASE StatusOf(e) = "duplicate"
            BY <4>2, <5>1, <5>3, ReceivedType DEF Statuses
          <5> QED
            BY <2>4, <5>2, <5>3 DEF Statuses
        <4> QED
          BY <2>1, <2>3, <3>2, <4>3, ReceivedType DEF Received
      <3> QED
        BY <3>1, <3>2
    <2> QED
      BY <2>3, <2>4, <2>5, <2>6 DEF RunTablesTypeOK
  <1>8. CASE EndDrain(h)
    <2>1. stage' \in [Harnesses -> Everywhere]
      BY <1>8, GotoType DEF EndDrain, Stages
    <2> QED
      BY <1>8, <2>1 DEF EndDrain, RunTablesTypeOK, Received
  <1>9. CASE SeePersisted(h)
    <2>1. cards' \subseteq Runs \X Events
      BY <1>3, <1>9 DEF SeePersisted, RunTablesTypeOK
    <2>2. /\ UNCHANGED <<manifests, stored, disposed, drafted, topic, standing, broken, table,
                         lateClaim, projecting, desired, files>>
          /\ \/ Goto(h, "publishing") /\ position' = [position EXCEPT ![h] = Len(topic)]
                /\ UNCHANGED <<sent, ledger>>
             \/ Goto(h, "deleting") /\ ForgetCounts({h})
      BY <1>9 DEF SeePersisted
    <2>3. stage' \in [Harnesses -> Everywhere]
      BY <2>2, GotoType DEF Stages
    <2>4. CountsOK'
      <3>1. CASE position' = [position EXCEPT ![h] = Len(topic)] /\ UNCHANGED <<sent, ledger>>
        BY <1>4, <3>1, TopicFacts DEF CountsOK, Received
      <3> QED
        BY <2>2, <3>1, ForgetWrittenType
    <2> QED
      BY <2>1, <2>2, <2>3, <2>4 DEF RunTablesTypeOK, CountsOK
  <1>10. CASE ZeroLoss(h)
    <2>1. PICK agree \in BOOLEAN :
            /\ Goto(h, IF agree THEN "dashboard" ELSE "deleting")
            /\ broken' = [broken EXCEPT ![h] = ~agree]
      BY <1>10 DEF ZeroLoss
    <2>2. /\ ForgetCounts({h})
          /\ UNCHANGED <<manifests, stored, disposed, cards, drafted, topic, standing, table,
                         lateClaim, projecting, desired, files>>
      BY <1>10 DEF ZeroLoss
    <2>3. stage' \in [Harnesses -> Everywhere] /\ broken' \in [Harnesses -> BOOLEAN]
      BY <2>1, GotoType DEF Stages, RunTablesTypeOK
    <2> QED
      BY <2>2, <2>3, ForgetWrittenType DEF RunTablesTypeOK, CountsOK
  <1>11. CASE Dashboard(h)
    <2>1. PICK isBroken \in BOOLEAN :
            /\ Goto(h, IF isBroken THEN "deleting" ELSE "latency")
            /\ broken' = [broken EXCEPT ![h] = isBroken]
      BY <1>11 DEF Dashboard
    <2>2. stage' \in [Harnesses -> Everywhere] /\ broken' \in [Harnesses -> BOOLEAN]
      BY <2>1, GotoType DEF Stages, RunTablesTypeOK
    <2>3. cards' \subseteq Runs \X Events
      BY <1>3, <1>11 DEF Dashboard, RunTablesTypeOK
    <2> QED
      BY <1>11, <2>2, <2>3 DEF Dashboard, RunTablesTypeOK, Received
  <1>12. CASE EndLatency(h)
    <2>1. stage' \in [Harnesses -> Everywhere] /\ broken' \in [Harnesses -> BOOLEAN]
      BY <1>12, GotoType DEF EndLatency, Stages, RunTablesTypeOK
    <2> QED
      BY <1>12, <2>1 DEF EndLatency, RunTablesTypeOK, Received
  <1>13. CASE DeleteTable(h)
    <2>1. /\ table[h] \in 0 .. 3
          /\ UNCHANGED <<drafted, topic, standing, stage, position, sent, ledger, lateClaim,
                         projecting, desired, files>>
      BY <1>1, <1>13 DEF DeleteTable, RunTablesTypeOK
    <2>2. broken' \in [Harnesses -> BOOLEAN] /\ table' \in [Harnesses -> 0 .. Len(TableOrder)]
      <3>1. \/ broken' = [broken EXCEPT ![h] = TRUE] \/ UNCHANGED broken
        BY <1>13 DEF DeleteTable
      <3>2. table' = [table EXCEPT ![h] = 4] \/ table' = [table EXCEPT ![h] = table[h] + 1]
        BY <1>1, <1>13 DEF DeleteTable
      <3>3. broken' \in [Harnesses -> BOOLEAN]
        BY <3>1 DEF RunTablesTypeOK
      <3>4. 4 \in 0 .. Len(TableOrder) /\ table[h] + 1 \in 0 .. Len(TableOrder)
        BY <1>1, <2>1
      <3>5. table' \in [Harnesses -> 0 .. Len(TableOrder)]
        BY <3>2, <3>4 DEF RunTablesTypeOK
      <3> QED
        BY <3>3, <3>5
    <2>3. /\ manifests' \subseteq Runs /\ stored' \in [Events -> Runs \union {None}]
          /\ disposed' \subseteq Runs \X Events \X Statuses /\ cards' \subseteq Runs \X Events
      <3>1. CASE Keeps(h, TableOrder[table[h] + 1])
        BY <1>13, <3>1 DEF DeleteTable, RunTablesTypeOK
      <3>2. CASE ~Keeps(h, TableOrder[table[h] + 1])
        BY <1>13, <3>2 DEF DeleteTable, DeleteRows, RunTablesTypeOK
      <3> QED
        BY <3>1, <3>2
    <2> QED
      BY <2>1, <2>2, <2>3 DEF RunTablesTypeOK, Received
  <1>14. CASE EndHarness(h)
    <2>1. /\ stage' \in [Harnesses -> Everywhere] /\ broken' \in [Harnesses -> BOOLEAN]
          /\ table' \in [Harnesses -> 0 .. Len(TableOrder)]
      BY <1>1, <1>14, GotoType DEF EndHarness, Ended, RunTablesTypeOK
    <2> QED
      BY <1>14, <2>1 DEF EndHarness, RunTablesTypeOK, Received
  <1>15. CASE TimeOutStage(h)
    <2>1. /\ UNCHANGED <<manifests, stored, disposed, cards, drafted, topic, standing, table,
                         projecting, desired, files>>
          /\ broken' = [broken EXCEPT ![h] = TRUE]
      BY <1>15 DEF TimeOutStage
    <2>2. stage' \in [Harnesses -> Everywhere]
      BY <1>15 DEF TimeOutStage, Stages, Ended, RunTablesTypeOK
    <2>3. CountsOK'
      BY <1>15, ForgetWrittenType DEF TimeOutStage
    <2>4. lateClaim' \in [Harnesses -> Events \union {None}]
      <3>1. position[h] < Len(topic) => topic[position[h] + 1] \in Events
        BY TopicFacts DEF RunTablesTypeOK
      <3>2. \/ lateClaim' = lateClaim
            \/ /\ position[h] < Len(topic)
               /\ lateClaim' = [lateClaim EXCEPT ![h] = topic[position[h] + 1]]
        BY <1>15 DEF TimeOutStage
      <3> QED
        BY <3>1, <3>2 DEF RunTablesTypeOK
    <2> QED
      BY <2>1, <2>2, <2>3, <2>4 DEF RunTablesTypeOK, CountsOK
  <1>16. CASE LateClaim(h)
    <2>1. lateClaim[h] \in Events
      BY <1>16 DEF LateClaim, RunTablesTypeOK
    <2>2. /\ stored' \in [Events -> Runs \union {None}]
          /\ disposed' \subseteq Runs \X Events \X Statuses
      BY <1>2, <1>16, <2>1, ClaimType DEF LateClaim, RunTablesTypeOK
    <2>3. lateClaim' \in [Harnesses -> Events \union {None}]
      BY <1>16 DEF LateClaim, RunTablesTypeOK
    <2> QED
      BY <1>16, <2>2, <2>3 DEF LateClaim, RunTablesTypeOK, Received
  <1> QED
    BY <1>5, <1>6, <1>7, <1>8, <1>9, <1>10, <1>11, <1>12, <1>13, <1>14, <1>15, <1>16
    DEF HarnessStep

LEMMA RunTablesTypeStep == RunTablesTypeOK /\ [RunTablesNext]_runVars => RunTablesTypeOK'
  <1> SUFFICES ASSUME RunTablesTypeOK, [RunTablesNext]_runVars
               PROVE  RunTablesTypeOK'
    OBVIOUS
  <1>1. CASE UNCHANGED runVars
    BY <1>1 DEF runVars, RunTablesTypeOK, Received
  <1> QED
    BY <1>1, OthersType, GeneratorType, HarnessType DEF RunTablesNext
-----------------------------------------------------------------------------
(* A claim, and cards that are rewritten, keep the foreign keys.           *)
LEMMA ClaimKeeps ==
  ASSUME RunTablesInv, NEW run \in Runs, NEW e \in Events, Claim(run, e), UNCHANGED <<manifests, cards>>
  PROVE  RowsHaveManifests'
  BY DEF RunTablesInv, RunTablesTypeOK, RowsHaveManifests, Claim

LEMMA CardsKeep ==
  ASSUME RunTablesInv, NEW run, NEW own, own # {} => run \in manifests,
         cards' = {c \in cards : c[1] # run} \union ({run} \X own),
         UNCHANGED <<manifests, stored, disposed>>
  PROVE  RowsHaveManifests'
  BY DEF RunTablesInv, RowsHaveManifests

(* A run without its manifest has no rows: DELETE of it would have failed. *)
LEMMA DeleteKeeps ==
  ASSUME RunTablesInv, NEW h \in Harnesses, NEW name, ~Keeps(h, name), DeleteRows(h, name)
  PROVE  RowsHaveManifests'
  <1> USE DEF RunTablesInv, RowsHaveManifests
  <1>1. CASE name = "run_manifests"
    <2>1. /\ \A d \in disposed : d[1] # h
          /\ \A c \in cards : c[1] # h
          /\ \A e \in Events : stored[e] # h
      BY <1>1 DEF Keeps, Empty, RowsOf
    <2>2. UNCHANGED <<disposed, cards, stored>> /\ manifests' = manifests \ {h}
      BY <1>1 DEF DeleteRows
    <2> QED
      BY <2>1, <2>2
  <1>2. CASE name # "run_manifests"
    BY <1>2 DEF DeleteRows, RunTablesTypeOK
  <1> QED
    BY <1>1, <1>2

LEMMA RowsStep == RunTablesInv /\ [RunTablesNext]_runVars => RowsHaveManifests'
  <1> SUFFICES ASSUME RunTablesInv, [RunTablesNext]_runVars
               PROVE  RowsHaveManifests'
    OBVIOUS
  <1> USE DEF tables
  <1>1. CASE UNCHANGED <<manifests, stored, disposed, cards>>
    BY <1>1 DEF RunTablesInv, RowsHaveManifests
  <1>2. ASSUME NEW h \in Harnesses,
               \/ Capture(h) \/ EndDrain(h) \/ ZeroLoss(h) \/ EndLatency(h) \/ EndHarness(h)
               \/ TimeOutStage(h)
        PROVE  RowsHaveManifests'
    BY <1>1, <1>2 DEF Capture, EndDrain, ZeroLoss, EndLatency, EndHarness, TimeOutStage
  <1>3. ASSUME NEW h \in Harnesses, Publish(h)
        PROVE  RowsHaveManifests'
    BY <1>3 DEF Publish, RunTablesInv, RowsHaveManifests
  <1>4. ASSUME NEW h \in Harnesses, Drain(h)
        PROVE  RowsHaveManifests'
    <2>1. topic[position[h] + 1] \in Events
      BY <1>4, TopicFacts DEF Drain, RunTablesInv, RunTablesTypeOK
    <2> QED
      BY <1>4, <2>1, ClaimKeeps DEF Drain, Runs
  <1>5. ASSUME NEW h \in Harnesses, LateClaim(h)
        PROVE  RowsHaveManifests'
    <2>1. lateClaim[h] \in Events
      BY <1>5 DEF LateClaim, RunTablesInv, RunTablesTypeOK
    <2> QED
      BY <1>1, <1>5, <2>1, ClaimKeeps DEF LateClaim, Runs
  <1>6. ASSUME NEW h \in Harnesses, SeePersisted(h) \/ Dashboard(h)
        PROVE  RowsHaveManifests'
    <2>1. RowsOf(h) # {} => h \in manifests
      BY HarnessAssumption DEF RunTablesInv, RowsHaveManifests, RowsOf, Runs
    <2> QED
      BY <1>1, <1>6, <2>1, CardsKeep DEF SeePersisted, Dashboard
  <1>7. ASSUME NEW h \in Harnesses, DeleteTable(h)
        PROVE  RowsHaveManifests'
    BY <1>1, <1>7, DeleteKeeps DEF DeleteTable
  <1>8. ASSUME NEW g \in Generators, CommitCards(g)
        PROVE  RowsHaveManifests'
    BY <1>1, <1>8, CardsKeep DEF CommitCards
  <1>9. ASSUME NEW g \in Generators,
               ComputeCards(g) \/ ReadCards(g) \/ WriteFile(g) \/ DieProjecting(g)
        PROVE  RowsHaveManifests'
    BY <1>1, <1>9 DEF ComputeCards, ReadCards, WriteFile, DieProjecting
  <1>10. ASSUME NEW e \in Events, ForeignPublish(e) \/ DraftAbout(e)
         PROVE  RowsHaveManifests'
    BY <1>1, <1>10 DEF ForeignPublish, DraftAbout
  <1>11. CASE StandingConsume
    <2>1. topic[standing + 1] \in Events
      BY <1>11, TopicFacts DEF StandingConsume, RunTablesInv, RunTablesTypeOK
    <2> QED
      BY <1>11, <2>1, ClaimKeeps DEF StandingConsume, Runs
  <1>12. CASE TruncateAll
    BY <1>12 DEF TruncateAll, RowsHaveManifests
  <1> QED
    BY <1>1, <1>2, <1>3, <1>4, <1>5, <1>6, <1>7, <1>8, <1>9, <1>10, <1>11, <1>12
    DEF RunTablesNext, HarnessStep, runVars
-----------------------------------------------------------------------------
(* A step of h that moves it, or deletes for it; the others stay.          *)
LEMMA OwnMove ==
  ASSUME RunTablesInv, NEW h \in Harnesses, UNCHANGED table,
         manifests' \subseteq manifests \union {h},
         \A i \in Harnesses \ {h} : stage'[i] = stage[i] /\ broken'[i] = broken[i],
         stage[h] \notin {"deleting", "killed", "passed"}, stage'[h] # "passed"
  PROVE  ManifestGoesLast'
  BY DEF RunTablesInv, ManifestGoesLast, TableOrder

LEMMA GoesLastStep == RunTablesInv /\ [RunTablesNext]_runVars => ManifestGoesLast'
  <1> SUFFICES ASSUME RunTablesInv, [RunTablesNext]_runVars
               PROVE  ManifestGoesLast'
    OBVIOUS
  <1> USE DEF tables, harness
  <1>1. CASE manifests' \subseteq manifests \union {Standing} /\ UNCHANGED <<stage, broken, table>>
    BY <1>1, HarnessAssumption DEF RunTablesInv, ManifestGoesLast
  <1>2. ASSUME NEW h \in Harnesses,
               \/ Capture(h) \/ EndDrain(h) \/ SeePersisted(h) \/ EndLatency(h)
               \/ ZeroLoss(h) \/ Dashboard(h)
        PROVE  ManifestGoesLast'
    <2>1. /\ stage[h] \in {"idle", "draining", "waiting", "latency", "checking", "dashboard"}
          /\ UNCHANGED <<manifests, table>>
      BY <1>2 DEF Capture, EndDrain, SeePersisted, EndLatency, ZeroLoss, Dashboard
    <2>2. PICK place \in {"publishing", "checking", "waiting", "deleting", "dashboard", "latency"} :
            Goto(h, place)
      BY <1>2 DEF Capture, EndDrain, SeePersisted, EndLatency, ZeroLoss, Dashboard
    <2>3. \/ UNCHANGED broken
          \/ \E b \in BOOLEAN : broken' = [broken EXCEPT ![h] = b]
      BY <1>2 DEF Capture, EndDrain, SeePersisted, EndLatency, ZeroLoss, Dashboard
    <2>4. \A i \in Harnesses \ {h} : stage'[i] = stage[i] /\ broken'[i] = broken[i]
      BY <2>2, <2>3 DEF Goto, RunTablesInv, RunTablesTypeOK
    <2>5. stage'[h] = place
      BY <2>2 DEF Goto, RunTablesInv, RunTablesTypeOK
    <2> QED
      BY <2>1, <2>2, <2>4, <2>5, OwnMove
  <1>3. ASSUME NEW h \in Harnesses, Publish(h)
        PROVE  ManifestGoesLast'
    <2>1. /\ stage[h] = "publishing" /\ manifests' \subseteq manifests \union {h}
          /\ Goto(h, "draining") \/ UNCHANGED stage
          /\ UNCHANGED <<broken, table>>
      BY <1>3 DEF Publish
    <2> QED
      BY <2>1, OwnMove DEF Goto, RunTablesInv, RunTablesTypeOK
  <1>4. ASSUME NEW h \in Harnesses, DeleteTable(h)
        PROVE  ManifestGoesLast'
    <2> DEFINE name == TableOrder[table[h] + 1]
    <2>1. Len(TableOrder) = 4 /\ table[h] \in 0 .. 3 /\ stage[h] = "deleting" /\ UNCHANGED stage
      BY <1>4 DEF DeleteTable, TableOrder, RunTablesInv, RunTablesTypeOK
    <2>2. /\ manifests' \subseteq manifests
          /\ \A i \in Harnesses \ {h} : broken'[i] = broken[i] /\ table'[i] = table[i]
      BY <1>4 DEF DeleteTable, DeleteRows, RunTablesInv, RunTablesTypeOK
    <2>3. ASSUME table'[h] = 4, ~broken'[h]
          PROVE  h \notin manifests'
      <3>1. ~Keeps(h, name) /\ table'[h] = table[h] + 1
        BY <1>4, <2>3 DEF DeleteTable, RunTablesInv, RunTablesTypeOK
      <3>2. name = "run_manifests"
        BY <2>1, <2>3, <3>1 DEF TableOrder
      <3> QED
        BY <1>4, <3>1, <3>2 DEF DeleteTable, DeleteRows
    <2> QED
      BY <2>1, <2>2, <2>3 DEF RunTablesInv, ManifestGoesLast
  <1>5. ASSUME NEW h \in Harnesses, EndHarness(h)
        PROVE  ManifestGoesLast'
    <2>1. /\ stage[h] = "deleting" /\ table[h] = Len(TableOrder) /\ UNCHANGED manifests
          /\ \A i \in Harnesses \ {h} : stage'[i] = stage[i] /\ broken'[i] = broken[i]
                                        /\ table'[i] = table[i]
          /\ table'[h] = 0 /\ stage'[h] = IF broken[h] THEN "failed" ELSE "passed"
      BY <1>5 DEF EndHarness, Goto, RunTablesInv, RunTablesTypeOK
    <2> QED
      BY <2>1 DEF RunTablesInv, ManifestGoesLast
  <1>6. ASSUME NEW h \in Harnesses, TimeOutStage(h)
        PROVE  ManifestGoesLast'
    <2>1. /\ stage[h] \in {"publishing", "draining", "latency"} /\ UNCHANGED <<manifests, table>>
          /\ broken'[h] /\ \A i \in Harnesses \ {h} : broken'[i] = broken[i]
      BY <1>6 DEF TimeOutStage, RunTablesInv, RunTablesTypeOK
    <2>2. /\ stage'[h] = "deleting"
          /\ \A i \in Harnesses \ {h} : stage'[i] \in {stage[i], "killed"}
      <3>1. ~Child(h, h)
        BY <1>6, HarnessAssumption DEF TimeOutStage, Child
      <3> DEFINE then(i) == CASE i = h -> "deleting"
                              [] Child(h, i) /\ stage[h] = "latency" /\ stage[i] \notin Ended -> "killed"
                              [] OTHER -> stage[i]
      <3>2. stage' = [i \in Harnesses |-> then(i)]
        BY <1>6 DEF TimeOutStage
      <3>3. then(h) = "deleting"
        BY <3>1
      <3>4. \A i \in Harnesses \ {h} : then(i) \in {stage[i], "killed"}
        OBVIOUS
      <3> HIDE DEF then
      <3> QED
        BY <3>2, <3>3, <3>4
    <2> QED
      BY <2>1, <2>2 DEF RunTablesInv, ManifestGoesLast
  <1>7. ASSUME NEW h \in Harnesses, Drain(h) \/ LateClaim(h)
        PROVE  ManifestGoesLast'
    BY <1>1, <1>7 DEF Drain, LateClaim
  <1>8. ASSUME NEW g \in Generators,
               \/ ComputeCards(g) \/ CommitCards(g) \/ ReadCards(g) \/ WriteFile(g)
               \/ DieProjecting(g)
        PROVE  ManifestGoesLast'
    BY <1>1, <1>8 DEF ComputeCards, CommitCards, ReadCards, WriteFile, DieProjecting
  <1>9. ASSUME \/ \E e \in Events : ForeignPublish(e) \/ DraftAbout(e)
               \/ StandingConsume \/ TruncateAll
        PROVE  ManifestGoesLast'
    BY <1>1, <1>9 DEF ForeignPublish, DraftAbout, StandingConsume, TruncateAll
  <1>10. CASE UNCHANGED runVars
    BY <1>1, <1>10 DEF runVars
  <1> QED
    BY <1>2, <1>3, <1>4, <1>5, <1>6, <1>7, <1>8, <1>9, <1>10 DEF RunTablesNext, HarnessStep

LEMMA RunTablesInvInit == RunTablesInit => RunTablesInv
  BY RunTablesTypeInit DEF RunTablesInit, RunTablesInv, RowsHaveManifests, ManifestGoesLast

LEMMA RunTablesInvStep == RunTablesInv /\ [RunTablesNext]_runVars => RunTablesInv'
  BY RunTablesTypeStep, RowsStep, GoesLastStep DEF RunTablesInv

(* Rows, topic, counts and places are well typed, and no consumer counts   *)
(* more than its harness has sent, whatever the harnesses publish.         *)
THEOREM RunTablesTypeCorrect == RunTablesSpec => []RunTablesTypeOK
  <1> QED
    BY RunTablesTypeInit, RunTablesTypeStep, PTL DEF RunTablesSpec

(* No row ever stands without the manifest of its run.                     *)
THEOREM RowsKeepTheirManifest == RunTablesSpec => []RowsHaveManifests
  <1>1. RunTablesInv => RowsHaveManifests
    BY DEF RunTablesInv
  <1> QED
    BY <1>1, RunTablesInvInit, RunTablesInvStep, PTL DEF RunTablesSpec

(* Whoever claims, projects, drafts or truncates while it deletes table by *)
(* table: a harness that passed has left nothing behind, for good.         *)
THEOREM PassedLeavesNothing == RunTablesSpec => []PassedIsGone
  <1>1. RunTablesInv => PassedIsGone
    <2> SUFFICES ASSUME RunTablesInv, NEW h \in Harnesses, stage[h] = "passed",
                        NEW n \in DOMAIN TableOrder
                 PROVE  Empty(h, TableOrder[n])
      BY DEF PassedIsGone
    <2>1. h \notin manifests /\ h # None
      BY HarnessAssumption DEF RunTablesInv, ManifestGoesLast, Runs
    <2>2. /\ \A d \in disposed : d[1] # h
          /\ \A c \in cards : c[1] # h
          /\ RowsOf(h) = {}
      BY <2>1 DEF RunTablesInv, RowsHaveManifests, RowsOf
    <2>3. TableOrder[n] \in {"dispositions", "noc_cards", "events", "run_manifests"}
      BY DEF TableOrder
    <2> QED
      BY <2>1, <2>2, <2>3 DEF Empty
  <1> QED
    BY <1>1, RunTablesInvInit, RunTablesInvStep, PTL DEF RunTablesSpec
=============================================================================
