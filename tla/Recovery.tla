------------------------------ MODULE Recovery ------------------------------
(***************************************************************************)
(* The recovery check: dump the phase2 schema, restore it into one         *)
(* temporary database with a fixed name, and compare every table with the  *)
(* live one before and after, while writers go on.  Checks exclude each    *)
(* other by a file lock, but the lock does not bind the database server: a *)
(* command whose client timed out may still take effect.                   *)
(***************************************************************************)
EXTENDS Naturals

CONSTANTS
  Checkers,  \* recovery checks, each run at most once
  Tables,    \* tables of phase2
  MaxWrites, \* bound on the changes of each live table
  Nobody

ASSUME NobodyAssumption == Nobody \notin Checkers
ASSUME MaxWritesAssumption == MaxWrites \in Nat

VARIABLES
  live,      \* the state of each live table, as a number of changes
  holder,    \* who holds the file lock
  temporary, \* the temporary database: its creator, whose dump is in it, state
  dumpFile,  \* the dump file: whose dump it is and its state
  late,      \* commands the server still runs for a client that gave up
  checking,  \* where each check is
  before,    \* what it has read of the live tables, before the dump
  after,     \* and at the end
  restored   \* what it has read of the restored tables

recoveryVars == <<live, holder, temporary, dumpFile, late, checking, before, after, restored>>

Digests == [Tables -> 0 .. MaxWrites]
Unread == 0 .. MaxWrites + 1   \* the digest MaxWrites + 1 stands for none yet
NotRead == [t \in Tables |-> MaxWrites + 1]
NoDump == [of |-> Nobody, state |-> NotRead]
NoDatabase == [by |-> Nobody, of |-> Nobody, state |-> NotRead]
Verdicts == {"passed", "failed", "killed"}
Places == {"idle", "locked", "before", "dumping", "creating", "restoring", "reading",
           "after", "comparing", "cleaning", "condemned"} \union Verdicts

RecoveryTypeOK ==
  /\ live \in Digests
  /\ holder \in Checkers \union {Nobody}
  /\ temporary \in [by: Checkers \union {Nobody}, of: Checkers \union {Nobody},
                    state: [Tables -> Unread]]
  /\ dumpFile \in [of: Checkers \union {Nobody}, state: [Tables -> Unread]]
  /\ late \subseteq (Checkers \X {"create", "restore"})
  /\ checking \in [Checkers -> Places]
  /\ before \in [Checkers -> [Tables -> Unread]]
  /\ after \in [Checkers -> [Tables -> Unread]]
  /\ restored \in [Checkers -> [Tables -> Unread]]

RecoveryInit ==
  /\ live = [t \in Tables |-> 0]
  /\ holder = Nobody
  /\ temporary = NoDatabase
  /\ dumpFile = NoDump
  /\ late = {}
  /\ checking = [p \in Checkers |-> "idle"]
  /\ before = [p \in Checkers |-> NotRead]
  /\ after = [p \in Checkers |-> NotRead]
  /\ restored = [p \in Checkers |-> NotRead]

Move(p, from, to) ==
  /\ checking[p] = from
  /\ checking' = [checking EXCEPT ![p] = to]

(* A session that still restores keeps its database from being dropped.    *)
InUse == \E p \in Checkers : <<p, "restore">> \in late
-----------------------------------------------------------------------------
Write(t) ==
  /\ live[t] < MaxWrites
  /\ live' = [live EXCEPT ![t] = @ + 1]
  /\ UNCHANGED <<holder, temporary, dumpFile, late, checking, before, after, restored>>

(* Slip: the lock is taken by whoever wants it.                            *)
LockShared(p) ==
  /\ Move(p, "idle", "locked")
  /\ holder' = p
  /\ UNCHANGED <<live, temporary, dumpFile, late, before, after, restored>>

(* _recovery_lock: polls for the lock and gives up after thirty seconds.   *)
Lock(p) ==
  /\ \/ holder = Nobody /\ Move(p, "idle", "locked") /\ holder' = p
     \/ holder # Nobody /\ Move(p, "idle", "failed") /\ UNCHANGED holder
  /\ UNCHANGED <<live, temporary, dumpFile, late, before, after, restored>>

(* DROP DATABASE IF EXISTS, left behind by a check that was killed.        *)
DropLeftover(p) ==
  /\ IF InUse THEN Move(p, "locked", "condemned") /\ UNCHANGED temporary
     ELSE Move(p, "locked", "before") /\ temporary' = NoDatabase
  /\ UNCHANGED <<live, holder, dumpFile, late, before, after, restored>>

(* The digests of the live tables, one query each; no rows at all are an   *)
(* error (a table without a change is empty here).                         *)
ReadBefore(p, t) ==
  /\ checking[p] = "before" /\ before[p][t] = MaxWrites + 1
  /\ before' = [before EXCEPT ![p][t] = live[t]]
  /\ UNCHANGED <<live, holder, temporary, dumpFile, late, checking, after, restored>>

CountBefore(p) ==
  /\ before[p] \in Digests
  /\ Move(p, "before", IF \E t \in Tables : before[p][t] > 0 THEN "dumping" ELSE "condemned")
  /\ UNCHANGED <<live, holder, temporary, dumpFile, late, before, after, restored>>

(* pg_dump, of one snapshot, and the atomic replacement of the dump file.  *)
Dump(p) ==
  /\ Move(p, "dumping", "creating")
  /\ dumpFile' = [of |-> p, state |-> live]
  /\ UNCHANGED <<live, holder, temporary, late, before, after, restored>>

(* CREATE DATABASE: an error if there is one.                              *)
Create(p) ==
  /\ IF temporary = NoDatabase
     THEN /\ Move(p, "creating", "restoring")
          /\ temporary' = [by |-> p, of |-> Nobody, state |-> NotRead]
     ELSE Move(p, "creating", "condemned") /\ UNCHANGED temporary
  /\ UNCHANGED <<live, holder, dumpFile, late, before, after, restored>>

(* The dump file is read again and restored.                               *)
Restore(p) ==
  /\ IF temporary # NoDatabase /\ temporary.of = Nobody
     THEN /\ Move(p, "restoring", "reading")
          /\ temporary' = [temporary EXCEPT !.of = dumpFile.of, !.state = dumpFile.state]
     ELSE Move(p, "restoring", "condemned") /\ UNCHANGED temporary
  /\ UNCHANGED <<live, holder, dumpFile, late, before, after, restored>>

ReadRestored(p) ==
  /\ Move(p, "reading", "after")
  /\ restored' = [restored EXCEPT ![p] = temporary.state]
  /\ UNCHANGED <<live, holder, temporary, dumpFile, late, before, after>>

ReadAfter(p, t) ==
  /\ checking[p] = "after" /\ after[p][t] = MaxWrites + 1
  /\ after' = [after EXCEPT ![p][t] = live[t]]
  /\ UNCHANGED <<live, holder, temporary, dumpFile, late, checking, before, restored>>

Compare(p) ==
  /\ after[p] \in Digests
  /\ Move(p, "after",
          IF before[p] = restored[p] /\ before[p] = after[p] THEN "cleaning" ELSE "condemned")
  /\ UNCHANGED <<live, holder, temporary, dumpFile, late, before, after, restored>>

(* finally: DROP DATABASE IF EXISTS and a look whether it is gone, then    *)
(* the lock is released.                                                   *)
CleanUp(p) ==
  /\ \/ Move(p, "cleaning", IF InUse THEN "failed" ELSE "passed")
     \/ Move(p, "condemned", "failed")
  /\ temporary' = IF InUse THEN temporary ELSE NoDatabase
  /\ holder' = Nobody
  /\ UNCHANGED <<live, dumpFile, late, before, after, restored>>

(* psql gives up after its time limit; the server does not know.           *)
TimeOut(p) ==
  /\ \/ Move(p, "creating", "condemned") /\ late' = late \union {<<p, "create">>}
     \/ Move(p, "restoring", "condemned") /\ late' = late \union {<<p, "restore">>}
  /\ UNCHANGED <<live, holder, temporary, dumpFile, before, after, restored>>

(* What a late command does, if it still can.                              *)
LateCommand(p, what) ==
  /\ <<p, what>> \in late
  /\ late' = late \ {<<p, what>>}
  /\ temporary' =
       CASE what = "create" /\ temporary = NoDatabase ->
              [by |-> p, of |-> Nobody, state |-> NotRead]
         [] what = "restore" /\ temporary # NoDatabase ->
              [temporary EXCEPT !.of = dumpFile.of, !.state = dumpFile.state]
         [] OTHER -> temporary
  /\ UNCHANGED <<live, holder, dumpFile, checking, before, after, restored>>

(* The process is killed: the kernel releases its lock.                    *)
KillChecker(p) ==
  /\ holder = p
  /\ checking' = [checking EXCEPT ![p] = "killed"]
  /\ holder' = Nobody
  /\ late' \in {late} \union
       {late \union {<<p, c[2]>>} :
          c \in {c \in {<<"creating", "create">>, <<"restoring", "restore">>} : c[1] = checking[p]}}
  /\ UNCHANGED <<live, temporary, dumpFile, before, after, restored>>

RecoveryNext ==
  \/ \E t \in Tables : Write(t)
  \/ \E p \in Checkers :
       \/ Lock(p) \/ DropLeftover(p) \/ CountBefore(p) \/ Dump(p) \/ Create(p)
       \/ Restore(p) \/ ReadRestored(p) \/ Compare(p) \/ CleanUp(p)
       \/ TimeOut(p) \/ KillChecker(p)
       \/ \E t \in Tables : ReadBefore(p, t) \/ ReadAfter(p, t)
       \/ \E what \in {"create", "restore"} : LateCommand(p, what)

RecoverySpec == RecoveryInit /\ [][RecoveryNext]_recoveryVars
-----------------------------------------------------------------------------
(* A check that passed compared its own dump, restored into a database it  *)
(* created itself: no other check, and no late command of one that timed   *)
(* out or was killed, gave it another's tables, and the tables it vouches  *)
(* for are those the live schema had when it dumped them.                  *)
RecoveryComparesItsOwn ==
  \A p \in Checkers :
    /\ checking[p] \in {"reading", "after", "cleaning"} =>
         temporary.by = p /\ temporary.of = p
    /\ checking[p] = "passed" => before[p] = restored[p] /\ restored[p] = after[p]
=============================================================================
