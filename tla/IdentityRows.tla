---------------------------- MODULE IdentityRows ----------------------------
(***************************************************************************)
(* The identity rows that the claim transactions of different events write *)
(* at the same time (identity_sql.py render_identity_dml): an asset and a  *)
(* CI, ON CONFLICT DO NOTHING, and a hostname alias WHERE NOT EXISTS.  The *)
(* advisory lock of ClaimStore does not serialise them: it is per event,   *)
(* and two events may name the same asset, CI or host.                     *)
(*                                                                         *)
(* PostgreSQL: an insert waits for a transaction that has inserted the     *)
(* same primary key and not ended; NOT EXISTS sees committed rows only.    *)
(***************************************************************************)
EXTENDS FiniteSets

CONSTANTS
  Transactions,  \* claims decided "new", each of an event of its own
  AssetOf, CiOf, HostOf,  \* the prepared identity of each event
  Assets, Cis, Hosts,
  NoAsset        \* the CI is not stored

ASSUME IdentityAssumption ==
  /\ AssetOf \in [Transactions -> Assets]
  /\ CiOf \in [Transactions -> Cis]
  /\ HostOf \in [Transactions -> Hosts]
  /\ NoAsset \notin Assets

VARIABLES
  assets,   \* phase2.assets, committed
  cis,      \* phase2.cis: the asset_id of each committed CI
  aliases,  \* phase2.aliases, each row with the transaction that wrote it
  pc,       \* the statement each transaction is at
  holds,    \* the tables it has an uncommitted row in
  writesAlias  \* whether it has an uncommitted alias row

vars == <<assets, cis, aliases, pc, holds, writesAlias>>

Tables == {"assets", "cis"}
Inserting == {"first", "second"}
Places == Inserting \union {"alias", "commit", "done", "aborted"}

TypeOK ==
  /\ assets \subseteq Assets
  /\ cis \in [Cis -> Assets \union {NoAsset}]
  /\ aliases \subseteq [by: Transactions, asset: Assets, host: Hosts]
  /\ pc \in [Transactions -> Places]
  /\ holds \in [Transactions -> SUBSET Tables]
  /\ writesAlias \in [Transactions -> BOOLEAN]

Init ==
  /\ assets = {}
  /\ cis = [c \in Cis |-> NoAsset]
  /\ aliases = {}
  /\ pc = [t \in Transactions |-> "first"]
  /\ holds = [t \in Transactions |-> {}]
  /\ writesAlias = [t \in Transactions |-> FALSE]

(* Slip: rows are written in the order of their keys, so that some assets  *)
(* come before their CI and others after it.                               *)
TableByKey(t, place) ==
  IF (place = "first") = (AssetOf[t] = CHOOSE x \in Assets : TRUE)
  THEN "assets" ELSE "cis"

(* The order of the statements: the asset, then the CI that refers to it.  *)
TableAt(t, place) == IF place = "first" THEN "assets" ELSE "cis"

SameKey(t, u, table) ==
  IF table = "assets" THEN AssetOf[t] = AssetOf[u] ELSE CiOf[t] = CiOf[u]

IsStored(t, table) ==
  IF table = "assets" THEN AssetOf[t] \in assets ELSE cis[CiOf[t]] # NoAsset

(* t's insert has to wait for u to end.                                    *)
WaitsFor(t, u) ==
  /\ pc[t] \in Inserting
  /\ u # t
  /\ TableAt(t, pc[t]) \in holds[u]
  /\ SameKey(t, u, TableAt(t, pc[t]))

NextPlace == [place \in {"first", "second", "alias"} |->
  CASE place = "first" -> "second"
    [] place = "second" -> "alias"
    [] place = "alias" -> "commit"]

Goto(t, place) == pc' = [pc EXCEPT ![t] = place]
-----------------------------------------------------------------------------
(* Slip: a row that another transaction has inserted counts as stored.     *)
InsertWithoutWaiting(t) ==
  LET table == TableAt(t, pc[t])
  IN  /\ pc[t] \in Inserting
      /\ holds' = IF IsStored(t, table) \/ \E u \in Transactions : WaitsFor(t, u)
                  THEN holds ELSE [holds EXCEPT ![t] = @ \union {table}]
      /\ Goto(t, NextPlace[pc[t]])
      /\ UNCHANGED <<assets, cis, aliases, writesAlias>>

(* INSERT ... ON CONFLICT DO NOTHING into assets or cis.                   *)
Insert(t) ==
  LET table == TableAt(t, pc[t])
  IN  /\ pc[t] \in Inserting
      /\ \A u \in Transactions : ~WaitsFor(t, u)
      /\ holds' = IF IsStored(t, table)
                  THEN holds ELSE [holds EXCEPT ![t] = @ \union {table}]
      /\ Goto(t, NextPlace[pc[t]])
      /\ UNCHANGED <<assets, cis, aliases, writesAlias>>

(* INSERT ... SELECT ... WHERE NOT EXISTS: no index makes it wait.         *)
InsertAlias(t) ==
  /\ pc[t] = "alias"
  /\ writesAlias' = [writesAlias EXCEPT ![t] =
       \A a \in aliases : ~(a.asset = AssetOf[t] /\ a.host = HostOf[t])]
  /\ Goto(t, NextPlace[pc[t]])
  /\ UNCHANGED <<assets, cis, aliases, holds>>

(* Slip: the values of the alias row are in the order of other columns.    *)
CommitSwapping(t) ==
  /\ pc[t] = "commit"
  /\ assets' = IF "assets" \in holds[t] THEN assets \union {AssetOf[t]} ELSE assets
  /\ cis' = IF "cis" \in holds[t] THEN [cis EXCEPT ![CiOf[t]] = AssetOf[t]] ELSE cis
  /\ aliases' = IF writesAlias[t]
                THEN aliases \union {[by |-> t, asset |-> HostOf[t], host |-> AssetOf[t]]}
                ELSE aliases
  /\ holds' = [holds EXCEPT ![t] = {}]
  /\ writesAlias' = [writesAlias EXCEPT ![t] = FALSE]
  /\ Goto(t, "done")

(* COMMIT makes the rows visible to everybody and ends the waiting.        *)
Commit(t) ==
  /\ pc[t] = "commit"
  /\ assets' = IF "assets" \in holds[t] THEN assets \union {AssetOf[t]} ELSE assets
  /\ cis' = IF "cis" \in holds[t] THEN [cis EXCEPT ![CiOf[t]] = AssetOf[t]] ELSE cis
  /\ aliases' = IF writesAlias[t]
                THEN aliases \union {[by |-> t, asset |-> AssetOf[t], host |-> HostOf[t]]}
                ELSE aliases
  /\ holds' = [holds EXCEPT ![t] = {}]
  /\ writesAlias' = [writesAlias EXCEPT ![t] = FALSE]
  /\ Goto(t, "done")

(* Slip: the rows of a lost session stay in doubt.                         *)
AbortInDoubt(t) ==
  /\ pc[t] \notin {"done", "aborted"}
  /\ writesAlias' = [writesAlias EXCEPT ![t] = FALSE]
  /\ Goto(t, "aborted")
  /\ UNCHANGED <<assets, cis, aliases, holds>>

(* The session is lost: everything it wrote is rolled back.                *)
Abort(t) ==
  /\ pc[t] \notin {"done", "aborted"}
  /\ holds' = [holds EXCEPT ![t] = {}]
  /\ writesAlias' = [writesAlias EXCEPT ![t] = FALSE]
  /\ Goto(t, "aborted")
  /\ UNCHANGED <<assets, cis, aliases>>

Step(t) == Insert(t) \/ InsertAlias(t) \/ Commit(t)

Next == \E t \in Transactions : Step(t) \/ Abort(t)

Spec == Init /\ [][Next]_vars

(* PostgreSQL runs the statements of a session that is not lost.           *)
FairSpec == Spec /\ \A t \in Transactions : WF_vars(Step(t))
-----------------------------------------------------------------------------
(* Properties.                                                             *)

(* A committed claim has its identity rows, whoever wrote them: an insert  *)
(* that did nothing relied on a row that is there to stay, never on one    *)
(* that was rolled back.                                                   *)
RowsAreThere ==
  \A t \in Transactions :
    pc[t] = "done" =>
      /\ AssetOf[t] \in assets
      /\ cis[CiOf[t]] # NoAsset
      /\ \E a \in aliases : a.asset = AssetOf[t] /\ a.host = HostOf[t]

(* cis.asset_id REFERENCES assets: a CI never names an asset that is not   *)
(* stored, though the two rows may come from different transactions.       *)
CiNamesStoredAsset == \A c \in Cis : cis[c] \in assets \union {NoAsset}

(* Two claims never deadlock in their identity rows: waiting chains end    *)
(* after two links, as both tables are written in the same order.          *)
WaitChainsEnd ==
  \A t, u, v, w \in Transactions :
    ~(WaitsFor(t, u) /\ WaitsFor(u, v) /\ WaitsFor(v, w))

(* A CI that is bound to an asset stays with it: no later event moves it.  *)
CiStaysBound ==
  [][\A c \in Cis : cis[c] # NoAsset => cis'[c] = cis[c]]_vars

(* Every claim that is not lost gets through its identity rows.            *)
EveryClaimCommits ==
  \A t \in Transactions : pc[t] = "first" ~> pc[t] \in {"done", "aborted"}

(* "any strong-identifier conflict -> the event is quarantined" (ADR-0020):*)
(* an event that was accepted agrees with the stored CI on its asset.      *)
AcceptedAgreesWithCi ==
  \A t \in Transactions : pc[t] = "done" => cis[CiOf[t]] = AssetOf[t]
=============================================================================
