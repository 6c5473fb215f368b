------------------------- MODULE IdentityRowsProofs -------------------------
(***************************************************************************)
(* Proofs about the identity rows, for every number of concurrent claims   *)
(* and whatever assets, CIs and hosts they share.                          *)
(***************************************************************************)
EXTENDS IdentityRows, TLAPS

(* An uncommitted row belongs to a transaction that is past its insert.    *)
HoldersAreLater ==
  \A t \in Transactions :
    /\ "assets" \in holds[t] => pc[t] \in {"second", "alias", "commit"}
    /\ "cis" \in holds[t] => pc[t] \in {"alias", "commit"}

(* A transaction past an insert has its row: stored, or its own.           *)
InsertsAreKept ==
  \A t \in Transactions :
    /\ pc[t] \in {"second", "alias", "commit", "done"} =>
         AssetOf[t] \in assets \/ "assets" \in holds[t]
    /\ pc[t] \in {"alias", "commit", "done"} =>
         cis[CiOf[t]] # NoAsset \/ "cis" \in holds[t]
    /\ pc[t] \in {"commit", "done"} =>
         \/ \E a \in aliases : a.asset = AssetOf[t] /\ a.host = HostOf[t]
         \/ writesAlias[t]
    /\ pc[t] \in {"done", "aborted"} => ~writesAlias[t]

(* An uncommitted CI is nowhere else, neither stored nor uncommitted.      *)
CiHoldersAreAlone ==
  \A t \in Transactions :
    "cis" \in holds[t] =>
      /\ cis[CiOf[t]] = NoAsset
      /\ \A u \in Transactions \ {t} : CiOf[u] = CiOf[t] => "cis" \notin holds[u]

IInv == /\ TypeOK /\ HoldersAreLater /\ InsertsAreKept
        /\ CiHoldersAreAlone /\ CiNamesStoredAsset

(* Nothing holds at the start.                                             *)
LEMMA InitInvariant == Init => IInv
  BY IdentityAssumption
     DEF Init, IInv, TypeOK, HoldersAreLater, InsertsAreKept,
         CiHoldersAreAlone, CiNamesStoredAsset, Places, Inserting, Tables

(* A transaction inserts a row it does not find, having waited for others. *)
LEMMA InsertKeeps ==
  ASSUME IInv, NEW t \in Transactions, Insert(t)
  PROVE  IInv'
<1> USE IdentityAssumption
<1>1. TypeOK'
  BY DEF IInv, TypeOK, Insert, Goto, NextPlace, TableAt, Places, Inserting, Tables
<1>2. HoldersAreLater'
  BY DEF IInv, TypeOK, HoldersAreLater, Insert, Goto, NextPlace, TableAt,
         Places, Inserting, Tables
<1>3. InsertsAreKept'
  BY DEF IInv, TypeOK, InsertsAreKept, Insert, Goto, NextPlace, TableAt,
         IsStored, Places, Inserting, Tables
<1>4. CiNamesStoredAsset'
  BY DEF IInv, CiNamesStoredAsset, Insert
<1>5. CiHoldersAreAlone'
  BY DEF IInv, TypeOK, CiHoldersAreAlone, Insert, WaitsFor, SameKey, TableAt,
         IsStored, Inserting
<1> QED BY <1>1, <1>2, <1>3, <1>4, <1>5 DEF IInv

(* The alias is looked up among the committed ones.                        *)
LEMMA InsertAliasKeeps ==
  ASSUME IInv, NEW t \in Transactions, InsertAlias(t)
  PROVE  IInv'
<1> USE IdentityAssumption
<1>1. TypeOK'
  BY DEF IInv, TypeOK, InsertAlias, Goto, NextPlace, Places, Inserting
<1>2. HoldersAreLater'
  BY DEF IInv, TypeOK, HoldersAreLater, InsertAlias, Goto, NextPlace
<1>3. InsertsAreKept'
  <2> SUFFICES ASSUME NEW u \in Transactions
               PROVE  InsertsAreKept!(u)'
    BY DEF InsertsAreKept
  <2>1. CASE u = t
    BY <2>1 DEF IInv, TypeOK, InsertsAreKept, InsertAlias, Goto, NextPlace
  <2>2. CASE u # t
    BY <2>2 DEF IInv, TypeOK, InsertsAreKept, InsertAlias, Goto, NextPlace
  <2> QED BY <2>1, <2>2
<1>4. CiNamesStoredAsset'
  BY DEF IInv, CiNamesStoredAsset, InsertAlias
<1>5. CiHoldersAreAlone'
  BY DEF IInv, CiHoldersAreAlone, InsertAlias
<1> QED BY <1>1, <1>2, <1>3, <1>4, <1>5 DEF IInv

(* A commit only adds rows; a CI it adds names an asset that is stored or  *)
(* committed with it.                                                      *)
LEMMA CommitKeeps ==
  ASSUME IInv, NEW t \in Transactions, Commit(t)
  PROVE  IInv'
<1> USE IdentityAssumption
<1>a. /\ AssetOf[t] \in Assets /\ CiOf[t] \in Cis /\ HostOf[t] \in Hosts
      /\ assets \subseteq assets' /\ aliases \subseteq aliases'
  BY DEF Commit
<1>1. TypeOK'
  BY <1>a DEF IInv, TypeOK, Commit, Goto, Places
<1>2. HoldersAreLater'
  BY DEF IInv, TypeOK, HoldersAreLater, Commit, Goto
<1>b. \A c \in Cis : cis[c] # NoAsset => cis'[c] # NoAsset
  BY <1>a DEF IInv, TypeOK, Commit
<1>3. InsertsAreKept'
  <2> SUFFICES ASSUME NEW u \in Transactions
               PROVE  InsertsAreKept!(u)'
    BY DEF InsertsAreKept
  <2>1. CASE u = t
    <3>1. AssetOf[t] \in assets'
      BY DEF IInv, InsertsAreKept, Commit
    <3>2. cis'[CiOf[t]] # NoAsset
      BY <1>a, <1>b DEF IInv, TypeOK, InsertsAreKept, Commit
    <3>3. \E a \in aliases' : a.asset = AssetOf[t] /\ a.host = HostOf[t]
      <4>1. CASE writesAlias[t]
        <5>1. [by |-> t, asset |-> AssetOf[t], host |-> HostOf[t]] \in aliases'
          BY <4>1 DEF Commit
        <5> QED BY <5>1
      <4>2. CASE ~writesAlias[t]
        BY <4>2, <1>a DEF IInv, InsertsAreKept, Commit
      <4> QED BY <4>1, <4>2
    <3>4. ~writesAlias'[t]
      BY DEF IInv, TypeOK, Commit
    <3> QED BY <2>1, <3>1, <3>2, <3>3, <3>4
  <2>2. CASE u # t
    <3>1. /\ pc'[u] = pc[u] /\ holds'[u] = holds[u]
          /\ writesAlias'[u] = writesAlias[u]
      BY <2>2 DEF IInv, TypeOK, Commit, Goto
    <3>2. CiOf[u] \in Cis
      OBVIOUS
    <3> QED BY <1>a, <1>b, <3>1, <3>2 DEF IInv, InsertsAreKept
  <2> QED BY <2>1, <2>2
<1>4. CiNamesStoredAsset'
  BY <1>a DEF IInv, TypeOK, CiNamesStoredAsset, InsertsAreKept, Commit
<1>5. CiHoldersAreAlone'
  BY <1>a DEF IInv, TypeOK, CiHoldersAreAlone, Commit
<1> QED BY <1>1, <1>2, <1>3, <1>4, <1>5 DEF IInv

(* A lost session takes only its own uncommitted rows with it.             *)
LEMMA AbortKeeps ==
  ASSUME IInv, NEW t \in Transactions, Abort(t)
  PROVE  IInv'
  BY DEF IInv, TypeOK, HoldersAreLater, InsertsAreKept, CiHoldersAreAlone,
         CiNamesStoredAsset, Abort, Goto, Places

(* The inductive invariant holds of every behaviour.                       *)
THEOREM Invariant == Spec => []IInv
<1>1. IInv /\ [Next]_vars => IInv'
  <2> SUFFICES ASSUME IInv, [Next]_vars PROVE IInv'
    OBVIOUS
  <2>1. CASE UNCHANGED vars
    BY <2>1 DEF vars, IInv, TypeOK, HoldersAreLater, InsertsAreKept,
              CiHoldersAreAlone, CiNamesStoredAsset
  <2>2. ASSUME NEW t \in Transactions, Insert(t) PROVE IInv'
    BY <2>2, InsertKeeps
  <2>3. ASSUME NEW t \in Transactions, InsertAlias(t) PROVE IInv'
    BY <2>3, InsertAliasKeeps
  <2>4. ASSUME NEW t \in Transactions, Commit(t) PROVE IInv'
    BY <2>4, CommitKeeps
  <2>5. ASSUME NEW t \in Transactions, Abort(t) PROVE IInv'
    BY <2>5, AbortKeeps
  <2> QED BY <2>1, <2>2, <2>3, <2>4, <2>5 DEF Next, Step
<1> QED BY InitInvariant, <1>1, PTL DEF Spec

(* Every variable keeps its type.                                          *)
THEOREM TypeCorrect == Spec => []TypeOK
<1>1. IInv => TypeOK
  BY DEF IInv
<1> QED BY Invariant, <1>1, PTL

(* A committed claim has its asset, its CI and its alias, whichever of the *)
(* concurrent transactions wrote them (render_identity_dml).               *)
THEOREM CommittedRows == Spec => []RowsAreThere
<1>1. IInv => RowsAreThere
  BY DEF IInv, HoldersAreLater, InsertsAreKept, RowsAreThere
<1> QED BY Invariant, <1>1, PTL

(* A stored CI names a stored asset: the foreign key is never violated.    *)
THEOREM ReferentialIntegrity == Spec => []CiNamesStoredAsset
<1>1. IInv => CiNamesStoredAsset
  BY DEF IInv
<1> QED BY Invariant, <1>1, PTL

(* No two claims, and no three, wait for each other in a circle.           *)
THEOREM NoDeadlock == Spec => []WaitChainsEnd
<1>1. IInv => WaitChainsEnd
  <2> SUFFICES ASSUME IInv, NEW t \in Transactions, NEW u \in Transactions,
                      NEW v \in Transactions, NEW w \in Transactions,
                      WaitsFor(t, u), WaitsFor(u, v), WaitsFor(v, w)
               PROVE  FALSE
    BY DEF WaitChainsEnd
  <2>1. pc[u] = "second"
    BY DEF IInv, HoldersAreLater, WaitsFor, TableAt, Inserting
  <2>2. "cis" \in holds[v]
    BY <2>1 DEF WaitsFor, TableAt
  <2>3. pc[v] \in {"alias", "commit"}
    BY <2>2 DEF IInv, HoldersAreLater
  <2> QED BY <2>3 DEF WaitsFor, Inserting
<1> QED BY Invariant, <1>1, PTL

(* A bound CI is never moved to another asset: an insert that finds it     *)
(* stored does nothing, and one that does not has waited for its rivals.   *)
THEOREM BindingIsFinal == Spec => CiStaysBound
<1> DEFINE Stays == \A c \in Cis : cis[c] # NoAsset => cis'[c] = cis[c]
<1>1. IInv /\ [Next]_vars => [Stays]_vars
  <2> SUFFICES ASSUME IInv, Next PROVE Stays
    BY DEF vars
  <2>1. ASSUME NEW t \in Transactions, Commit(t) PROVE Stays
    BY <2>1, IdentityAssumption DEF IInv, TypeOK, CiHoldersAreAlone, Commit
  <2>2. ASSUME NEW t \in Transactions, Insert(t) \/ InsertAlias(t) \/ Abort(t)
        PROVE  Stays
    BY <2>2 DEF Insert, InsertAlias, Abort
  <2> QED BY <2>1, <2>2 DEF Next, Step
<1> QED BY Invariant, <1>1, PTL DEF Spec, CiStaysBound
=============================================================================
