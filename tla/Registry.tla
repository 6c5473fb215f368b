------------------------------ MODULE Registry ------------------------------
(***************************************************************************)
(* The asset repository and the CMDB: two services that create records     *)
(* (assets, CIs) with aliases, and relationships between CIs, in the       *)
(* tables the event pipeline writes its identity rows to.  A create is     *)
(* four database commands that commit one by one, on behalf of callers     *)
(* that come through the API gateway and try again when they got no        *)
(* answer, or a failure.  Confidences are kept as whole percents.          *)
(***************************************************************************)
EXTENDS Naturals, Sequences, SequencesExt

CONSTANTS
  Assets, Cis,   \* identifiers of records
  Callers,       \* create requests, each tried any number of times
  Request,       \* their id, body, aliases and whether they carry the token
  Bodies,        \* everything of a record but its aliases
  AssetOf,       \* the asset a CI body names, or None
  Aliases,       \* aliases: type, value, validity, source and confidence
  Rounded,       \* an alias as it is read back: a confidence of two decimals
  Claims,        \* transactions of the pipeline that write identity rows
  ClaimAsset, ClaimCi,   \* the records each of them is about
  PipelineBody,  \* the body the pipeline gives a record
  Hostname,      \* the alias it gives an asset
  None

Ids == Assets \union Cis

ASSUME RequestAssumption ==
  Request \in [Callers -> [id: Ids, body: Bodies, aliases: Seq(Aliases), token: BOOLEAN]]
ASSUME BodyAssumption ==
  /\ AssetOf \in [Bodies -> Assets \union {None}]
  /\ None \notin Bodies \union Assets \union Callers
ASSUME RoundedAssumption ==
  /\ Rounded \in [Aliases -> Aliases]
  /\ \A a \in Aliases : Rounded[Rounded[a]] = Rounded[a]
ASSUME ClaimAssumption ==
  /\ ClaimAsset \in [Claims -> Assets] /\ ClaimCi \in [Claims -> Cis]
  /\ PipelineBody \in [Ids -> Bodies] /\ Hostname \in Aliases

VARIABLES
  rows,       \* phase2.assets, phase2.cis: the body of each record, or None
  aliases,    \* phase2.aliases of each record, in the order of insertion
  links,      \* phase2.ci_relationships, the current ones: <<from, to>>
  creator,    \* the caller whose INSERT made the row, None if the pipeline's
  connected,  \* whether the service of assets, of CIs, has a pool
  at,         \* where the handler of each caller's request is
  seen,       \* the row it has read
  claim,      \* where each pipeline transaction is
  inserting,  \* the rows a pipeline transaction has inserted, uncommitted
  hostless    \* whether it found its hostname missing

rowVars == <<rows, aliases, links, creator>>
registryVars == <<rows, aliases, links, creator, connected, at, seen, claim,
                  inserting, hostless>>

Handling == {"retrieved", "inserting", "aliasing"}
Refused == {"forbidden", "unavailable", "conflict", "error", "lost"}
Succeeded == {"created", "repeated"}

RegistryTypeOK ==
  /\ rows \in [Ids -> Bodies \union {None}]
  /\ aliases \in [Ids -> Seq(Aliases)]
  /\ links \subseteq Cis \X Cis
  /\ creator \in [Ids -> Callers \union {None}]
  /\ connected \in [{"assets", "cis"} -> BOOLEAN]
  /\ at \in [Callers -> {"idle"} \union Handling \union Refused \union Succeeded]
  /\ seen \in [Callers -> Bodies \union {None}]
  /\ claim \in [Claims -> {"idle", "open", "committed", "aborted"}]
  /\ inserting \in [Claims -> SUBSET Ids]
  /\ hostless \in [Claims -> BOOLEAN]

RegistryInit ==
  /\ rows = [i \in Ids |-> None]
  /\ aliases = [i \in Ids |-> <<>>]
  /\ links = {}
  /\ creator = [i \in Ids |-> None]
  /\ connected \in [{"assets", "cis"} -> BOOLEAN]
  /\ at = [c \in Callers |-> "idle"]
  /\ seen = [c \in Callers |-> None]
  /\ claim = [k \in Claims |-> "idle"]
  /\ inserting = [k \in Claims |-> {}]
  /\ hostless = [k \in Claims |-> FALSE]

ServiceOf(id) == IF id \in Assets THEN "assets" ELSE "cis"
Reply(c, answer) == at' = [at EXCEPT ![c] = answer]
Stored(list) == [n \in DOMAIN list |-> Rounded[list[n]]]
-----------------------------------------------------------------------------
(* The services.                                                           *)

(* permits, and the first query of retrieve; a service without a pool      *)
(* finds nothing and then cannot insert.                                   *)
RetrieveRow(c) ==
  LET r == Request[c]
  IN  /\ at[c] = "idle"
      /\ seen' = [seen EXCEPT ![c] =
                    IF r.token /\ connected[ServiceOf(r.id)] THEN rows[r.id] ELSE None]
      /\ Reply(c, CASE ~r.token -> "forbidden"
                    [] r.token /\ ~connected[ServiceOf(r.id)] -> "unavailable"
                    [] OTHER -> IF rows[r.id] = None THEN "inserting" ELSE "retrieved")
      /\ UNCHANGED <<rowVars, connected, claim, inserting, hostless>>

(* Slip: an identifier that exists answers the request, whatever it asks.  *)
ComparePresence(c) ==
  /\ at[c] = "retrieved"
  /\ Reply(c, "repeated")
  /\ seen' = [seen EXCEPT ![c] = None]
  /\ UNCHANGED <<rowVars, connected, claim, inserting, hostless>>

(* The second query of retrieve and the comparison of the two payloads.    *)
(* The CMDB reads confidences as they are stored, in percents, and its own *)
(* model of an alias refuses them.                                         *)
Compare(c) ==
  LET r == Request[c]
  IN  /\ at[c] = "retrieved"
      /\ Reply(c, IF r.id \in Cis /\ aliases[r.id] # <<>> THEN "error"
                  ELSE IF seen[c] = r.body /\ aliases[r.id] = r.aliases
                       THEN "repeated" ELSE "conflict")
      /\ seen' = [seen EXCEPT ![c] = None]
      /\ UNCHANGED <<rowVars, connected, claim, inserting, hostless>>

(* The INSERT of the row: it waits for an uncommitted one of its key, and  *)
(* a key that is taken, or a CI whose asset is not there, is an error the  *)
(* service does not catch.                                                 *)
Insert(c) ==
  LET r == Request[c]
      isTaken == rows[r.id] # None
      lacksAsset == r.id \in Cis /\ AssetOf[r.body] # None /\ rows[AssetOf[r.body]] = None
  IN  /\ at[c] = "inserting"
      /\ \A k \in Claims : r.id \notin inserting[k]
      /\ IF isTaken \/ lacksAsset
         THEN Reply(c, "error") /\ UNCHANGED <<rows, creator>>
         ELSE /\ rows' = [rows EXCEPT ![r.id] = r.body]
              /\ creator' = [creator EXCEPT ![r.id] = c]
              /\ Reply(c, "aliasing")
      /\ UNCHANGED <<aliases, links, connected, seen, claim, inserting, hostless>>

(* Slip: the record is reported before its aliases are inserted.           *)
InsertAliasesLater(c) ==
  LET r == Request[c]
  IN  /\ at[c] = "aliasing"
      /\ aliases' \in {aliases, [aliases EXCEPT ![r.id] = @ \o Stored(r.aliases)]}
      /\ Reply(c, "created")
      /\ UNCHANGED <<rows, links, creator, connected, seen, claim, inserting, hostless>>

(* The INSERTs of the aliases, all or none, and the answer.                *)
InsertAliases(c) ==
  LET r == Request[c]
  IN  /\ at[c] = "aliasing"
      /\ aliases' = [aliases EXCEPT ![r.id] = @ \o Stored(r.aliases)]
      /\ Reply(c, "created")
      /\ UNCHANGED <<rows, links, creator, connected, seen, claim, inserting, hostless>>

(* POST relationships: foreign keys, and one current relationship of a     *)
(* kind between two CIs.                                                   *)
Relate(x, y) ==
  /\ connected["cis"]
  /\ rows[x] # None /\ rows[y] # None
  /\ <<x, y>> \notin links
  /\ links' = links \union {<<x, y>>}
  /\ UNCHANGED <<rows, aliases, creator, connected, at, seen, claim, inserting, hostless>>

(* A database command fails, or the handler's answer does not get through  *)
(* the gateway, which maps a refused connection to 502 and fails itself on *)
(* a read timeout.  A handler that goes on after its caller gave up is the *)
(* one of another caller with the same request.                            *)
Lose(c) ==
  /\ at[c] \in Handling \union Succeeded
  /\ Reply(c, "lost")
  /\ seen' = [seen EXCEPT ![c] = None]
  /\ UNCHANGED <<rowVars, connected, claim, inserting, hostless>>

(* The service stops and starts: its pool is set up if its configuration   *)
(* can be read, and the handlers it was running are gone.                  *)
Restart(s, hasPool) ==
  /\ connected' = [connected EXCEPT ![s] = hasPool]
  /\ at' = [c \in Callers |->
       IF at[c] \in Handling /\ ServiceOf(Request[c].id) = s THEN "lost" ELSE at[c]]
  /\ seen' = [c \in Callers |-> IF at'[c] = "lost" THEN None ELSE seen[c]]
  /\ UNCHANGED <<rowVars, claim, inserting, hostless>>

Retry(c) ==
  /\ at[c] \in Refused
  /\ Reply(c, "idle")
  /\ UNCHANGED <<rowVars, connected, seen, claim, inserting, hostless>>
-----------------------------------------------------------------------------
(* The pipeline's claims.                                                  *)

(* The identity rows of a claim: the asset and the CI are inserted if they *)
(* are not there, waiting for whoever is inserting them, and the hostname  *)
(* is looked for.                                                          *)
OpenClaim(k) ==
  LET mine == {i \in {ClaimAsset[k], ClaimCi[k]} : rows[i] = None}
  IN  /\ claim[k] = "idle"
      /\ \A j \in Claims : {ClaimAsset[k], ClaimCi[k]} \intersect inserting[j] = {}
      /\ claim' = [claim EXCEPT ![k] = "open"]
      /\ inserting' = [inserting EXCEPT ![k] = mine]
      /\ hostless' = [hostless EXCEPT ![k] = ~Contains(aliases[ClaimAsset[k]], Hostname)]
      /\ UNCHANGED <<rowVars, connected, at, seen>>

CommitClaim(k) ==
  /\ claim[k] = "open"
  /\ claim' = [claim EXCEPT ![k] = "committed"]
  /\ rows' = [i \in Ids |-> IF i \in inserting[k] THEN PipelineBody[i] ELSE rows[i]]
  /\ aliases' = IF hostless[k]
                THEN [aliases EXCEPT ![ClaimAsset[k]] = Append(@, Hostname)] ELSE aliases
  /\ inserting' = [inserting EXCEPT ![k] = {}]
  /\ hostless' = [hostless EXCEPT ![k] = FALSE]
  /\ UNCHANGED <<links, creator, connected, at, seen>>

AbortClaim(k) ==
  /\ claim[k] = "open"
  /\ claim' = [claim EXCEPT ![k] = "aborted"]
  /\ inserting' = [inserting EXCEPT ![k] = {}]
  /\ hostless' = [hostless EXCEPT ![k] = FALSE]
  /\ UNCHANGED <<rowVars, connected, at, seen>>

Handler(c) == RetrieveRow(c) \/ Compare(c) \/ Insert(c) \/ InsertAliases(c)

RegistryNext ==
  \/ \E c \in Callers : Handler(c) \/ Lose(c) \/ Retry(c)
  \/ \E s \in {"assets", "cis"}, hasPool \in BOOLEAN : Restart(s, hasPool)
  \/ \E k \in Claims : OpenClaim(k) \/ CommitClaim(k) \/ AbortClaim(k)
  \/ \E x, y \in Cis : Relate(x, y)

RegistrySpec == RegistryInit /\ [][RegistryNext]_registryVars
-----------------------------------------------------------------------------
(* Properties.                                                             *)

(* What a caller was told "created" is there whole: the row with its body  *)
(* and each of its aliases, whatever others did before and after.          *)
CreatedIsWhole ==
  \A c \in Callers :
    at[c] = "created" =>
      /\ rows[Request[c].id] = Request[c].body
      /\ \A n \in DOMAIN Request[c].aliases :
           Contains(aliases[Request[c].id], Rounded[Request[c].aliases[n]])

(* Create is a binding of the identifier, made by one of the callers at    *)
(* most: retries, crashes between its commands, concurrent creates and the *)
(* pipeline's own rows rebind nothing and give no second "created".        *)
Binding == INSTANCE OneBinding WITH
  Unbound <- None,
  IdOf <- [c \in Callers |-> Request[c].id],
  BodyOf <- [c \in Callers |-> Request[c].body],
  bound <- rows,
  answer <- [c \in Callers |->
               IF at[c] \in Succeeded THEN at[c]
               ELSE IF at[c] \in Refused THEN "refused" ELSE "none"]
ImplementsOneBinding == Binding!Spec

(* "Same payload: 200 and the existing record": a caller that tries again  *)
(* is never told that the row of its own making conflicts with its request,*)
(* unless the pipeline has added to it.  A caller meets its own row only   *)
(* after a failure or a restart took its first answer away.                *)
RepeatIsNoConflict ==
  \A c \in Callers :
    (/\ creator[Request[c].id] = c
     /\ \A k \in Claims : Request[c].id \notin {ClaimAsset[k], ClaimCi[k]})
    => at[c] # "conflict"
=============================================================================
