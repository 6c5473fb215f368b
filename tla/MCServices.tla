----------------------------- MODULE MCServices -----------------------------
(* The services and the identity rules side by side: they share no state,  *)
(* so a behaviour is about the registry, the drafts or the rules.  Callers *)
(* ask for one asset with the same payload and with another one, another   *)
(* caller for a CI of the asset, and a claim of the pipeline may write the *)
(* same identity.  Evidence may name a device by its UUID, by its serial   *)
(* number, by both, or a CI, in two spellings, or be malformed.            *)
EXTENDS Registry, Drafts, Resolution

CONSTANTS a1, n1, p1, p2, p3, p4, p5, k1, plain, other, bound, exact, coarse,
          d1, d2, e1, e2, e3

VARIABLE service
vars == <<service, registryVars, draftsVars, resolutionVars>>

ForAsset(body, list) == [id |-> a1, body |-> body, aliases |-> list, token |-> TRUE]

MCRequest == [c \in Callers |->
  CASE c \in {p1, p2} -> ForAsset(plain, <<exact>>)
    [] c = p3 -> [ForAsset(bound, <<coarse>>) EXCEPT !.id = n1]
    [] c = p4 -> ForAsset(other, <<coarse>>)
    [] c = p5 -> [ForAsset(plain, <<>>) EXCEPT !.token = FALSE]]

MCAssetOf == [b \in Bodies |-> IF b = bound THEN a1 ELSE None]
MCRounded == [a \in Aliases |-> exact]
MCClaimAsset == [k \in Claims |-> a1]
MCClaimCi == [k \in Claims |-> n1]
MCPipelineBody == [i \in Ids |-> IF i = a1 THEN plain ELSE bound]
MCDecisionOf == [c \in Deciders |-> IF c = e1 THEN "reject" ELSE "approve"]

Named(native, serial, ci, spelling) ==
  [native |-> native, serial |-> serial, ci |-> ci, spelling |-> spelling]
MCIdentities ==
  {Named(1, Missing, Missing, 1), Named(1, Missing, Missing, 2), Named(2, Missing, Missing, 1),
   Named(Missing, 1, Missing, 1), Named(1, 1, Missing, 1), Named(Missing, Missing, 1, 1),
   Named(1, Missing, 1, 1), Named(Missing, Missing, Missing, 1)}
Claimed(identity, window, confidence) ==
  [group |-> 1, identity |-> identity, from |-> window[1], to |-> window[2], confidence |-> confidence]
MCAliasClaims ==
  {Claimed(i, w, s) : i \in {Named(1, Missing, Missing, 1), Named(2, Missing, Missing, 1), Named(1, 1, Missing, 1)},
                      w \in {<<0, 1>>, <<1, Missing>>}, s \in {1, 2}}
    \union {Claimed(Named(1, Missing, Missing, 1), <<0, Missing>>, 3),
            Claimed(Named(1, Missing, Missing, 1), <<1, 0>>, 1),
            Claimed(Named(Missing, Missing, Missing, 1), <<0, Missing>>, 1),
            [Claimed(Named(1, Missing, Missing, 1), <<0, Missing>>, 2) EXCEPT !.group = 2]}

MCSymmetry == Permutations({p1, p2})

Init ==
  /\ service \in {"registry", "drafts", "rules"}
  /\ RegistryInit /\ DraftsInit /\ ResolutionInit
  /\ service # "rules" => clock = 0
  /\ service # "registry" => connected["assets"] /\ connected["cis"]

Next ==
  /\ UNCHANGED service
  /\ \/ service = "registry" /\ RegistryNext /\ UNCHANGED <<draftsVars, resolutionVars>>
     \/ service = "drafts" /\ DraftsNext /\ UNCHANGED <<registryVars, resolutionVars>>
     \/ service = "rules" /\ ResolutionNext /\ UNCHANGED <<registryVars, draftsVars>>

Spec == Init /\ [][Next]_vars

(* Every variable of the services holds a value of its type: rows name     *)
(* bodies, audits are sequences of entries, handlers are where a handler   *)
(* can be.                                                                 *)
TypeOK == RegistryTypeOK /\ DraftsTypeOK
=============================================================================
