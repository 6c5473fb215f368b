----------------------------- MODULE Resolution -----------------------------
(***************************************************************************)
(* The rules by which evidence resolves to an identity: strong identities  *)
(* first, otherwise the aliases that are valid at a fixed clock, ranked by *)
(* confidence and then by the latest start; evidence that cannot be about  *)
(* one thing is quarantined.  The rules are a function of two lists, which *)
(* this module extends item by item; a spelling stands for what the        *)
(* normalisation of names takes away.  Instants are numbers.               *)
(***************************************************************************)
EXTENDS Naturals, Sequences, FiniteSets, SequencesExt

CONSTANTS
  Identities,   \* what evidence may name: native, serial, ci and a spelling
  AliasClaims,  \* group, identity, window and confidence of each alias claim
  Instants,
  MaxConfidence,
  MaxEvidence,  \* bound on the evidence of one resolution
  Missing       \* no such name; for the end of a window: it is open

ASSUME EvidenceAssumption ==
  /\ \A i \in Identities : DOMAIN i = {"native", "serial", "ci", "spelling"} /\ i.spelling \in Nat
  /\ \A c \in AliasClaims : DOMAIN c = {"group", "identity", "from", "to", "confidence"}
  /\ \A c \in AliasClaims : c.identity \in Identities /\ c.confidence \in Nat
  /\ \A c \in AliasClaims : c.from \in Instants /\ c.to \in Instants \union {Missing}
  /\ Instants \subseteq Nat /\ Missing \notin Instants
  /\ MaxConfidence \in Nat /\ MaxEvidence \in Nat

VARIABLES
  strong,   \* strong identities, in the order they were given
  claimed,  \* alias claims, in the order they were given
  clock     \* the fixed clock

resolutionVars == <<strong, claimed, clock>>

Kinds == {"native", "serial", "ci"}
Answer(status, identity) == [status |-> status, identity |-> identity]
NotFound == Answer("not_found", Missing)
Quarantined == Answer("quarantined", Missing)
Rejected == Answer("rejected", Missing)   \* IdentityInputError

(* _strong_names: an identity without any, or with names of an asset and   *)
(* of a CI, is an error.                                                   *)
StrongNames(i) == {<<kind, i[kind]>> : kind \in {k \in Kinds : i[k] # Missing}}
IsMalformed(i) ==
  \/ StrongNames(i) = {}
  \/ i.ci # Missing /\ Cardinality(StrongNames(i)) > 1

NamesOf(kind, names) == {n \in names : n[1] = kind}

(* A list of identities is a function on positions, not all of them from 1 *)
(* on.  Two things at once: two classes, two names of a kind, or several   *)
(* identities without a name that all of them have.                        *)
Conflicts(identities) ==
  LET names == UNION {StrongNames(identities[n]) : n \in DOMAIN identities}
      shared == {name \in names : \A n \in DOMAIN identities : name \in StrongNames(identities[n])}
  IN  \/ NamesOf("ci", names) # {} /\ NamesOf("ci", names) # names
      \/ \E kind \in Kinds : Cardinality(NamesOf(kind, names)) > 1
      \/ Cardinality(DOMAIN identities) > 1 /\ shared = {}

(* max by the number of names, then by the spelling.                       *)
Key(i) == <<Cardinality(StrongNames(i)), i.spelling>>
AtMost(i, j) ==
  \/ Key(i)[1] < Key(j)[1]
  \/ Key(i)[1] = Key(j)[1] /\ Key(i)[2] <= Key(j)[2]

Selected(identities) ==
  identities[CHOOSE n \in DOMAIN identities :
    \A m \in DOMAIN identities : AtMost(identities[m], identities[n])]

ResolveStrong(identities) ==
  IF \E n \in DOMAIN identities : IsMalformed(identities[n]) THEN Rejected
  ELSE IF Conflicts(identities) THEN Quarantined
  ELSE Answer("resolved", Selected(identities))

(* alias_is_eligible: both ends of the window belong to it.                *)
Eligible(c, at) == c.from <= at /\ (c.to = Missing \/ at <= c.to)
IsInverted(c) == c.to # Missing /\ c.to < c.from

Rank(c) == <<c.confidence, c.from>>
Outranks(c, d) ==
  \/ Rank(c)[1] > Rank(d)[1]
  \/ Rank(c)[1] = Rank(d)[1] /\ Rank(c)[2] > Rank(d)[2]

(* The first of the eligible claims when they are sorted by rank.          *)
First(claims, eligible) ==
  CHOOSE n \in eligible : \A m \in eligible : ~Outranks(claims[m], claims[n])

(* Slip: the first of the ranked claims decides, whoever shares its rank.  *)
FirstLeader(claims, eligible) == {First(claims, eligible)}

Leaders(claims, eligible) ==
  {n \in eligible : Rank(claims[n]) = Rank(claims[First(claims, eligible)])}

(* Only the leaders' identities are looked at, and only the confidences of *)
(* eligible claims.                                                        *)
ResolveAlias(claims, at) ==
  LET eligible == {n \in DOMAIN claims : Eligible(claims[n], at)}
  IN  CASE Cardinality({claims[n].group : n \in DOMAIN claims}) > 1 -> Rejected
        [] OTHER ->
             IF \E n \in DOMAIN claims : IsInverted(claims[n]) THEN Rejected
             ELSE IF eligible = {} THEN NotFound
             ELSE IF \E n \in eligible : claims[n].confidence > MaxConfidence THEN Rejected
             ELSE ResolveStrong([n \in Leaders(claims, eligible) |-> claims[n].identity])

ResolveIdentity(identities, claims, at) ==
  IF identities # <<>> THEN ResolveStrong(identities) ELSE ResolveAlias(claims, at)
-----------------------------------------------------------------------------
ResolutionInit == strong = <<>> /\ claimed = <<>> /\ clock \in Instants

GiveStrong(i) ==
  /\ Len(strong) + Len(claimed) < MaxEvidence
  /\ strong' = Append(strong, i)
  /\ UNCHANGED <<claimed, clock>>

GiveClaim(c) ==
  /\ Len(strong) + Len(claimed) < MaxEvidence
  /\ claimed' = Append(claimed, c)
  /\ UNCHANGED <<strong, clock>>

ResolutionNext ==
  \/ \E i \in Identities : GiveStrong(i)
  \/ \E c \in AliasClaims : GiveClaim(c)

ResolutionSpec == ResolutionInit /\ [][ResolutionNext]_resolutionVars
-----------------------------------------------------------------------------
(* The decision of ADR-0020 on a set of evidence, without an order: the    *)
(* evidence is strong, or else what the best of the valid aliases name.    *)
Evidence ==
  IF strong # <<>> THEN ToSet(strong)
  ELSE LET valid == {c \in ToSet(claimed) : c.from <= clock /\ (c.to = Missing \/ clock <= c.to)}
       IN  {c.identity : c \in {c \in valid : \A d \in valid : ~Outranks(d, c)}}

(* A thing has one name of each kind at most; the evidence may be about it *)
(* when all of it names the thing, and some name of it is in all of it.    *)
MayBeAbout(evidence, thing) ==
  /\ \A i \in evidence : StrongNames(i) \subseteq StrongNames(thing)
  /\ Cardinality(evidence) > 1 =>
       \E name \in StrongNames(thing) : \A i \in evidence : name \in StrongNames(i)

IsOneThing(evidence) ==
  \E native, serial, ci \in (UNION {{i[k] : i \in evidence} : k \in Kinds}) \union {Missing} :
    LET thing == [native |-> native, serial |-> serial, ci |-> ci, spelling |-> 0]
    IN  ~IsMalformed(thing) /\ MayBeAbout(evidence, thing)

(* The answer follows the evidence, not the order or the number of times   *)
(* it was given: it is an identity only if all the evidence that counts is *)
(* about one thing, then one of those with the most names; claims below    *)
(* the best or outside of their window do not matter; and no strong        *)
(* evidence takes a conflict back.                                         *)
AnswerFollowsEvidence ==
  LET answer == ResolveIdentity(strong, claimed, clock)
  IN  answer # Rejected =>
        /\ answer.status = (IF Evidence = {} THEN "not_found"
                            ELSE IF IsOneThing(Evidence) THEN "resolved" ELSE "quarantined")
        /\ answer.status = "resolved" =>
             /\ answer.identity \in Evidence
             /\ \A i \in Evidence : StrongNames(i) \subseteq StrongNames(answer.identity)
        /\ \A n \in 1 .. Len(strong) :
             ResolveStrong(SubSeq(strong, 1, n)) = Quarantined => answer = Quarantined
=============================================================================
