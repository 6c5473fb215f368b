----------------------------- MODULE OneBinding -----------------------------
(***************************************************************************)
(* What the create operation of the asset repository and of the CMDB keeps *)
(* of its promise whatever goes wrong: an identifier is bound to one body  *)
(* for ever, one caller at most is told that it created it, and whoever is *)
(* told that its request is there already asked for that body.             *)
(***************************************************************************)
CONSTANTS
  Ids,      \* identifiers
  Callers,  \* requests, tried any number of times
  Bodies,   \* bodies a record may have
  IdOf,     \* IdOf[c]: the identifier c asks for
  BodyOf,   \* BodyOf[c]: the body c asks for
  Unbound   \* not a body, not a caller

VARIABLES
  bound,    \* the body of each identifier
  creator,  \* the caller that bound it, Unbound if the pipeline did
  answer    \* what each caller was told by its last try

vars == <<bound, creator, answer>>

Init ==
  /\ bound = [i \in Ids |-> Unbound]
  /\ creator = [i \in Ids |-> Unbound]
  /\ answer = [c \in Callers |-> "none"]

Bind(c) ==
  /\ bound[IdOf[c]] = Unbound
  /\ bound' = [bound EXCEPT ![IdOf[c]] = BodyOf[c]]
  /\ creator' = [creator EXCEPT ![IdOf[c]] = c]
  /\ UNCHANGED answer

(* Records that do not come from a caller: any number of them at once.     *)
BindOthers ==
  /\ bound' \in [Ids -> Bodies \union {Unbound}]
  /\ \A i \in Ids : bound[i] # Unbound => bound'[i] = bound[i]
  /\ UNCHANGED <<creator, answer>>

(* What callers are told, any number of them at once when a service stops. *)
Answers ==
  /\ answer' \in [Callers -> {"none", "created", "repeated", "refused"}]
  /\ \A c \in Callers : answer'[c] # answer[c] =>
       /\ answer'[c] = "created" => creator[IdOf[c]] = c
       /\ answer'[c] = "repeated" => bound[IdOf[c]] = BodyOf[c]
  /\ UNCHANGED <<bound, creator>>

Next == BindOthers \/ Answers \/ \E c \in Callers : Bind(c)

Spec == Init /\ [][Next]_vars
=============================================================================
