--------------------------- MODULE MCClaimStore ---------------------------
(* Three concurrent calls over two event identifiers, with a content of    *)
(* each verdict and two accepted ones.  One content writes its identifier  *)
(* in upper case; the lock keys of the two identifiers collide, those of   *)
(* the two spellings do not.                                               *)
EXTENDS ClaimStore

CONSTANTS
  e1, e2, prepared, omitted, rejected, unvalidated, lower, upper, k1, k2

MCVerdict ==
  [c \in Contents |->
     CASE c = prepared -> "prepared"
       [] c = omitted -> "omitted"
       [] c = rejected -> "rejected"
       [] c = unvalidated -> "unvalidated"]

MCSpelling == [c \in Contents |-> IF c = omitted THEN upper ELSE lower]

MCLockOf ==
  [text \in Events \X Spellings |-> IF text[2] = upper THEN k2 ELSE k1]
=============================================================================
