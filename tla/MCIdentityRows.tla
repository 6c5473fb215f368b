--------------------------- MODULE MCIdentityRows ---------------------------
(* Four claims: two that agree in everything, one that shares their CI     *)
(* with another asset, and one that shares its asset with the third.       *)
EXTENDS IdentityRows

CONSTANTS t1, t2, t3, t4, x1, x2, i1, i2, h

MCAssetOf == [t \in Transactions |-> IF t \in {t1, t2} THEN x1 ELSE x2]
MCCiOf == [t \in Transactions |-> IF t \in {t1, t2, t3} THEN i1 ELSE i2]
MCHostOf == [t \in Transactions |-> h]
=============================================================================
