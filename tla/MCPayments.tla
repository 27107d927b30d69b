----------------------------- MODULE MCPayments -----------------------------
(* Model values and small sets for checking Payments with TLC.              *)
EXTENDS PaymentProperties, TLC

CONSTANTS t1, o1, o2, o3, i1, i2, m1, m2, b1

MCKindOf == [r \in Refs |-> CASE r = t1 -> "topup" [] r = o1 -> "auto"
                              [] r = o2 -> "bank" [] r = o3 -> "custom"]

MCInstOf == [h \in Handlers |-> IF h = b1 THEN "bot" ELSE "mini"]

Symmetry == Permutations(Invoices) \cup Permutations(Handlers \ {b1})
=============================================================================
