----------------------------- MODULE MCServices -----------------------------
(* The services on small instances; the .cfg file gives the other constants. *)
EXTENDS ServiceParts, TLC

\* The first service offers one command, the others none.
Offers    == [s \in {"s1", "s2", "muc"} |-> IF s = "s1" THEN {"c1"} ELSE {}]
Portraits == [f \in {"a", "b"} |-> IF f = "a" THEN {1, 2} ELSE {3}]

\* Numbers stand for the strings; the features are not written in their order.
OneIdentity == <<1>>
TwoFeatures == <<2, 1>>
=============================================================================
