------------------------------ MODULE MCPurchase ------------------------------
(* Small instances of a one-time purchase. *)
EXTENDS Purchase

CONSTANTS w1, w2, r1, s1

OneWorker == {w1}
TwoWorkers == {w1, w2}
OneReplayer == {r1}
OneStaff == {s1}
Nobody == {}

AllKinds == Kinds
===============================================================================
