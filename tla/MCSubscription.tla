---------------------------- MODULE MCSubscription ----------------------------
(* Small instances of a subscription and its license. *)
EXTENDS Subscription

CONSTANTS w1, p1, r1

OneWorker == {w1}
OneReplayer == {p1}
OneSweep == {r1}
Nobody == {}
===============================================================================
