------------------------------- MODULE MCTraffic -------------------------------
(* Instances of Traffic for TLC; the bounds are in the .cfg files. *)
EXTENDS Traffic
=============================================================================
