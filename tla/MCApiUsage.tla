------------------------------ MODULE MCApiUsage -------------------------------
(* Instances of ApiUsage for TLC; the bounds are in the .cfg file. *)
EXTENDS ApiUsage
=============================================================================
