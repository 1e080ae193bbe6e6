------------------------------- MODULE MCStorage -------------------------------
(* Instances of Storage for TLC; the bounds are in the .cfg files. *)
EXTENDS Storage
=============================================================================
