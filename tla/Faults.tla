--------------------------------- MODULE Faults ---------------------------------
(***************************************************************************)
(* What models of the code against the database and the bucket have in     *)
(* common: processes crash and statements or calls fail, a bounded number  *)
(* of times.                                                               *)
(***************************************************************************)
EXTENDS Integers, FiniteSets, Functions

CONSTANTS
    MaxFaults,      \* bound on crashes and failures
    None

ASSUME MaxFaultsAssumption == MaxFaults \in Nat

VARIABLE faults     \* crashes and failures so far

Fault == faults < MaxFaults /\ faults' = faults + 1
=============================================================================
