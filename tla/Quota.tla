-------------------------------- MODULE Quota --------------------------------
(***************************************************************************)
(* What every counted limit of an account promises                         *)
(* (src/app/billing/plan_service.ts): something is in use, a limit is in   *)
(* force, and whatever else happens a claim never takes the use beyond the *)
(* limit of that moment.  The limit may change at any time, also to less   *)
(* than what is in use; nothing is taken away then.                        *)
(***************************************************************************)
EXTENDS Integers

CONSTANT Unlimited      \* the limit that is null in the code

VARIABLES
    used,               \* how much of the quota is taken
    limit               \* the limit in force, a number or Unlimited

vars == <<used, limit>>

Within(n, l) == l = Unlimited \/ n <= l

Init == used \in Nat /\ (limit \in Nat \/ limit = Unlimited)

\* More is taken, within the limit.
Claim ==
    /\ used' \in Nat
    /\ used' > used
    /\ Within(used', limit)
    /\ limit' = limit

\* Something is given back.
Free ==
    /\ used' \in Nat
    /\ used' < used
    /\ limit' = limit

\* Staff override the limit.
Change ==
    /\ limit' \in Nat \/ limit' = Unlimited
    /\ used' = used

Next == Claim \/ Free \/ Change

Spec == Init /\ [][Next]_vars
=============================================================================
