------------------------------ MODULE MCSdkClient ------------------------------
EXTENDS SdkClient, TLC

\* A license in order, one whose subscription has ended, and a revoked one.
InOrder == [status |-> "active", expired |-> FALSE, subscription |-> "past_due"]
ThreeFacts == {InOrder, [InOrder EXCEPT !.subscription = "canceled"], [InOrder EXCEPT !.status = "revoked"]}
TwoFacts == {InOrder, [InOrder EXCEPT !.status = "revoked"]}

Symmetry == Permutations(Calls) \cup Permutations(Keys)
=============================================================================
