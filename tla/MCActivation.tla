----------------------------- MODULE MCActivation -----------------------------
(* Small instances of the activations of a license. *)
EXTENDS Activation, TLC

CONSTANTS i1, i2, i3, c1, c2, m1, m2

ThreeInstances == {i1, i2, i3}
FourRows == {1, 2, 3, 4}
TwoCalls == {c1, c2}
TwoRemovers == {m1, m2}
OneOrTwo == {1, 2}

Symmetry == Permutations(ThreeInstances) \cup Permutations(TwoCalls) \cup Permutations(TwoRemovers)
===============================================================================
