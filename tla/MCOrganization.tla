---------------------------- MODULE MCOrganization ----------------------------
(* Instances of Organization for TLC; the bounds are in the .cfg files.      *)
(* People other than the founder, rows, slots and desks are interchangeable. *)
EXTENDS Organization, TLC

Symmetry == Permutations(People \ {Founder}) \cup Permutations(Invitations)
            \cup Permutations(Keys) \cup Permutations(Slots) \cup Permutations(Desks)

\* Bound: a behaviour is followed up to its first overtaken save.
NotOvertaken == ~overtaken
=============================================================================
