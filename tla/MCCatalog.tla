------------------------------- MODULE MCCatalog -------------------------------
(* An instance of Catalog for TLC: a plan that can be sold for good, with or *)
(* without an update window, for some days or by the year; two candidates of *)
(* a release, which texts would order wrongly, and the release.              *)
EXTENDS Catalog

Sold(billing, term, days, window) ==
    [billing |-> billing, licenseTerm |-> term, termDays |-> days, updatesDays |-> window]
MCShapes == {Sold("one_time", "perpetual", FALSE, FALSE), Sold("one_time", "perpetual", FALSE, TRUE),
             Sold("one_time", "fixed_days", TRUE, FALSE)}

Candidate(n) == [core |-> <<2, 0, 0>>, pre |-> <<[text |-> TRUE, value |-> 1], [text |-> FALSE, value |-> n]>>]
MCNumbers == {Candidate(9), Candidate(10), [core |-> <<2, 0, 0>>, pre |-> <<>>]}
=============================================================================
