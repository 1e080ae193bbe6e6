------------------------------ MODULE MCJobQueue ------------------------------
(* Small instances of the job queue. *)
EXTENDS JobQueue

CONSTANTS w1, w2, s1, s2

OneJob == {1}
TwoWorkers == {w1, w2}
TwoStaff == {s1, s2}
===============================================================================
