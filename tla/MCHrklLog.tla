------------------------------ MODULE MCHrklLog ------------------------------
(* HrklLog on small instances: what the constants stand for in the runs.    *)
EXTENDS HrklLogRefinement, TLC

\* Two entries of a leader, the second one longer than a whole segment.
MCLeader == <<[id |-> 1, ts |-> 1, size |-> 1], [id |-> 2, ts |-> 4, size |-> 3]>>
NoLeader == <<>>

Symmetry == Permutations(Clients)
=============================================================================
