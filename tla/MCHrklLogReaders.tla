-------------------------- MODULE MCHrklLogReaders --------------------------
(* HrklLogReaders on small instances.                                       *)
EXTENDS HrklLogReaders, TLC

NoLeader == <<>>
Symmetry == Permutations(Clients)
=============================================================================
