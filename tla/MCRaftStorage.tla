---------------------------- MODULE MCRaftStorage ----------------------------
(* TLC instance of RaftStorage: the entries and the scenarios of the runs.  *)
EXTENDS RaftStorage

Four == <<"member", "normal", "blank", "normal">>

Base == [policy |-> "always", snapshots |-> {}, builds |-> FALSE, stale |-> FALSE,
         tornInstall |-> FALSE, votes |-> 0, opens |-> 3, records |-> 4]

\* Entries of a deposed leader and votes; snapshots built, and the log purged
\* to them, between the crashes; snapshots received; one whose installation is
\* interrupted; and a log that syncs in groups.
Restarts ==
  {[Base EXCEPT !.stale = TRUE, !.votes = 1, !.records = 5],
   [Base EXCEPT !.builds = TRUE],
   [Base EXCEPT !.snapshots = {1, 3}],
   [Base EXCEPT !.snapshots = {3}, !.tornInstall = TRUE],
   [Base EXCEPT !.builds = TRUE, !.policy = "group", !.opens = 3]}

\* A crash in the middle of an installation, and a shorter snapshot after it.
ShorterSnapshot == {[Base EXCEPT !.snapshots = {1, 3}, !.tornInstall = TRUE]}
=============================================================================
