---------------------------- MODULE MCEngineViews ----------------------------
(* TLC instance of EngineViews: the scenarios of the runs.                 *)
EXTENDS EngineViews, TLC

Symmetry == Permutations(Appenders)

\* One view that skips known episodes and one that counts applications.
TwoViews == <<"text", "activation">>

Base == [writers |-> 1, keys |-> Keys, ops |-> {}, boots |-> {"normal"}, crashAt |-> {"none"},
         quiet |-> {}, opens |-> 3, ids |-> 4, policy |-> "always"]

\* One writer: power losses while serving and in the middle of checkpoints;
\* shreds interrupted at any step and booted in either mode; and a log that
\* syncs in groups, which loses nothing while nothing crashes.
Serial ==
  {[Base EXCEPT !.ops = {"checkpoint", "shutdown"},
                !.crashAt = {"none", "checkpoint", "shutdown"}],
   [Base EXCEPT !.keys = {}, !.ops = {"shred"}, !.boots = {"normal", "skip"}, !.quiet = {"shred"},
                !.crashAt = {"none", "shred", "privacy_open"}, !.opens = 4],
   [Base EXCEPT !.ops = {"checkpoint"}, !.crashAt = {}, !.opens = 1, !.policy = "group"]}

\* Two writers: crashes between checkpoints that only boots and shutdowns
\* make, with idempotent appends; maintenance of all kinds without a crash.
\* A shutdown finds no append in flight here: all of them are gRPC calls, which
\* serve_with_shutdown waits for.
Concurrent ==
  {[Base EXCEPT !.writers = 2, !.ids = 3, !.ops = {"shutdown"}, !.quiet = {"shutdown"}],
   [Base EXCEPT !.writers = 2, !.ids = 3, !.keys = {}, !.ops = {"checkpoint", "rebuild", "shutdown"},
                !.quiet = {"shutdown"}, !.crashAt = {}, !.opens = 2]}

SerialAndConcurrent == Serial \cup Concurrent

\* Outside these the code loses or repeats something.
BootWindow == {[Base EXCEPT !.ids = 2, !.crashAt = {"none", "open"}]}
TwoWriters == {[Base EXCEPT !.writers = 2, !.ids = 2, !.crashAt = {}, !.opens = 1]}
KeyLost == {[Base EXCEPT !.writers = 2, !.ids = 3, !.ops = {"checkpoint"}, !.opens = 2]}
ShutdownRace ==
  {[Base EXCEPT !.writers = 2, !.ids = 2, !.ops = {"shutdown"}, !.crashAt = {}, !.opens = 2]}
TornCheckpoint ==
  {[Base EXCEPT !.ops = {"checkpoint"}, !.crashAt = {"none", "checkpoint"}, !.opens = 2]}
=============================================================================
