------------------------------ MODULE EpisodeLog ------------------------------
(***************************************************************************)
(* What heraclitus-log promises its callers (the module comment of         *)
(* heraclitus-log/src/lib.rs and the contracts of append and flush): one   *)
(* immutable history of episodes, LSN i at position i + 1, that only grows *)
(* while the log is open, of which a crash may take back nothing promised. *)
(***************************************************************************)
EXTENDS Naturals, Sequences

CONSTANT Episodes     \* what the history is made of

VARIABLES
  mode,     \* "down", "up" or "poisoned"
  hist,     \* the committed history
  safe,     \* how much of it is promised to survive any crash
  acked     \* <<lsn, episode>> answered Ok since the log was opened

vars == <<mode, hist, safe, acked>>

\* g continues h.
Continues(g, h) == Len(h) <= Len(g) /\ SubSeq(g, 1, Len(h)) = h

Init == mode = "down" /\ hist \in Seq(Episodes) /\ safe = 0 /\ acked = {}

\* A batch becomes visible, all of it at once and after what is there.
Commit ==
  /\ mode = "up"
  /\ hist' \in Seq(Episodes) /\ Continues(hist', hist)
  /\ UNCHANGED <<mode, safe, acked>>

\* Calls return Ok: only for what the history holds, and a promise covers no
\* more than the history.
Answer ==
  /\ mode = "up"
  /\ acked \subseteq acked'
  /\ \A a \in acked' \ acked : a \in {<<i - 1, hist[i]>> : i \in DOMAIN hist}
  /\ safe' \in safe..Len(hist)
  /\ UNCHANGED <<mode, hist>>

\* An I/O error: no more commits and no more answers.
Poison == mode = "up" /\ mode' = "poisoned" /\ UNCHANGED <<hist, safe, acked>>

\* A crash takes back a suffix that was not promised, or leaves on disk
\* episodes that were being written.
Crash ==
  /\ mode # "down" /\ mode' = "down"
  /\ hist' \in Seq(Episodes)
  /\ Continues(hist', hist) \/ Continues(hist, hist')
  /\ safe <= Len(hist')
  /\ acked' = {} /\ UNCHANGED safe

\* Recovery shows exactly what the crash left.
Open == mode = "down" /\ mode' = "up" /\ UNCHANGED <<hist, safe, acked>>

Next == Commit \/ Answer \/ Poison \/ Crash \/ Open

Spec == Init /\ [][Next]_vars
-----------------------------------------------------------------------------
TypeOK ==
  /\ mode \in {"down", "up", "poisoned"}
  /\ hist \in Seq(Episodes) /\ safe \in Nat
  /\ acked \subseteq Nat \X Episodes

\* Read-your-writes: an answered episode is in the history, at its LSN
\* (lib.rs FASE 5: the head is published before the callers are answered).
AckedInHistory ==
  \A a \in acked : a[1] < Len(hist) /\ hist[a[1] + 1] = a[2]

\* What was promised is there.
PromiseCovered == safe <= Len(hist)

\* No step changes the promised part of the history, crashes included
\* (flush and FsyncPolicy::Always of lib.rs).
PromiseStable == [][SubSeq(hist', 1, safe) = SubSeq(hist, 1, safe)]_vars
=============================================================================
