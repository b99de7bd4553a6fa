-------------------------- MODULE EpisodeLogProofs --------------------------
(***************************************************************************)
(* What EpisodeLog promises, proved for any set of episodes.  HrklLog      *)
(* implements EpisodeLog (HrklLogRefinement), so these are promises of     *)
(* heraclitus-log.                                                         *)
(***************************************************************************)
EXTENDS EpisodeLog, NatLemmas

\* Continuing a history changes none of its entries.
LEMMA ContinuesKeeps ==
  ASSUME NEW h \in Seq(Episodes), NEW g \in Seq(Episodes), Continues(g, h)
  PROVE  Len(h) <= Len(g) /\ \A i \in 1..Len(h) : g[i] = h[i]
<1>1. Len(h) \in Nat /\ Len(g) \in Nat /\ Len(h) <= Len(g) /\ SubSeq(g, 1, Len(h)) = h
  BY LenProperties DEF Continues
<1>2. \A i \in 1..Len(h) : SubSeq(g, 1, Len(h))[i] = g[i]
  <2>1. Len(h) \in 0..Len(g)
    BY <1>1
  <2> QED BY <2>1, PrefixType
<1> QED BY <1>1, <1>2

\* Two histories that agree up to n have the same prefix of length n.
LEMMA SamePrefix ==
  ASSUME NEW h \in Seq(Episodes), NEW g \in Seq(Episodes), NEW n \in Nat,
         n <= Len(h), n <= Len(g), \A i \in 1..n : g[i] = h[i]
  PROVE  SubSeq(g, 1, n) = SubSeq(h, 1, n)
<1>1. n \in 0..Len(h) /\ n \in 0..Len(g)
  BY LenProperties
<1>2. /\ SubSeq(g, 1, n) \in Seq(Episodes) /\ Len(SubSeq(g, 1, n)) = n
      /\ SubSeq(h, 1, n) \in Seq(Episodes) /\ Len(SubSeq(h, 1, n)) = n
      /\ \A i \in 1..n : SubSeq(g, 1, n)[i] = SubSeq(h, 1, n)[i]
  BY <1>1, PrefixType
<1> QED BY <1>2, SeqEqual

\* A promise covers no more than the history, and acknowledged episodes are
\* in it: neither is inductive without the other's types.
Promises == TypeOK /\ AckedInHistory /\ PromiseCovered

LEMMA InitPromises == Init => Promises
BY LenProperties DEF Init, Promises, TypeOK, AckedInHistory, PromiseCovered

LEMMA CommitPromises ==
  ASSUME Promises, Commit
  PROVE  Promises' /\ SubSeq(hist', 1, safe) = SubSeq(hist, 1, safe)
<1> USE DEF Promises
<1>1. hist \in Seq(Episodes) /\ hist' \in Seq(Episodes) /\ safe \in Nat
      /\ Len(hist) \in Nat /\ Len(hist') \in Nat
  BY LenProperties DEF Commit, TypeOK
<1>2. Len(hist) <= Len(hist') /\ \A i \in 1..Len(hist) : hist'[i] = hist[i]
  BY <1>1, ContinuesKeeps DEF Commit
<1>3. TypeOK' /\ PromiseCovered'
  BY <1>1, <1>2 DEF Commit, TypeOK, PromiseCovered
<1>4. AckedInHistory'
  <2> SUFFICES ASSUME NEW a \in acked
               PROVE  a[1] < Len(hist') /\ hist'[a[1] + 1] = a[2]
    BY DEF Commit, AckedInHistory
  <2>1. a[1] \in Nat /\ a[1] < Len(hist) /\ hist[a[1] + 1] = a[2]
    BY DEF TypeOK, AckedInHistory
  <2>2. a[1] + 1 \in 1..Len(hist)
    BY <1>1, <2>1
  <2> QED BY <1>1, <1>2, <2>1, <2>2
<1>5. SubSeq(hist', 1, safe) = SubSeq(hist, 1, safe)
  BY <1>1, <1>2, SamePrefix DEF PromiseCovered
<1> QED BY <1>3, <1>4, <1>5

LEMMA AnswerPromises ==
  ASSUME Promises, Answer
  PROVE  Promises' /\ SubSeq(hist', 1, safe) = SubSeq(hist, 1, safe)
<1> USE DEF Promises
<1>1. hist \in Seq(Episodes) /\ Len(hist) \in Nat /\ DOMAIN hist = 1..Len(hist)
      /\ \A i \in DOMAIN hist : hist[i] \in Episodes
  BY LenProperties, ElementOfSeq DEF TypeOK
<1>2. UNCHANGED <<mode, hist>> /\ safe' \in safe..Len(hist)
  BY DEF Answer
<1>3. \A a \in acked' : a \in Nat \X Episodes /\ a[1] < Len(hist) /\ hist[a[1] + 1] = a[2]
  <2> SUFFICES ASSUME NEW a \in acked'
               PROVE  a \in Nat \X Episodes /\ a[1] < Len(hist) /\ hist[a[1] + 1] = a[2]
    OBVIOUS
  <2>1. CASE a \in acked
    BY <2>1 DEF TypeOK, AckedInHistory
  <2>2. CASE a \notin acked
    <3>1. PICK i \in DOMAIN hist : a = <<i - 1, hist[i]>>
      BY <2>2 DEF Answer
    <3> QED BY <1>1, <3>1
  <2> QED BY <2>1, <2>2
<1> QED BY <1>1, <1>2, <1>3 DEF TypeOK, AckedInHistory, PromiseCovered

LEMMA CrashPromises ==
  ASSUME Promises, Crash
  PROVE  Promises' /\ SubSeq(hist', 1, safe) = SubSeq(hist, 1, safe)
<1> USE DEF Promises
<1>1. hist \in Seq(Episodes) /\ hist' \in Seq(Episodes) /\ safe \in Nat
      /\ safe <= Len(hist) /\ safe <= Len(hist')
      /\ Len(hist) \in Nat /\ Len(hist') \in Nat
  BY LenProperties DEF Crash, TypeOK, PromiseCovered
<1>2. \A i \in 1..safe : hist'[i] = hist[i]
  <2>1. CASE Continues(hist', hist)
    BY <1>1, <2>1, ContinuesKeeps
  <2>2. CASE Continues(hist, hist')
    BY <1>1, <2>2, ContinuesKeeps
  <2> QED BY <2>1, <2>2 DEF Crash
<1>3. SubSeq(hist', 1, safe) = SubSeq(hist, 1, safe)
  BY <1>1, <1>2, SamePrefix
<1> QED BY <1>1, <1>3 DEF Crash, TypeOK, AckedInHistory, PromiseCovered

\* Every step keeps the promises, and the promised part of the history.
LEMMA NextPromises ==
  Promises /\ [Next]_vars =>
    Promises' /\ [SubSeq(hist', 1, safe) = SubSeq(hist, 1, safe)]_vars
<1> SUFFICES ASSUME Promises, [Next]_vars
             PROVE  Promises' /\ [SubSeq(hist', 1, safe) = SubSeq(hist, 1, safe)]_vars
  OBVIOUS
<1>1. CASE Commit
  BY <1>1, CommitPromises
<1>2. CASE Answer
  BY <1>2, AnswerPromises
<1>3. CASE Poison \/ Open
  BY <1>3 DEF Poison, Open, Promises, TypeOK, AckedInHistory, PromiseCovered
<1>4. CASE Crash
  BY <1>4, CrashPromises
<1>5. CASE UNCHANGED vars
  BY <1>5 DEF vars, Promises, TypeOK, AckedInHistory, PromiseCovered
<1> QED BY <1>1, <1>2, <1>3, <1>4, <1>5 DEF Next

\* Read-your-writes: whatever append answered Ok for is in the committed
\* history at its LSN, and no more is promised than is there (lib.rs phases 5
\* and 6), until a crash clears what the process had answered.
THEOREM AckedAndPromisedThere ==
  Spec => [](AckedInHistory /\ PromiseCovered)
<1>1. Spec => []Promises
  BY InitPromises, NextPromises, PTL DEF Spec
<1> QED BY <1>1, PTL DEF Promises

\* No step, a crash included, changes the part of the history that a flush or
\* an append under FsyncPolicy::Always has promised (lib.rs, flush).
THEOREM PromisesNeverTakenBack ==
  Spec => PromiseStable
BY InitPromises, NextPromises, PTL DEF Spec, PromiseStable
=============================================================================
