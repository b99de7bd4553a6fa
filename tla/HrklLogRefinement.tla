-------------------------- MODULE HrklLogRefinement --------------------------
(* HrklLog implements EpisodeLog: the history is what the head makes        *)
(* visible or, when there is no head, what is on disk.                      *)
EXTENDS HrklLog

Mode == IF ~Opened /\ pc # "open_header" THEN "down"
        ELSE IF pc = "dead" THEN "poisoned" ELSE "up"

\* The ids of the records whose LSNs are below n, in LSN order, with 0, which
\* is nobody's, where no record has the LSN.
IdsAt(recs, lsn) == {r.id : r \in {x \in recs : x.lsn = lsn}}
AnyId(ids) == IF ids = {} THEN 0 ELSE CHOOSE id \in ids : TRUE
IdAt(recs, lsn) == AnyId(IdsAt(recs, lsn))
IdsBelow(recs, n) == [i \in 1..n |-> IdAt(recs, i - 1)]

EndOf(recs) == CHOOSE n \in NextLsn(recs) : TRUE

\* Where the history ends.
Shown == IF Mode = "down" THEN EndOf(AllRecs(files)) ELSE committed_lsn

History == IdsBelow(AllRecs(files), Shown)

Promise == EndOf({[lsn |-> p[1]] : p \in promised})

Abstract == INSTANCE EpisodeLog WITH
  Episodes <- Nat, mode <- Mode, hist <- History, safe <- Promise, acked <- acked

\* Every step of the segmented log, a roll, a rollback, a crash or a recovery
\* included, is a step of the abstract history or none.
ImplementsEpisodeLog == Abstract!Spec
=============================================================================
