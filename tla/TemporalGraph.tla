--------------------------- MODULE TemporalGraph ---------------------------
(***************************************************************************)
(* The two views that travel in time (heraclitus-index-graph): the edges   *)
(* between named entities with their hypotheses (temporal.rs), and the     *)
(* identity of keys that are merged and split (entity.rs).  Both are a     *)
(* fold of the log, kept by the engine as records are indexed, saved in    *)
(* checkpoints and replayed after a crash.  On top of them DECIDE          *)
(* (QueryBackend::decide) turns believed edges into Action records of the  *)
(* same log.                                                               *)
(*                                                                         *)
(* Edges do not affect each other, and neither do the two views, so a      *)
(* behaviour has records of one subject only: of one edge, of identity, or *)
(* of the edges DECIDE chooses from.                                       *)
(***************************************************************************)
EXTENDS Integers, Sequences, FiniteSets, FiniteSetsExt, SequencesExt

CONSTANTS TgEdges,      \* edges (from -[type]-> to)
          TgKeys,       \* resolution keys, naturals: their order is that of the strings
          TgDeciders,   \* clients that call DECIDE
          TgBounds,     \* the LSNs of DECIDE AS OF
          TgOrdered,    \* whether one appender at a time appends and indexes, in LSN order
          TgTorn,       \* whether a crash may fall inside a checkpoint
          TgMaxLog,     \* bound: records
          TgMaxCrashes  \* bound: crashes

VARIABLES tgSubject,  \* "edges", "identity" or "decide"
          tgLog,      \* the log, every record durable
          tgIndexed,  \* the LSNs applied to the live views
          tgViews,    \* the live views: [edges, versions, mappings, canonical]
          tgSnapshot, \* the views in the checkpoint, or TgNoSnapshot
          tgMark,     \* watermarks.json: LSNs below it are in the checkpoint
          tgSaving,   \* what a checkpoint writes next, "snapshot" or "watermarks", or "nothing"
          tgDecide,   \* [decider -> what it still has to append, or TgIdle]
          tgCrashes
tgVars == <<tgSubject, tgLog, tgIndexed, tgViews, tgSnapshot, tgMark, tgSaving, tgDecide, tgCrashes>>

Stances == {"support", "refute"}  \* a hypothesis of each
Never == -1
TgLatest == TgMaxLog
TgIdle == [pc |-> "idle", todo |-> {}]
TgHead == Len(tgLog)
-----------------------------------------------------------------------------
(* TemporalGraph.  An edge has its interval, open when to is Never, and    *)
(* the intervals closed before; it does not exist when from is Never.      *)

NoEdge == [from |-> Never, to |-> Never, closed_intervals |-> <<>>]
AliveIn(from, to, at) == from # Never /\ from <= at /\ (to = Never \/ at < to)
alive_at(edge, at) ==
    \/ AliveIn(edge.from, edge.to, at)
    \/ \E i \in DOMAIN edge.closed_intervals :
           AliveIn(edge.closed_intervals[i][1], edge.closed_intervals[i][2], at)

\* (mutant: a closed edge starts again and its past is lost)
Reopened_without_past(edge, lsn) ==
    IF edge.from # Never /\ edge.to = Never THEN edge
    ELSE [from |-> lsn, to |-> Never, closed_intervals |-> edge.closed_intervals]
\* upsert_edge, the topology: an open edge stays, a closed one starts a new interval.
Reopened(edge, lsn) ==
    IF edge.from # Never /\ edge.to = Never THEN edge
    ELSE [from |-> lsn, to |-> Never,
          closed_intervals |-> IF edge.from = Never THEN <<>>
                               ELSE Append(edge.closed_intervals, <<edge.from, edge.to>>)]
\* upsert_edge: of two versions of a hypothesis the first one applied stays.
upsert_edge(views, e, stance, lsn) ==
    [views EXCEPT !.versions[e][stance] = IF @ = Never THEN lsn ELSE @,
                  !.edges[e] = Reopened(@, lsn)]
close_edge(views, e, lsn) ==
    [views EXCEPT !.edges[e].to = IF views.edges[e].from # Never /\ @ = Never THEN lsn ELSE @]

hypotheses_at(views, e, at) == {s \in Stances : views.versions[e][s] \in 0..at}
\* The belief with confidences well above one half: more support than refutation.
believed(views, e, at) ==
    alive_at(views.edges[e], at) /\ hypotheses_at(views, e, at) = {"support"}
-----------------------------------------------------------------------------
(* EntityResolver.  A canonical id is <<key, lsn of the split>>, or        *)
(* <<key, Never>>; the group of an id is the keys that have it.            *)

IdBefore(x, y) == x[1] < y[1] \/ (x[1] = y[1] /\ x[2] <= y[2])
NoId == <<>>
Interval(id, from) == [id |-> id, from |-> from, to |-> Never]
\* close_open and the push of a new interval.
Assigned(views, key, id, lsn) ==
    LET old == views.mappings[key]
        last == Len(old)
        closed == IF last > 0 /\ old[last].to = Never THEN [old EXCEPT ![last].to = lsn] ELSE old
    IN  [views EXCEPT !.mappings[key] = Append(closed, Interval(id, lsn)), !.canonical[key] = id]
ensure_canonical(views, key, lsn) ==
    IF views.canonical[key] # NoId THEN views
    ELSE [views EXCEPT !.mappings[key] = Append(@, Interval(<<key, Never>>, lsn)),
                       !.canonical[key] = <<key, Never>>]
merge_keys(views, a, b, lsn) ==
    LET both == ensure_canonical(ensure_canonical(views, a, lsn), b, lsn)
        ca == both.canonical[a]
        cb == both.canonical[b]
        survivor == IF IdBefore(ca, cb) THEN ca ELSE cb
        other == IF IdBefore(ca, cb) THEN cb ELSE ca
        members == SetToSeq({k \in TgKeys : both.canonical[k] = other})
    IN  IF ca = cb THEN both
        ELSE FoldLeft(LAMBDA v, k : Assigned(v, k, survivor, lsn), both, members)
split_key(views, key, lsn) ==
    IF views.canonical[key] \in {NoId, <<key, lsn>>} THEN views
    ELSE Assigned(views, key, <<key, lsn>>, lsn)

\* resolve: the first interval that contains the point.
resolve(views, key, at) ==
    LET found == {i \in DOMAIN views.mappings[key] :
                     AliveIn(views.mappings[key][i].from, views.mappings[key][i].to, at)}
    IN  IF found = {} THEN NoId ELSE views.mappings[key][Min(found)].id
-----------------------------------------------------------------------------
(* The fold.                                                               *)

EmptyViews == [edges |-> [e \in TgEdges |-> NoEdge],
               versions |-> [e \in TgEdges |-> [s \in Stances |-> Never]],
               mappings |-> [k \in TgKeys |-> <<>>],
               canonical |-> [k \in TgKeys |-> NoId]]
TgNoSnapshot == [EmptyViews EXCEPT !.edges = <<>>]
apply_episode(views, lsn) ==
    LET ep == tgLog[lsn + 1]
    IN  CASE ep.op = "assert" -> upsert_edge(views, ep.edge, ep.stance, lsn)
          [] ep.op = "retract" -> close_edge(views, ep.edge, lsn)
          [] ep.op = "mention" -> ensure_canonical(views, ep.key, lsn)
          [] ep.op = "merge" -> merge_keys(views, ep.key, ep.with, lsn)
          [] ep.op = "split" -> split_key(views, ep.key, lsn)
          [] ep.op = "action" -> views
\* catch_up and rebuild: the records [from, to) in LSN order.
TgReplayed(views, from, to) ==
    FoldLeft(apply_episode, views, [i \in 1..(to - from) |-> from + i - 1])

Records ==
    CASE tgSubject = "identity" ->
            [op : {"mention", "split"}, key : TgKeys]
            \cup {r \in [op : {"merge"}, key : TgKeys, with : TgKeys] : r.key < r.with}
      [] tgSubject = "edges" ->
            LET e == CHOOSE e \in TgEdges : TRUE
            IN  [op : {"assert"}, edge : {e}, stance : Stances]
                \cup {[op |-> "retract", edge |-> e]}
      [] OTHER -> [op : {"assert"}, edge : TgEdges, stance : Stances]
                  \cup [op : {"retract"}, edge : TgEdges]
-----------------------------------------------------------------------------
TgInit ==
    /\ tgSubject \in {"edges", "identity", "decide"}
    /\ tgLog = <<>> /\ tgIndexed = {} /\ tgViews = EmptyViews
    /\ tgSnapshot = TgNoSnapshot /\ tgMark = 0 /\ tgSaving = "nothing"
    /\ tgDecide = [d \in TgDeciders |-> TgIdle]
    /\ tgCrashes = 0

TgAppend(r) ==
    /\ TgHead < TgMaxLog
    /\ (TgOrdered /\ tgSubject # "decide") => tgIndexed = 0..(TgHead - 1)
    /\ tgLog' = Append(tgLog, r)
    /\ UNCHANGED <<tgSubject, tgIndexed, tgViews, tgSnapshot, tgMark, tgSaving, tgDecide, tgCrashes>>

\* ViewRegistry::apply, under the registry's mutex.
TgApply(lsn) ==
    /\ tgSubject # "decide" /\ tgSaving = "nothing"
    /\ lsn \notin tgIndexed /\ (TgOrdered => 0..(lsn - 1) \subseteq tgIndexed)
    /\ tgViews' = apply_episode(tgViews, lsn)
    /\ tgIndexed' = tgIndexed \cup {lsn}
    /\ UNCHANGED <<tgSubject, tgLog, tgSnapshot, tgMark, tgSaving, tgDecide, tgCrashes>>

\* ViewRegistry::checkpoint, under the same mutex: the snapshots, then the watermarks.
TgSnapshotViews ==
    /\ tgSaving # "watermarks" /\ tgIndexed # {}
    /\ tgSaving = "nothing" => tgSnapshot # tgViews
    /\ tgSnapshot' = tgViews /\ tgSaving' = "watermarks"
    /\ UNCHANGED <<tgSubject, tgLog, tgIndexed, tgViews, tgMark, tgDecide, tgCrashes>>
persist_watermarks ==
    /\ tgSaving = "watermarks"
    /\ tgMark' = Max(tgIndexed) + 1 /\ tgSaving' = "nothing"
    /\ UNCHANGED <<tgSubject, tgLog, tgIndexed, tgViews, tgSnapshot, tgDecide, tgCrashes>>

\* A crash and the next boot: restore and catch_up to the head, which writes the
\* watermarks; a checkpoint follows.
TgCrash ==
    /\ tgCrashes < TgMaxCrashes /\ (tgSaving = "nothing" \/ TgTorn)
    /\ tgCrashes' = tgCrashes + 1
    /\ tgViews' = IF tgSnapshot = TgNoSnapshot THEN TgReplayed(EmptyViews, 0, TgHead)
                  ELSE TgReplayed(tgSnapshot, tgMark, TgHead)
    /\ tgIndexed' = 0..(TgHead - 1) /\ tgMark' = TgHead
    /\ tgSaving' = IF TgHead = 0 THEN "nothing" ELSE "snapshot"
    /\ tgDecide' = [d \in TgDeciders |-> TgIdle]
    /\ UNCHANGED <<tgSubject, tgLog, tgSnapshot>>
-----------------------------------------------------------------------------
(* DECIDE: a graph of the records below the bound, the rule flag_fraud     *)
(* over it, less the actions already among those records; then an append   *)
(* for each, the last of which ends the call.                              *)

ActionIds(bound) == {tgLog[i].edge : i \in {j \in 1..bound : j <= TgHead /\ tgLog[j].op = "action"}}
\* (mutant: the actions already taken are not looked up)
Decisions_unchecked(bound) ==
    LET g == TgReplayed(EmptyViews, 0, Min({bound, TgHead}))
    IN  {e \in TgEdges : believed(g, e, TgLatest)}
Decisions(bound) ==
    LET g == TgReplayed(EmptyViews, 0, Min({bound, TgHead}))
    IN  {e \in TgEdges : believed(g, e, TgLatest)} \ ActionIds(bound)

TgDecide(d) ==
    /\ tgSubject = "decide" /\ tgDecide[d] = TgIdle
    /\ \E bound \in TgBounds \cup {TgHead} :
        /\ Decisions(bound) # {}
        /\ tgDecide' = [tgDecide EXCEPT ![d] = [pc |-> "append", todo |-> Decisions(bound)]]
    /\ UNCHANGED <<tgSubject, tgLog, tgIndexed, tgViews, tgSnapshot, tgMark, tgSaving, tgCrashes>>

TgAct(d) ==
    /\ tgDecide[d] # TgIdle /\ TgHead < TgMaxLog
    /\ \E e \in tgDecide[d].todo :
        /\ tgLog' = Append(tgLog, [op |-> "action", edge |-> e])
        /\ tgDecide' = [tgDecide EXCEPT ![d] =
                            IF @.todo = {e} THEN TgIdle ELSE [@ EXCEPT !.todo = @ \ {e}]]
    /\ UNCHANGED <<tgSubject, tgIndexed, tgViews, tgSnapshot, tgMark, tgSaving, tgCrashes>>

TgNext == \/ \E r \in Records : TgAppend(r)
          \/ \E lsn \in 0..(TgHead - 1) : TgApply(lsn)
          \/ TgSnapshotViews \/ persist_watermarks \/ TgCrash
          \/ \E d \in TgDeciders : TgDecide(d) \/ TgAct(d)
TgSpec == TgInit /\ [][TgNext]_tgVars
-----------------------------------------------------------------------------
Answers(views, at) == [alive |-> {e \in TgEdges : alive_at(views.edges[e], at)},
                       hypotheses |-> [e \in TgEdges |-> hypotheses_at(views, e, at)],
                       entity |-> [k \in TgKeys |-> resolve(views, k, at)]]

(* Time travel is exact: once every record is indexed, what the live views *)
(* answer AS OF any LSN is what views built from the records below it      *)
(* alone would answer at their head, through re-asserted edges, merges and *)
(* splits, checkpoints, crashes and replays.  ("AS OF before a merge sees  *)
(* the entities apart, after sees them as one.  A re-merge or re-split is  *)
(* idempotent - replay is deterministic", entity.rs.)                      *)
TimeTravelExact ==
    (tgSubject # "decide" /\ tgIndexed = 0..(TgHead - 1)) =>
        \A p \in 0..(TgHead - 1) :
            Answers(tgViews, p) = Answers(TgReplayed(EmptyViews, 0, p + 1), TgLatest)

(* An action is taken once, whatever DECIDEs run and whatever crash cuts   *)
(* one short.  ("re-evaluating never emits a duplicate", decision.rs.)     *)
ActionsOnce ==
    \A i, j \in DOMAIN tgLog :
        (i # j /\ tgLog[i].op = "action") => tgLog[i] # tgLog[j]
=============================================================================
