------------------------------ MODULE Memtable ------------------------------
(***************************************************************************)
(* heraclitus-memtable: the newest episodes in RAM, with an overlay of the *)
(* edges from their parents, and the part of the server that feeds it:     *)
(* index_applied enters an episode in the memtable and then in the views   *)
(* (heraclitus-server/src/engine.rs:398), shred empties it and rebuilds    *)
(* the views from the log (:1222).  Appenders run concurrently.  An        *)
(* episode is its LSN; its parents are among the episodes of mtParents.    *)
(***************************************************************************)
EXTENDS Integers, Sequences, FiniteSets, SequencesExt, Selections

CONSTANTS MtAppenders,  \* threads in index_applied
          MtCap,        \* memtable_cap
          MtMaxLsn,     \* bound: episodes
          MtMaxClears,  \* bound: shreds
          MtClearRaces  \* whether an apply may fall between the two halves of clear

ASSUME MtAssumption == MtCap \in Nat /\ MtMaxLsn \in Nat /\ MtMaxClears \in Nat

VARIABLES mtLog,       \* the log: sequence of the parents of each episode
          mtEntries,   \* the tail: a sequence of LSNs
          mtAdjacency, \* [parent -> sequence of children], without empty ones
          mtViews,     \* LSNs the views have
          mtCall,      \* [appender -> [pc, lsn]]
          mtReturned,  \* LSNs whose append has returned
          mtClear,     \* where the shred stands
          mtClears
mtVars == <<mtLog, mtEntries, mtAdjacency, mtViews, mtCall, mtReturned, mtClear, mtClears>>

MtParents == {<<>>, <<1>>, <<1, 2>>}
MtNoEdges == [p \in 1..2 |-> <<>>]
MtNone == [pc |-> "none", lsn |-> 0]

MtInit == /\ mtLog = <<>> /\ mtEntries = <<>> /\ mtAdjacency = MtNoEdges
          /\ mtViews = {} /\ mtReturned = {} /\ mtClear = "none" /\ mtClears = 0
          /\ mtCall = [a \in MtAppenders |-> MtNone]

\* The log gives the episode its LSN; LSNs start at 1 here.
MtAppend(a) ==
    /\ mtCall[a].pc = "none" /\ Len(mtLog) < MtMaxLsn
    /\ \E parents \in MtParents : mtLog' = Append(mtLog, parents)
    /\ mtCall' = [mtCall EXCEPT ![a] = [pc |-> "memtable", lsn |-> Len(mtLog) + 1]]
    /\ UNCHANGED <<mtEntries, mtAdjacency, mtViews, mtReturned, mtClear, mtClears>>

HasParent(lsn, p) == \E i \in DOMAIN mtLog[lsn] : mtLog[lsn][i] = p
\* (mutant: the rows of an evicted episode stay)
forget_adjacency_not(adj, lsn) == adj
forget_adjacency(adj, lsn) ==
    [p \in DOMAIN adj |-> IF HasParent(lsn, p)
                          THEN SelectAt(adj[p], {i \in DOMAIN adj[p] : adj[p][i] # lsn})
                          ELSE adj[p]]

\* Memtable::apply, under the write lock of the entries.  The eviction never
\* takes more than one episode, for every apply adds one.
mt_apply(a) ==
    LET lsn == mtCall[a].lsn
        entries == Append(mtEntries, lsn)
        added == [p \in DOMAIN mtAdjacency |->
                     IF HasParent(lsn, p) THEN Append(mtAdjacency[p], lsn) ELSE mtAdjacency[p]]
    IN  /\ mtCall[a].pc = "memtable" /\ (MtClearRaces \/ mtClear # "adjacency")
        /\ IF Len(entries) <= MtCap
           THEN mtEntries' = entries /\ mtAdjacency' = added
           ELSE /\ mtEntries' = Tail(entries)
                /\ mtAdjacency' = forget_adjacency(added, Head(entries))
        /\ mtCall' = [mtCall EXCEPT ![a].pc = "views"]
        /\ UNCHANGED <<mtLog, mtViews, mtReturned, mtClear, mtClears>>

\* The views, under their own mutex, and the return of the append.
MtViewsApply(a) ==
    /\ mtCall[a].pc = "views"
    /\ mtViews' = mtViews \cup {mtCall[a].lsn}
    /\ mtReturned' = mtReturned \cup {mtCall[a].lsn}
    /\ mtCall' = [mtCall EXCEPT ![a] = MtNone]
    /\ UNCHANGED <<mtLog, mtEntries, mtAdjacency, mtClear, mtClears>>

\* Memtable::clear empties the entries and then, without their lock, the overlay.
mt_clear ==
    /\ mtClear = "none" /\ mtClears < MtMaxClears
    /\ mtClears' = mtClears + 1
    /\ mtEntries' = <<>> /\ mtClear' = "adjacency"
    /\ UNCHANGED <<mtLog, mtAdjacency, mtViews, mtCall, mtReturned>>
MtClearOverlay ==
    /\ mtClear = "adjacency"
    /\ mtAdjacency' = MtNoEdges /\ mtClear' = "rebuild"
    /\ UNCHANGED <<mtLog, mtEntries, mtViews, mtCall, mtReturned, mtClears>>
\* ViewRegistry::rebuild, under the mutex of the views: what the log has now.
MtRebuild ==
    /\ mtClear = "rebuild"
    /\ mtViews' = DOMAIN mtLog /\ mtClear' = "none"
    /\ UNCHANGED <<mtLog, mtEntries, mtAdjacency, mtCall, mtReturned, mtClears>>

MtNext == \/ \E a \in MtAppenders : MtAppend(a) \/ mt_apply(a) \/ MtViewsApply(a)
          \/ mt_clear \/ MtClearOverlay \/ MtRebuild
MtSpec == MtInit /\ [][MtNext]_mtVars
-----------------------------------------------------------------------------
\* children_of: the edges the overlay must hold for the tail as it is.
TailChildren(p) == {lsn \in Range(mtEntries) : HasParent(lsn, p)}

(***************************************************************************)
(* The overlay holds exactly the edges of the tail, and a returned append  *)
(* is in the tail or in the views: neither an eviction nor a clear leaves  *)
(* an edge of an episode that is gone, or takes one of an episode that is  *)
(* there, with appenders applying in another order than their LSNs         *)
(* (heraclitus-memtable/src/lib.rs:43-59, :76).                            *)
(***************************************************************************)
OverlayExact ==
    /\ mtClear # "adjacency" =>
          \A p \in DOMAIN mtAdjacency : /\ Range(mtAdjacency[p]) = TailChildren(p)
                                        /\ Len(mtAdjacency[p]) = Cardinality(TailChildren(p))
    /\ mtReturned \subseteq mtViews \cup Range(mtEntries)

(***************************************************************************)
(* "Everything that leaves here is already indexed" (heraclitus-memtable/  *)
(* src/lib.rs:51).  With one appender it holds; with two, one that is slow *)
(* to enter the views loses its episode to the evictions of the other.     *)
(***************************************************************************)
EvictedIsIndexed ==
    mtClears = 0 =>
        \A lsn \in DOMAIN mtLog : 
            (\A a \in MtAppenders : mtCall[a] # [pc |-> "memtable", lsn |-> lsn])
                => lsn \in mtViews \cup Range(mtEntries)
=============================================================================
