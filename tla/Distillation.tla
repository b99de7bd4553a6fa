---------------------------- MODULE Distillation ----------------------------
(***************************************************************************)
(* Engine::distill_tick (heraclitus-server/src/engine.rs:773) over the     *)
(* clustering of heraclitus-distill/src/lib.rs: a tick reads a window of   *)
(* the log from the cursor on, appends one fact per stable cluster of its  *)
(* observations, and only then moves the cursor and saves it.  Appends go  *)
(* on meanwhile, any append of a fact may fail, and the process may die;   *)
(* a power loss also takes what the log has not fsynced.                   *)
(*                                                                         *)
(* A record is [id, topic, members]: an observation of a topic, or a fact  *)
(* (topic Fact) with the observations it was derived from.  A cluster is   *)
(* the observations of one topic in one window.  Two history variables say *)
(* what the windows had that the cursor has been moved past.               *)
(***************************************************************************)
EXTENDS Integers, Sequences, FiniteSets, Selections

CONSTANTS DsTickers,     \* callers of distill_tick (the server's task is the only one)
          DsTopics,      \* topics of observations
          DsMinCluster,  \* min_cluster
          DsMaxFacts,    \* max_facts_per_run
          DsWindow,      \* the cap of a window (QUERY_SCAN_CAP)
          DsMaxLog,      \* bound: records in the log
          DsMaxCrashes,  \* bound: crashes
          DsSyncs        \* whether an append returns only after its fsync

ASSUME DsAssumption ==
  /\ DsMinCluster \in Nat /\ DsMaxFacts \in Nat /\ DsWindow \in Nat /\ DsMaxLog \in Nat
  /\ IsFiniteSet(DsTopics) /\ "fact" \notin DsTopics /\ DsSyncs \in BOOLEAN

VARIABLES dsLog,     \* the log: LSN n is entry n + 1
          dsIds,     \* records appended so far, those a crash lost included
          dsSynced,  \* how much of the log has been fsynced
          dsCursor,  \* RAM: distill_cursor
          dsFile,    \* disk: distill.cursor
          dsTick,    \* [ticker -> [pc, facts still to append, window: from, next cursor]]
          dsSeen,    \* history: the LSNs of the windows a tick moved the cursor past
          dsOwed,    \* history: the clusters there that a fact is owed for
          dsCrashes
dsPassed == <<dsSeen, dsOwed>>
dsVars == <<dsLog, dsIds, dsSynced, dsCursor, dsFile, dsTick, dsPassed, dsCrashes>>

Fact == "fact"
DsIdle == [pc |-> "idle", facts |-> <<>>, window |-> [from |-> 0, next |-> 0]]
DsInit == /\ dsLog = <<>> /\ dsIds = 0 /\ dsSynced = 0 /\ dsCursor = 0 /\ dsFile = 0
          /\ dsTick = [t \in DsTickers |-> DsIdle] /\ dsSeen = {} /\ dsOwed = {} /\ dsCrashes = 0

\* An append, and the fsync it waits for or that comes later.
DsAppended(topic, members) ==
    /\ Len(dsLog) < DsMaxLog
    /\ dsIds' = dsIds + 1
    /\ dsLog' = Append(dsLog, [id |-> dsIds', topic |-> topic, members |-> members])
    /\ dsSynced' = IF DsSyncs THEN Len(dsLog') ELSE dsSynced
DsObserve == /\ \E topic \in DsTopics : DsAppended(topic, {})
             /\ UNCHANGED <<dsCursor, dsFile, dsTick, dsPassed, dsCrashes>>
DsSync == /\ dsSynced' = Len(dsLog)
          /\ UNCHANGED <<dsLog, dsIds, dsCursor, dsFile, dsTick, dsPassed, dsCrashes>>

\* What a tick reads, the clusters of a window and the observations of each.
NextWindow == [from |-> dsCursor,
               next |-> IF dsCursor + DsWindow < Len(dsLog) THEN dsCursor + DsWindow ELSE Len(dsLog)]
lsns(w) == w.from..(w.next - 1)
cluster(w, topic) == {lsn \in lsns(w) : dsLog[lsn + 1].topic = topic}
provenance(w, topic) == {dsLog[lsn + 1].id : lsn \in cluster(w, topic)}
Large(w, topic) == Cardinality(cluster(w, topic)) >= DsMinCluster

\* distill_episodes: the clusters that are large enough, in the order of their
\* first members, as many as a run may emit.
distill_episodes(w) ==
    LET topics == [i \in 1..(w.next - w.from) |-> dsLog[w.from + i].topic]
        firsts == {i \in DOMAIN topics :
                    topics[i] # Fact /\ \A j \in 1..(i - 1) : topics[j] # topics[i]}
        large == SelectAt([i \in DOMAIN topics |-> provenance(w, topics[i])],
                          {i \in firsts : Large(w, topics[i])})
    IN  SubSeq(large, 1, IF Len(large) < DsMaxFacts THEN Len(large) ELSE DsMaxFacts)

distill_tick(t) ==
    /\ dsTick[t].pc = "idle" /\ dsCursor < Len(dsLog)
    /\ dsTick' = [dsTick EXCEPT ![t] = [pc |-> "append", facts |-> distill_episodes(NextWindow),
                                        window |-> NextWindow]]
    /\ UNCHANGED <<dsLog, dsIds, dsSynced, dsCursor, dsFile, dsPassed, dsCrashes>>

\* One fact after the other; a failed append ends the tick.
DsAppendFact(t) ==
    /\ dsTick[t].pc = "append"
    /\ dsTick[t].facts # <<>>
    /\ \/ /\ DsAppended(Fact, Head(dsTick[t].facts))
          /\ dsTick' = [dsTick EXCEPT ![t].facts = Tail(@)]
       \/ dsTick' = [dsTick EXCEPT ![t] = DsIdle] /\ UNCHANGED <<dsLog, dsIds, dsSynced>>
    /\ UNCHANGED <<dsCursor, dsFile, dsPassed, dsCrashes>>

\* A window owes a fact for a large cluster, unless as many as a run may emit
\* began before it.
Sooner(w, topic) ==
    {other \in DsTopics : Large(w, other)
        /\ \E lsn \in cluster(w, other) : \A mine \in cluster(w, topic) : lsn < mine}
Owed(w) ==
    {provenance(w, topic) : topic \in
        {large \in DsTopics : /\ cluster(w, large) # {} /\ Large(w, large)
                              /\ Cardinality(Sooner(w, large)) < DsMaxFacts}}

\* (mutant: the cursor moves while facts are still to be appended)
FactsDone_any(t) == dsTick[t].pc = "append"
FactsDone(t) == dsTick[t].facts = <<>>
DsStoreCursor(t) ==
    /\ dsTick[t].pc = "append" /\ FactsDone(t)
    /\ dsCursor' = dsTick[t].window.next
    /\ dsSeen' = dsSeen \cup lsns(dsTick[t].window)
    /\ dsOwed' = dsOwed \cup Owed(dsTick[t].window)
    /\ dsTick' = [dsTick EXCEPT ![t].pc = "save"]
    /\ UNCHANGED <<dsLog, dsIds, dsSynced, dsFile, dsCrashes>>
\* The write and rename of the file are best effort.
DsSaveCursor(t) ==
    /\ dsTick[t].pc = "save"
    /\ dsFile' \in {dsTick[t].window.next, dsFile}
    /\ dsTick' = [dsTick EXCEPT ![t] = DsIdle]
    /\ UNCHANGED <<dsLog, dsIds, dsSynced, dsCursor, dsPassed, dsCrashes>>

\* The process or the power fails; the next boot reads the cursor file.
DsCrash ==
    /\ dsCrashes < DsMaxCrashes /\ dsCrashes' = dsCrashes + 1
    /\ \E n \in dsSynced..Len(dsLog) : dsLog' = SubSeq(dsLog, 1, n)
    /\ dsSynced' = Len(dsLog')
    /\ dsCursor' = dsFile
    /\ dsTick' = [t \in DsTickers |-> DsIdle]
    /\ UNCHANGED <<dsIds, dsFile, dsPassed>>

DsNext == \/ DsObserve \/ DsSync \/ DsCrash
          \/ \E t \in DsTickers : \/ distill_tick(t) \/ DsAppendFact(t)
                                  \/ DsStoreCursor(t) \/ DsSaveCursor(t)
DsSpec == DsInit /\ [][DsNext]_dsVars
-----------------------------------------------------------------------------
Emitted(members) == \E i \in DOMAIN dsLog : dsLog[i].topic = Fact /\ dsLog[i].members = members

(***************************************************************************)
(* The cursor, in RAM or saved, passes nothing that a tick has not read,   *)
(* and every fact owed for a window it has passed is in the log, with all  *)
(* the observations of the cluster as its provenance: also after failed    *)
(* appends, ticks that overlap and crashes ("never loses data",            *)
(* engine.rs:797).  Observations in clusters that are too small or past    *)
(* max_facts_per_run are passed without a fact, as the code has it.  It    *)
(* needs DsSyncs: if a power loss takes acknowledged records, the cursor   *)
(* file may be ahead of the log, and the observations that get the LSNs    *)
(* below it are never read.                                                *)
(***************************************************************************)
NothingSkipped ==
    /\ \A lsn \in 0..(Len(dsLog) - 1) : lsn < dsCursor \/ lsn < dsFile => lsn \in dsSeen
    /\ \A members \in dsOwed : Emitted(members)
=============================================================================
