----------------------------- MODULE RaftStorage -----------------------------
(***************************************************************************)
(* What one replica of the cluster keeps, and how it comes back: the raft  *)
(* log FileRaftLog of heraclitus-raft/src/durable.rs and the state machine *)
(* EpisodeStateMachine of heraclitus-raft/src/consensus.rs, whose state is *)
(* the episode log itself.                                                 *)
(*                                                                         *)
(* openraft, which elects, replicates and decides what is committed, is    *)
(* outside: the committed entries are the constant Chosen, and openraft is *)
(* the three tasks that call this code in the order it promises.  The core *)
(* (variable core) writes the raft log and its meta file one call at a     *)
(* time, the worker (variable work) applies batches and installs           *)
(* snapshots, and snapshots are built at any moment the mutex of the state *)
(* machine allows.  Power may fail between any two writes.                 *)
(***************************************************************************)
EXTENDS Integers, Sequences, FiniteSets, SequencesExt, FiniteSetsExt

CONSTANTS
  Chosen,      \* the committed entries: "blank", "member" or "normal", from index 0
  Scenarios    \* bound: what may happen in a behaviour, see Scenario

Nothing == -1
Indexes == 0..(Len(Chosen) - 1)
Kind(i) == Chosen[i + 1]

\* What the environment of one behaviour may do: the FsyncPolicy of the
\* episode log, the last indexes of the snapshots a leader sends, whether
\* snapshots are built and entries of a deposed leader appended, whether power
\* may fail in the middle of an installation; and how many votes, boots, and
\* records in the file at an append.
Scenario == [policy : {"always", "group"}, snapshots : SUBSET Indexes,
             builds : BOOLEAN, stale : BOOLEAN, tornInstall : BOOLEAN,
             votes : Nat, opens : Nat, records : Nat]

ASSUME RaftAssumption ==
  /\ Chosen \in Seq({"blank", "member", "normal"})
  /\ Scenarios \subseteq Scenario

VARIABLES
  wal,        \* disk: the records of entries.wal
  torn,       \* the last record of entries.wal is still being written
  meta_file,  \* disk: meta.bin, vote and committed
  sm_file,    \* disk: sm_meta.bin, applied, membership and normals
  log,        \* the episode log: the entry each episode came from, by LSN
  synced,     \* disk: how much of the episode log is fsynced
  raft_log,   \* RAM: Inner::entries and last_purged
  meta,       \* RAM: Inner::meta
  st,         \* RAM: SmState: applied, membership, normals, skip_normals
  snapshot,   \* RAM: SmState::current_snapshot
  core,       \* openraft's core: the writes its current call has left
  work,       \* the worker's batch or snapshot
  mode,       \* "down", "starting", "up" or "refused"
  opens,      \* boots so far
  granted,    \* the votes this replica has answered with
  scenario    \* the scenario of this behaviour

disk == <<wal, torn, meta_file>>
machine == <<sm_file, log, synced, st>>
env == <<opens, granted, scenario>>
vars == <<disk, machine, raft_log, meta, snapshot, core, work, mode, env>>
-----------------------------------------------------------------------------
(* Values.                                                                 *)

\* The entries with an episode among those up to index i, in order, and the
\* last entry that changed the membership.
NormalsTo(i) == SelectSeq([k \in 1..(i + 1) |-> k - 1], LAMBDA j : Kind(j) = "normal")
MemberTo(i) == Max({Nothing} \cup {j \in 0..i : Kind(j) = "member"})

Insert(i, good) == [rec |-> "insert", index |-> i, good |-> good]
Truncate(i) == [rec |-> "truncate", index |-> i, good |-> TRUE]
Purge(i) == [rec |-> "purge", index |-> i, good |-> TRUE]

EmptyLog == [entries |-> {}, purged |-> Nothing]
EmptyMeta == [vote |-> 0, committed |-> Nothing]
EmptySm == [applied |-> Nothing, membership |-> Nothing, normals |-> 0]
EmptyState == [applied |-> Nothing, membership |-> Nothing, normals |-> 0, skip |-> 0]
NoSnapshot == [last |-> Nothing, membership |-> Nothing, payload |-> <<>>]
Idle == [op |-> "idle", next |-> 0, upto |-> Nothing, appended |-> FALSE,
         snap |-> NoSnapshot]

Init ==
  /\ wal = <<>> /\ torn = FALSE /\ meta_file = EmptyMeta
  /\ sm_file = EmptySm /\ log = <<>> /\ synced = 0
  /\ raft_log = EmptyLog /\ meta = EmptyMeta /\ st = EmptyState
  /\ snapshot = NoSnapshot
  /\ core = <<>> /\ work = Idle /\ mode = "down" /\ opens = 0 /\ granted = 0
  /\ scenario \in Scenarios
-----------------------------------------------------------------------------
(* The raft log.                                                           *)

\* What a record does to the log, in the calls and in the replay alike.
Remembered(rl, r) ==
  CASE r.rec = "insert" ->
         [rl EXCEPT !.entries = {e \in @ : e.index # r.index} \cup {[index |-> r.index, good |-> r.good]}]
    [] r.rec = "truncate" -> [rl EXCEPT !.entries = {e \in @ : e.index < r.index}]
    [] r.rec = "purge" ->
         [entries |-> {e \in rl.entries : e.index > r.index}, purged |-> r.index]

Replayed(records) == FoldLeft(Remembered, EmptyLog, records)

LastIndex(rl) == Max({rl.purged} \cup {e.index : e \in rl.entries})

Compacted(rl) ==
  LET live == SetToSortSeq(rl.entries, LAMBDA a, b : a.index < b.index)
  IN  (IF rl.purged = Nothing THEN <<>> ELSE <<Purge(rl.purged)>>)
        \o [k \in DOMAIN live |-> Insert(live[k].index, live[k].good)]

\* The replay met a record that a later one undid.
SawCompaction(records) ==
  Cardinality(Replayed(records).entries) < Cardinality({k \in DOMAIN records : records[k].rec = "insert"})

Do(d, r) == <<[do |-> d, rec |-> r]>>
Record(r) == Do("write", r) \o Do("remember", r)

PurgeSteps(i) == Record(Purge(i)) \o Do("rewrite", Purge(i))
-----------------------------------------------------------------------------
(* The calls of openraft's core.                                           *)

\* What openraft counts as committed, and the entries of a deposed leader.
Committed == Max({meta.committed, st.applied})
Conflict == {i \in Indexes : [index |-> i, good |-> FALSE] \in raft_log.entries}
Free == mode = "up" /\ core = <<>>
MachineSame == UNCHANGED <<machine, snapshot, work, mode, opens, scenario>>

\* One or two of the chosen entries that follow, or of a deposed leader's.
append_sync ==
  /\ Free /\ work.op # "install" /\ LastIndex(raft_log) >= st.applied
  /\ Len(wal) < scenario.records
  /\ LET first == LastIndex(raft_log) + 1
     IN  \E last \in first..Min({first + 1, Len(Chosen) - 1}), good \in BOOLEAN :
           /\ good => Conflict = {}
           /\ ~good => scenario.stale
           /\ core' = Record(Insert(first, good))
                       \o (IF last > first THEN Record(Insert(last, good)) ELSE <<>>)
  /\ UNCHANGED <<disk, raft_log, meta, granted>> /\ MachineSame

truncate ==
  /\ Free /\ Conflict # {}
  /\ core' = Record(Truncate(Min(Conflict)))
  /\ UNCHANGED <<disk, raft_log, meta, granted>> /\ MachineSame

\* Up to a snapshot, and so never an entry the worker has not applied.
purge ==
  /\ Free /\ work.op # "install"
  /\ \E i \in (raft_log.purged + 1)..snapshot.last : core' = PurgeSteps(i)
  /\ UNCHANGED <<disk, raft_log, meta, granted>> /\ MachineSame

save_vote ==
  /\ Free /\ meta.vote < scenario.votes
  /\ meta' = [meta EXCEPT !.vote = @ + 1]
  /\ core' = Do("meta", Nothing) \o Do("grant", Nothing)
  /\ UNCHANGED <<disk, raft_log, granted>> /\ MachineSame

\* The new commit index is saved and then the entries are given to the worker.
save_committed ==
  /\ Free /\ work = Idle /\ LastIndex(raft_log) >= st.applied
  /\ \E upto \in (Committed + 1)..Max({e.index : e \in raft_log.entries} \cup {Nothing}) :
       /\ \A i \in (Committed + 1)..upto : [index |-> i, good |-> TRUE] \in raft_log.entries
       /\ meta' = [meta EXCEPT !.committed = upto]
       /\ core' = Do("meta", Nothing) \o Do("apply", upto)
  /\ UNCHANGED <<disk, raft_log, granted>> /\ MachineSame
-----------------------------------------------------------------------------
(* Their writes, in order.                                                 *)

Take(d) == core # <<>> /\ Head(core).do = d /\ core' = Tail(core)
Arg == Head(core).rec

append_record ==
  /\ Take("write") /\ wal' = Append(wal, Arg) /\ torn' = TRUE
  /\ UNCHANGED <<meta_file, raft_log, meta, granted>> /\ MachineSame

\* The record is fsynced; the entries in memory follow.
remember ==
  /\ Take("remember") /\ torn' = FALSE /\ raft_log' = Remembered(raft_log, Arg)
  /\ UNCHANGED <<wal, meta_file, meta, granted>> /\ MachineSame

rewrite_wal ==
  /\ Take("rewrite") /\ wal' = Compacted(raft_log) /\ torn' = FALSE
  /\ UNCHANGED <<meta_file, raft_log, meta, granted>> /\ MachineSame

\* (mutant: the vote stays in memory)
write_meta_committed ==
  /\ Take("meta") /\ meta_file' = [meta_file EXCEPT !.committed = meta.committed]
  /\ UNCHANGED <<wal, torn, raft_log, meta, granted>> /\ MachineSame

\* tmp, fsync, rename, fsync of the directory: one file or the other.
write_meta ==
  /\ Take("meta") /\ meta_file' = meta
  /\ UNCHANGED <<wal, torn, raft_log, meta, granted>> /\ MachineSame

grant ==
  /\ Take("grant") /\ granted' = meta.vote
  /\ UNCHANGED <<disk, raft_log, meta>> /\ MachineSame

Batch(upto) == [Idle EXCEPT !.op = "apply", !.next = st.applied + 1, !.upto = upto]

submit ==
  /\ Take("apply") /\ work' = Batch(Arg)
  /\ UNCHANGED <<disk, machine, raft_log, meta, snapshot, mode, env>>
-----------------------------------------------------------------------------
(* The worker.                                                             *)

\* (mutant: the fsync is left to the group commit)
AppendReplicated_lazy(i) ==
  /\ log' = Append(log, i)
  /\ synced' \in {synced, Len(log) + 1}

\* append_replicated at the head (the hook hands it to module EngineViews);
\* under "always" the episode is fsynced before the call returns.
AppendReplicated(i) ==
  /\ log' = Append(log, i)
  /\ synced' = IF scenario.policy = "always" THEN Len(log) + 1 ELSE synced

\* (mutant: an episode of an interrupted batch is appended once more)
ApplyNormal_again(i) ==
  /\ st' = [st EXCEPT !.normals = @ + 1, !.skip = IF @ > 0 THEN @ - 1 ELSE 0]
  /\ AppendReplicated(i)

\* An episode that a crash left in the log without its sm_meta is not
\* appended again, only counted.
ApplyNormal(i) ==
  /\ st' = [st EXCEPT !.normals = @ + 1, !.skip = IF @ > 0 THEN @ - 1 ELSE 0]
  /\ IF st.skip > 0 THEN UNCHANGED <<log, synced>> ELSE AppendReplicated(i)

Applying == work.op = "apply" /\ work.next <= work.upto

apply_normal ==
  /\ Applying /\ Kind(work.next) = "normal" /\ ~work.appended
  /\ ApplyNormal(work.next)
  /\ work' = [work EXCEPT !.appended = TRUE]
  /\ UNCHANGED <<disk, sm_file, raft_log, meta, snapshot, core, mode, env>>

\* The end of one entry of a batch.
apply ==
  /\ Applying
  /\ Kind(work.next) = "normal" => work.appended
  /\ st' = [st EXCEPT !.applied = work.next,
                      !.membership = IF Kind(work.next) = "member" THEN work.next ELSE @]
  /\ work' = [work EXCEPT !.next = @ + 1, !.appended = FALSE]
  /\ UNCHANGED <<disk, sm_file, log, synced, raft_log, meta, snapshot, core, mode, env>>

Persisted(s) == [applied |-> s.applied, membership |-> s.membership, normals |-> s.normals]

\* (mutant: the batch is not persisted)
persist_nothing ==
  /\ work.op = "apply" /\ work.next > work.upto
  /\ work' = Idle
  /\ UNCHANGED <<disk, machine, raft_log, meta, snapshot, core, mode, env>>

\* The end of a batch, still under the mutex.
persist_sm_meta ==
  /\ work.op = "apply" /\ work.next > work.upto
  /\ sm_file' = Persisted(st) /\ work' = Idle
  /\ UNCHANGED <<disk, log, synced, st, raft_log, meta, snapshot, core, mode, env>>

\* A leader sends a snapshot past what is committed here, after any entry it
\* contradicts is truncated.
receive_snapshot ==
  /\ Free /\ work = Idle
  /\ \E i \in scenario.snapshots :
       /\ i > Committed /\ i \notin Conflict
       /\ work' = [Idle EXCEPT !.op = "install",
                    !.snap = [last |-> i, membership |-> MemberTo(i), payload |-> NormalsTo(i)]]
  /\ UNCHANGED <<disk, machine, raft_log, meta, snapshot, core, mode, env>>

\* One episode of the snapshot that the log does not have, without the mutex.
install_episode ==
  /\ work.op = "install" /\ Len(log) < Len(work.snap.payload)
  /\ AppendReplicated(work.snap.payload[Len(log) + 1])
  /\ UNCHANGED <<disk, sm_file, st, raft_log, meta, snapshot, core, work, mode, env>>

Installed(snap) ==
  [applied |-> snap.last, membership |-> snap.membership, normals |-> Len(log), skip |-> 0]

install_snapshot ==
  /\ work.op = "install" /\ Len(log) >= Len(work.snap.payload)
  /\ st' = Installed(work.snap) /\ sm_file' = Persisted(st')
  /\ snapshot' = work.snap /\ work' = Idle
  /\ UNCHANGED <<disk, log, synced, raft_log, meta, core, mode, env>>

\* GroupCommit: the log's own thread syncs.
log_fsync ==
  /\ mode \in {"starting", "up"} /\ synced < Len(log) /\ synced' = Len(log)
  /\ UNCHANGED <<disk, sm_file, log, st, raft_log, meta, snapshot, core, work, mode, env>>
-----------------------------------------------------------------------------
(* Snapshots.                                                              *)

Snapshot == [last |-> st.applied, membership |-> st.membership, payload |-> log]

\* (mutant: a snapshot is taken in the middle of a batch)
MutexFree_always == TRUE

\* The mutex is held by a batch; an installation takes it only to finish.
MutexFree == work.op # "apply"

build_snapshot ==
  /\ mode = "up" /\ scenario.builds /\ MutexFree /\ st.applied > snapshot.last
  /\ snapshot' = Snapshot
  /\ UNCHANGED <<disk, machine, raft_log, meta, core, work, mode, env>>
-----------------------------------------------------------------------------
(* Crashes and boots.                                                      *)

\* The record being written may be missing or cut short, which the replay
\* drops; of the episode log the synced part is sure to be there.
crash ==
  /\ mode # "down" /\ mode # "refused" /\ opens < scenario.opens
  /\ work.op = "install" => scenario.tornInstall
  /\ wal' \in {wal} \cup (IF torn THEN {Front(wal)} ELSE {})
  /\ \E n \in synced..Len(log) : log' = SubSeq(log, 1, n) /\ synced' = n
  /\ torn' = FALSE /\ raft_log' = EmptyLog /\ meta' = EmptyMeta /\ st' = EmptyState
  /\ snapshot' = NoSnapshot /\ core' = <<>> /\ work' = Idle
  /\ mode' = "down"
  /\ UNCHANGED <<meta_file, sm_file, env>>

Skip == Len(log) - sm_file.normals

\* FileRaftLog::open: the replay, compacted if it met something dead.
open_log ==
  /\ raft_log' = Replayed(wal) /\ meta' = meta_file
  /\ wal' = IF SawCompaction(wal) THEN Compacted(Replayed(wal)) ELSE wal

\* The state machine refuses an episode log that is shorter than its meta says.
open_durable ==
  \/ /\ Len(log) < sm_file.normals
     /\ mode' = "refused" /\ UNCHANGED st
  \/ /\ Len(log) >= sm_file.normals
     /\ mode' = "starting"
     /\ st' = [applied |-> sm_file.applied, membership |-> sm_file.membership,
               normals |-> sm_file.normals, skip |-> Skip]

open ==
  /\ mode = "down" /\ opens < scenario.opens /\ opens' = opens + 1
  /\ open_log /\ open_durable
  /\ UNCHANGED <<torn, meta_file, sm_file, log, synced, snapshot, core, work, granted, scenario>>

Starting == mode = "starting" /\ core = <<>> /\ work = Idle

\* openraft first applies what the meta of the raft log says is committed,
reapply ==
  /\ Starting /\ st.applied < meta.committed
  /\ work' = Batch(meta.committed)
  /\ UNCHANGED <<disk, machine, raft_log, meta, snapshot, core, mode, env>>

\* then it purges a raft log that ends before an installed snapshot,
purge_covered ==
  /\ Starting /\ st.applied >= meta.committed /\ LastIndex(raft_log) < st.applied
  /\ core' = PurgeSteps(st.applied)
  /\ UNCHANGED <<disk, machine, raft_log, meta, snapshot, work, mode, env>>

\* and it rebuilds the snapshot, which was only in memory, if entries are
\* gone that a follower may need.
serve ==
  /\ Starting /\ st.applied >= meta.committed /\ LastIndex(raft_log) >= st.applied
  /\ snapshot' = IF raft_log.purged # Nothing THEN Snapshot ELSE snapshot
  /\ mode' = "up"
  /\ UNCHANGED <<disk, machine, raft_log, meta, core, work, env>>
-----------------------------------------------------------------------------
Core ==
  \/ append_sync \/ truncate \/ purge \/ save_vote \/ save_committed
  \/ append_record \/ remember \/ rewrite_wal \/ write_meta \/ grant \/ submit

Worker ==
  \/ apply_normal \/ apply \/ persist_sm_meta
  \/ receive_snapshot \/ install_episode \/ install_snapshot

Next ==
  \/ Core \/ Worker \/ build_snapshot \/ log_fsync
  \/ crash \/ open \/ reapply \/ purge_covered \/ serve

Spec == Init /\ [][Next]_vars

\* A call that has begun ends, a node that is down is started, and openraft
\* goes through its start.  Crashes, votes, snapshots and the calls the
\* other replicas cause owe nothing.
RaftFairness ==
  /\ WF_vars(append_record \/ remember \/ rewrite_wal \/ write_meta \/ grant \/ submit)
  /\ WF_vars(apply_normal \/ apply \/ persist_sm_meta \/ install_episode \/ install_snapshot)
  /\ WF_vars(open \/ reapply \/ purge_covered \/ serve)
FairSpec == Spec /\ RaftFairness
-----------------------------------------------------------------------------
(* Properties.                                                             *)

Running == mode \in {"starting", "up"}
LastChosen == Len(Chosen) - 1
\* The episode log is the committed episodes in their order: whatever was
\* interrupted, applied again, skipped or installed, no episode is missing,
\* repeated or out of place (apply and install_snapshot, consensus.rs).
EpisodesAreEntries == IsPrefix(log, NormalsTo(LastChosen))

\* Between calls the file says what the memory says: what openraft was told
\* is in the raft log would be there after a crash, and what was truncated or
\* purged would not come back (append_record and rewrite_wal, durable.rs).
WalMirrorsMemory == Running /\ core = <<>> => Replayed(wal) = raft_log /\ ~torn

\* A crash now would find every committed entry that is not yet in sm_meta.bin
\* still in the raft log: none is purged before it is applied durably, none
\* counts as committed before it is there (save_committed, apply and purge).
Recoverable ==
  LET found == Replayed(IF torn THEN Front(wal) ELSE wal)
  IN  /\ found.purged <= sm_file.applied
      /\ \A i \in (sm_file.applied + 1)..meta_file.committed :
           [index |-> i, good |-> TRUE] \in found.entries

\* The snapshot is the committed episodes up to the entry it names, with the
\* membership of that entry: build_snapshot says the pair is captured
\* atomically (consensus.rs).
SnapshotWhole ==
  snapshot.payload = NormalsTo(snapshot.last) /\ snapshot.membership = MemberTo(snapshot.last)

\* Between the snapshot and the raft log nothing committed is lost: what is
\* purged is in a snapshot that is whole, what is not is in the log's file,
\* which between calls says what the memory says.
NothingLost == Recoverable /\ SnapshotWhole /\ WalMirrorsMemory

\* A vote that was answered survives, whatever is saved in the same file
\* afterwards: otherwise a replica votes twice in a term (durable.rs, header).
VoteKept == meta_file.vote >= granted /\ (Running => meta.vote >= granted)

\* A replica that syncs every append can always start again; the error of
\* open_durable is for group commit (consensus.rs).
OpensAgain == scenario.policy = "always" => mode # "refused"

\* What is saved as committed is applied and persisted in the end, through
\* the worker or after a crash at the start of openraft.
CommittedApplied ==
  \A i \in Indexes :
    (meta_file.committed = i) ~> (sm_file.applied >= i \/ mode = "refused")
=============================================================================
