# HeraclitusDB in TLA+

HeraclitusDB (`src/`) is a temporal database whose only source of truth is an
append-only log of episodes; everything that answers a query is a view derived
from that log. This directory models the parts of it whose correctness depends
on interleavings, crashes and order: the log, the derived state of the server
over it, and what a replica of the cluster keeps. Configurations for TLC sit beside the modules and the theorems
about them are checked by TLAPS.

Sections: [inventory](#inventory), [plan](#plan), [modules](#modules),
[runs](#runs), [findings](#what-the-violation-runs-show),
[proofs](#proofs), [limits](#what-is-only-model-checked-and-what-is-not-modelled).

## Inventory

Line counts are of Rust, tests included.

| Part (crate) | State | Operations | Talks to |
|---|---|---|---|
| Hrkl log (`heraclitus-log`, lib.rs, format.rs; 4 000) | segment files, the worker's active segment and batch, `catalog` (sealed and active containers with their LSN index), `committed_lsn`, HLC, command channel | `open`, `append`, `append_stamped`, `append_replicated`, `flush`, `read`, `scan`, `manifest`, `tail_subscribe` | callers through a bounded channel, readers through an `ArcSwap` and an atomic |
| Log subscription (`subscribe.rs`, `grpc.rs`) | position in a broadcast buffer, position of a stream | `attach_subscriber`, the `Subscribe` RPC | the log's worker |
| Log v6 (`heraclitus-log/src/v6`; 10 300) | active raw segment, sealed raw and packed generations, numbered manifests and `CURRENT`, pins | `open`, `append`, `seal_active`, `read`, `pack_pending`, `plan_gc`, `apply_gc`, manifest `load`, `commit`, `prune` | the file system |
| Views (`heraclitus-views`; 400) | registered views, a watermark for each, snapshots, `watermarks.json` | `apply`, `catch_up`, `rebuild`, `checkpoint`, `reset_watermarks` | the log (scans), the engine's mutex |
| Attribute index (`heraclitus-index-attr`; 1 000) | postings, watermark, file | `apply`, `lookup`, `save`, `open` | the engine |
| Engine (`heraclitus-server/src/engine.rs`; 2 800) | all of the above, memtable, idempotency lock, shred marker, distill cursor | `open_with_boot`, `append`, `append_idempotent`, `index_applied`, `checkpoint_views`, `rebuild`, `shred`, `hvm_upsert`, `distill_tick`, tier ticks, queries | log, views, key store, replication router |
| Servers (`heraclitus-server` rest, grpc; cli, client) | connections | requests, periodic checkpoint, graceful shutdown | the engine |
| Consensus storage (`heraclitus-raft`; 3 100) | Raft WAL, vote, `sm_meta`, snapshots | openraft's storage traits | openraft, the log, the engine's apply hook |
| Memtable (260) | the last `cap` episodes, adjacency | `apply`, `prune_below`, `scan` | the engine |
| Snapshots and transactions (`heraclitus-txn`; 330) | pins by head, watermark | `begin`, `release` | nobody (not wired into the server) |
| Bᵋ-tree (`heraclitus-btree`; 2 700) | buffered tree in pages, two superblocks, free list | `upsert`, `delete_key`, `get`, `from_map`, `commit`, `open` | H-VM checkpoints |
| Cold tier (`heraclitus-tier`; 840) | objects, receipts in the log | demote, verify, compact | object store, engine |
| Compliance (`heraclitus-compliance`; 1 600) | last anchored watermark, receipts | `tick`, `anchor`, `verify` | log, time-stamping authority |
| Distillation (`heraclitus-distill`; 260) | cursor | `distill_tick` | engine |
| Encryption (`heraclitus-crypto`; 280) | keys | `seal`, `open`, `shred` | log, engine |
| Core (`heraclitus-core`; 4 000) | HLC, H-VM, artifact registry, epoch-based reclamation, runtime types | | all |
| Graph index (`heraclitus-index-graph`; 2 700) | edges with intervals and hypotheses, keys with canonical ids | `apply_episode`, `alive_at`, `match_edges`, `resolve`, `evaluate` | view registry, queries |
| Other derived indexes: vector 1 400, text 190, activation 340 | in-memory state of a view | `apply`, `reset`, snapshots | view registry |
| Query language (`heraclitus-query`; 6 000) | the reference backend's bundle and zone maps | `plan`, `execute`, `attr_lookup`, `scan_builtin_eq`, `decide` | log, attribute index, graph |
| Analytics (`heraclitus-analytics`) | none that lasts | `compile`, `optimize`, `execute` | the engine, batches of episodes |
| Retrieval, manifold, gpu | none that lasts | numerical kernels | the engine |
| Hume (`hume-ir`, `hume-kernel`, `hume-sketches`; 3 600) | none that lasts | vectorised execution | analytics |
| `heraclitus-wasm`, `heraclitus-proto` | none | bindings | |

`SPEC-NEW/` is documentation and `graphify-out/` is generated.

What is hard, and what makes each part correct:

* **Hrkl log.** One worker thread batches commands: CAS, write, roll to a new
  segment in the middle of a batch, fsync, publish the index, publish the head,
  answer. Readers take no lock. A write can fail half-way; the process or the
  machine can stop at any point, and `open` repairs and re-seals what it finds.
  Correct: every LSN below the head is readable and keeps its meaning, what was
  answered is readable, what was promised survives, LSNs are dense, stamps
  monotone, footers true, no caller waits for ever, and no directory the log
  wrote is refused.
* **Engine and views.** The log and the views are updated in two steps by
  several threads; snapshots, watermarks and the attribute index are files
  written at different moments and read together at the next boot. Correct: the
  derived state is a function of the log, whatever the interleaving and
  wherever the crash; an idempotency key is used once; an erasure is complete.
* **Log v6.** Files are renamed, catalogued and collected in separate steps.
  Correct: `open` accepts what any crash leaves, the catalogue always has an
  authoritative generation for each segment, readers find their file.
* **Consensus storage.** The Raft WAL, the state machine's metadata and the
  episode log become durable at different times. Correct: no episode is applied
  twice or skipped after a crash, and a vote is never forgotten.
* **Memtable, tier, compliance, distillation, keys, subscription.** Cursors,
  receipts, evictions, key files and positions that must agree with what has
  been written elsewhere, by threads that were not waiting for each other.
* **Bᵋ-tree.** The newest message of a key may be in any buffer on its path; a
  page may be given back while the superblock on disk still reaches it.
  Correct: the tree is the map its calls have built, and after a crash the map
  of the last commit.
* **Columnar engines.** One expression runs in three tiers, one set of rows has
  three representations, one column four codecs, one query many plans.
  Correct: nobody can tell which from the result.
* **Queries and the graph.** An access path must find all a scan would, in
  structures others keep; AS OF must answer for ever what a replay to that LSN
  would; an action decided must be taken once.

`PROJECT.json` lists every component with its status and every hazard at its
line.

## Plan

Done, in the order of the plan: the Hrkl log (1 to 3), the engine's derived
state (4), the consensus storage of a replica (5), the v6 engine (6), the small
components (7), the Bᵋ-tree (8), the queries and the temporal graph (9), the
layouts of a v6 segment (10), the wiring of a cluster (11), the H-VM ledger (12), the
columnar engines (13).

1. `EpisodeLog`: the abstract log, one history that grows and promises.
2. `HrklLog`: the worker, open and crashes; `HrklLogRefinement` shows that it
   implements `EpisodeLog`; `HrklLogReaders` adds readers that hold a
   catalogue across worker steps.
3. Proofs: of `HrklLog`, type correctness, answered LSNs below the head, the
   promises, a follower's log, the LSN barrier, footers and the next open, the
   order of stamps, what reads and scans return, and that it implements `EpisodeLog`; the promises of
   `EpisodeLog`; of `EngineViews`, that nothing is left over and nothing missing; of `RaftStorage`,
   that it always starts again and keeps its votes; of `SnapshotPins`,
   `LogSubscription`, `KeyStore`, `ColdTier`, `Memtable`, `Anchoring` and `Distillation`, the
   invariants their runs check; of `Cluster`, that the replicas are one log; of `V6Log`, what it
   keeps and what its readers get.
4. `EngineViews`: engine, views and attribute index over the log's promise.
5. `RaftStorage`: the durable Raft log and the episode state machine under
   openraft, with crashes between any two writes.
6. `V6Log`: the v6 engine with its manifest store, packer and collector, with
   crashes between any two file operations.
7. `KeyStore`, `LogSubscription`, `SnapshotPins`, `Memtable`, `ColdTier`,
   `Anchoring`, `Distillation`: the parts around the log.
8. `BEpsilonTree`: the durable tree as a map, through flushes, splits, merges,
   commits and crashes.
9. `Query`: the access paths of MATCH against a scan; `TemporalGraph`: AS OF
   over edges and identities against a replay, and DECIDE.
10. `V6Segment`: a v6 segment written raw, packed, read, proved and verified.
11. `Cluster`: what a node adds around openraft: its start, the submission
    channel, the connections that carry entries, the stop.
12. `Hvm`: the ledger kept in records of the log, its replays and its checkpoint.
13. `HumeIr`, `HumeKernel`, `Analytics`: filter programs in their three tiers, the
    kernel's data structures, analytical queries from tokens to rows.

Left:

14. An abstract catalogue that always has an authority, as a refinement target
    for `V6Log`; `EngineViews` over `HrklLog` instead of over its promise.
15. Theorems: the invariants about what recursions over data compute
    ([below](#what-is-only-model-checked-and-what-is-not-modelled)).

Modules that are to be proved about use no recursive operator.

## Modules

### EpisodeLog

What `heraclitus-log` promises: `hist`, the committed history; `safe`, how much
of it is promised; `acked`, what has been answered since the log was opened.
A crash may take back a suffix that was not promised, or show episodes that
were being written when it happened.

### HrklLog

| Variable | Code |
|---|---|
| `files` | the segment files in order: header, records, footer, and how much of each is on disk (`dur`, `fdur`) rather than in the page cache |
| `hlc`, `queue`, `committed_lsn`, `catalog` | the fields of `Log` of those names; the first `QueueCap` commands of `queue` are the channel, the others those of callers that wait for a place in it or for `stamp_lock` |
| `pc`, `active`, `batch`, `stash`, `pending`, `flushes`, `sync_required`, `tentative_lsn`, `current_lsn`, `baseline` | the worker's position and locals |
| `waiting` | callers blocked on their answer or on a place |
| `acked`, `promised` | history: what was answered Ok since the last open, and what was promised to survive |

`append`, `append_replicated` and `flush` are the clients' halves of the calls. None
is held up by a full channel: its command waits behind it, and `send_timeout` is the
end of the ten seconds an append waits with the lock (a flush has no timeout).
`recv`, `write_flush`, `reject`, `place`, `roll_seal`, `roll_create`,
`roll_header`, `fsync`, `publish`, `commit` and `ack` are the worker's phases 1
to 6; a roll is three steps because a crash between them leaves different
files. `io_error` is a failed write or fsync with its rollback and the end of
the worker. `open` and `open_header` are `Log::open_with_keystore`.
`process_crash` keeps the page cache; `power_loss` keeps of each file what was
fsynced and any part of the rest, possibly torn. `read` is the lookup in a
catalogue snapshot that `Log::read` does.

Abstractions. A record is its LSN, stamp, id, offset and size; a hash is the
value it hashes. `open` is one step but for the new segment it may create,
since nothing else runs and repairing twice is repairing once. The rollback's
own fsync errors are ignored by the code and make nothing more durable.
Rust's `binary_search` does not say which of several equal keys it finds;
segments that hold no record share their base with the next, and the model
takes the rightmost, which is what the standard library does (the mutant with
the leftmost is caught). The scan that `read` falls back to, saturation of the
HLC, encryption, consensus metadata and bit rot are left out. Callers that wait get
their places in the order in which they came: their stamps are in that order because
of the lock, but the standard library promises it neither of the lock nor of the
channel for flushes among the appends, and `EveryCallAnswered` means less to a caller
that others overtake for ever.

### HrklLogReaders

One reader that loads the head, then the catalogue, and only then walks it
(`scan_capped`), and one that loads them in the order of `Log::manifest`, while
`HrklLog` goes on.

### HrklLogRefinement

The mapping of `HrklLog` to `EpisodeLog`: the history is what the head makes
visible while the log is open and what is on disk while it is not. A run checks it,
and `HrklLogRefinementProofs` proves it.

### EngineViews

| Variable | Code |
|---|---|
| `log`, `synced` | the log as `HrklLog` promises it: a history and how much of it survives a power loss |
| `times`, `watermarks`, `clear` | the views in memory: how often each episode was applied, `ViewRegistry::watermarks`, and which views were given the agent's content in clear |
| `attr` | `AttrIndex`: postings and watermark |
| `ckpt`, `wm_file`, `attr_file`, `marker`, `shredded` | the files under `views/` and the key store |
| `mode`, `op`, `todo`, `rebuilt` | the boot mode, the maintenance operation going on and its remaining steps |
| `call` | what each appender is in the middle of |

`append` and `append_idempotent` put an episode in the log; `index_views` and
`index_attr` are the two halves of `index_applied`, under two mutexes.
`checkpoint_views`, `rebuild`, `shred` and the three boots are programs: `start`
and `open` load them into `todo` and each step is an action, so that appends
and crashes fall between any two. Two views stand for the six: `text`, which
skips an episode it has, and `activation`, which counts.

A shutdown ends the listeners and the timers (`server/src/lib.rs:395–424`), not the
calls that have begun on connection tasks and blocking threads: appends start and
finish beside its checkpoint, and those in flight at `exit` end where they are. Only
a scenario that names an operation `quiet` keeps appends from it.

Abstractions. One maintenance operation at a time, so that a shutdown does not begin
while a checkpoint or a shred goes on. The replay of a rebuild is
one step, since the registry mutex is held and the log can only grow
meanwhile. A file under `views/` is written, fsynced and renamed in one step,
and renames survive in order. The key lookup and the append of
`append_idempotent` are one step: only `shred` replaces the index in between.
The replicated write path, the memtable, I/O errors of checkpoints and readers
during a rebuild are left out.

### RaftStorage

One replica under openraft. openraft itself, a library, is external: the
entries it commits are the constant `Chosen`, and it is modelled by the order in
which its tasks call the storage traits.

| Variable | Code |
|---|---|
| `wal`, `torn` | the records of `entries.wal`; whether the last is still being written |
| `raft_log` | `Inner::entries` and `last_purged`; `good` tells a committed entry from one of a deposed leader |
| `meta`, `meta_file` | vote and committed index, in `Inner::meta` and in `meta.bin` |
| `st`, `sm_file` | `SmState` with `skip_normals`, and `sm_meta.bin` |
| `log`, `synced` | the episode log: the entry each episode came from, and what a power loss is sure to leave |
| `snapshot` | `SmState::current_snapshot`, in memory only |
| `core` | the writes left of the call openraft's core is in: record, memory, rewrite, meta file, answer |
| `work` | the batch or the snapshot the state machine's worker is in |
| `granted` | history: the votes the replica has answered with |

`append_sync`, `truncate`, `purge`, `save_vote` and `save_committed` begin a
call; `append_record`, `remember`, `rewrite_wal` and `write_meta` are its
writes. `apply_normal` and `apply` are the two halves of one entry of a batch,
`persist_sm_meta` its end; `install_episode` and `install_snapshot` are the loop
of an installation, which does not hold the mutex, and its end, which does.
`open` is the order of `cluster.rs`, `reapply`, `purge_covered` and `serve` are
what openraft 0.9 does with the two stores when it starts.

Abstractions. A file that is written beside, fsynced and renamed changes in one
step. Entries are indexes; terms only matter through `good`. The core reads the
entries of a batch before the worker applies it, one batch at a time; openraft
does not append while an installation is going on and purges no further than
the snapshot it has. The call of the apply hook is the `index_views` of
`EngineViews`. I/O errors stop the node and are left out, and so is the
transient error in opening `meta.bin` that `load_meta` takes for a first boot.

### V6Log and HlcClock

| Variable | Code |
|---|---|
| `tail_file`, `raw`, `packed`, `manifests`, `current` | the files of the directory: the active segment, sealed raw and packed generations, numbered manifests, `CURRENT` |
| `man`, `before`, `writer`, `next_lsn`, `v6hlc` | `V6State` under the engine's mutex and its clock; `before` is the manifest a failed commit goes back to |
| `phase`, `job` | what the holder of the mutex is doing, one file operation per step |
| `stamped`, `reader` | appenders between their stamp and the mutex; the path a reader chose under the mutex and opens after it |

`v6_append`, `append_inner`, `write_record` and `finish_append` are an append
in its parts; `seal_footer`, `seal_rename`, `create_active`, `write_manifest`
and `swap_current` a roll; `pack_segment` a packing; `v6_open` and
`v6_activate` the boot with its repairs; `collect_garbage`, `quarantine`,
`repack`, `set_legal_hold` and `prune_old_manifests` what is done to a directory
no engine has open. `HlcClock` is the clock (`hlc.rs`), shared with `HrklLog`.
Hashes are the values they hash; what is inside a segment is `V6Segment`.

### V6Segment

| Variable | Code |
|---|---|
| `sgRaw`, `sgPacked` | the two files of a segment, as sequences of tokens: header, records or blocks with their meta, LSN, HLC and payload columns, restart points, directory, footer |
| `sgWriter`, `sgRecs` | `RawSegmentWriter`, and what was appended to it |
| `sgBad` | the token of a finished file that has gone bad |
| `sgPos`, `sgReader` | the descriptor that the threads of one `FileSource` share, and each thread's `get` |

`push_leaf`, `finalize`, `build_inclusion_proof`, `build_block`,
`find_record_in_block`, `packed_push`, `BlockDirectory::decode`,
`scan_raw_bytes`, `repair_active_tail`, `verify_segment` and `pack_segment` are
operators on records and files; `SgAppend`, `SgSeal`, `SgCrash`,
`pack_segment_file`, `SgRot` and the two halves of `FileSource::read_at`
(`SgSeek`, `SgReadExact`) are the steps. A token is one unit long. A CRC is a
copy of what it covers, a hash an injective encoding, compression gives back
what it was given.

### KeyStore

`ksFile`, `ksCache` are the key file of an agent and its cache entry; sealers
and readers are threads inside `get_or_create` and `get`. The file is created,
written and inserted in three steps, a shred zeroes and removes it in two, and
a crash falls between any of them.

### LogSubscription

The worker's head and the broadcast channel it feeds (`sbSent`), the callback
subscriber of `subscribe.rs` and the task of the `Subscribe` RPC, which scans
history in batches, changes to the tail, and goes back to scanning when it has
lagged. The channel, a library's, is external.

### SnapshotPins

`begin` and `release` of `SnapshotManager` in their steps under the mutex of
the pin table; `advance_head` and `watermark`, atomics, at any moment.

### Memtable

`index_applied` of several appenders: the memtable with its eviction and its
adjacency, then the views; `mt_clear` with its two halves, as a shred calls it.

### Selections

What a filter keeps of a sequence (`SelectAt`), for the `retain` of the memtable's overlay and the
`filter`s of a commitment and of the clusters: a recursive function over the
positions, so that the three modules that use it can be proved about.

### ColdTier

One segment: `demote_segment` and `tier_compaction_tick` put the object, then
the mirror, then append the receipt to the log. A Merkle root is the set of
records it was computed from; the object store is atomic per object.

### Anchoring

The tick of the compliance worker reads the watermark and the commitment in two
loads of the catalogue while segments are sealed; the token file and the line
of the manifest are two writes. A commitment is the sequence of the ranges it
covers, which never change once sealed (`HrklLog`).

### Distillation

`distill_tick`: a window from the cursor, a fact for each cluster of at least
`min_cluster` observations, in the order of their first members and as many as a run
may emit, appended one by one, then the cursor in memory, then in its file. Clusters
are by topic, the head and the window are read in one step. `dsSeen` and `dsOwed` are
history: what the windows were that the cursor has passed, and the clusters in them
that a fact is owed for.

### BEpsilonTree

One record is the tree in memory with its pages on disk, and every function of
the code is an operator from trees to trees (`push_msg`,
`partial_flush_cascade`, `split_root_node`, `split_child_node`,
`merge_or_borrow_cascade`, `recycle_id`, ...). `commit_pages`,
`commit_superblock` and `commit_recycle` are the parts of `commit`; `bt_open`
is a crash and the next open. Sizes in bytes are counts of entries. The server
uses the tree through `from_map` on a fresh file only; the other calls are the
crate's interface.

### Query

| Variable | Code |
|---|---|
| `qrLog`, `qrSealed`, `qrActive` | the log as records, sealed segments with the zone map cached for them, and where the tail begins |
| `qrIndexed` | the engine's `AttrIndex`: the LSNs in it |
| `qrBundle` | the reference backend's `SnapshotBundle`: the LSN it claims and the records it has |
| `qrCall` | the query going on |

`matches` is `eval_bool` over `cmp_json`; `attr_eq_hint`, `attr_range_hint`,
`builtin_skip_hint` and `lsn_window` are the planner's; `execute` chooses the
path, and `QrSync`, `QrLookup`, `QrScan`, `scan_pruned` and `QrTail` walk it,
while records are appended and indexed, segments sealed, and other queries move
the bundle or build zone maps. A behaviour has one backend, one history of
three (`Story`) and one query of one or two conditions. Numbers are naturals,
of three strings that are numbers; conditions on the value of an attribute, the
kind, the agent and the LSN stand for those on the other fields.

### TemporalGraph

| Variable | Code |
|---|---|
| `tgLog`, `tgIndexed` | the log, and what `index_applied` has given the views |
| `tgViews` | `TemporalGraph::edges`, `versions` and `EntityResolver::mappings`, `canonical` |
| `tgSnapshot`, `tgMark`, `tgSaving` | the checkpoint files, `watermarks.json`, and which is written next |
| `tgDecide` | the actions a DECIDE has still to append |

`apply_episode` is the fold; `TgSnapshotViews` and `persist_watermarks` a
checkpoint, `TgCrash` a crash with the boot after it. Edges do not affect each
other and the two views neither, so a behaviour has records of one subject.
Confidence is well above one half, so that belief is a matter of which
hypotheses are alive.

### Cluster

Nodes that replicate episodes under openraft. openraft is external: an election
needs a majority whose logs are no newer (`ClElect`), an entry is committed when
a majority has it (`ClCommit`), and the leader sends what a follower lacks.

| Variable | Code |
|---|---|
| `clNode` | of each node: stopped, joined, alone, closing; its Raft entries; its episodes with their stamps, what its views were given; the state machine's marks in memory and in `sm_meta.bin` |
| `clLeader`, `clTerm`, `clMatch` | openraft: the last election, and what the leader believes each node has |
| `clRpc`, `clWire` | the request the leader waits for; the requests and answers on the connections, those of an abandoned call included |
| `clCall`, `clIds`, `clAcked` | of each client, where its append is; what was answered Ok |

`cluster_spawn`, `initialize_cluster` and `ClShutdown` are `cluster.rs`;
`append_internal` and `submit_episode` the path of an append with a router;
`call`, `ClServe`, `call_returns` and `call_fails` one request on a connection
that may break or be left at a timeout; `ClApply` and `ClPersisted` the state
machine, in which `Applied` skips what the log already holds after a restart.

### Hvm

| Variable | Code |
|---|---|
| `hvLog` | the records: the kind and, for an instruction, the frame |
| `hvLock`, `hvStamp` | `Engine::hvm_lock`, and the head each writer has read under it |
| `hvReplay` | of each call of `hvm_state` or `hvm_checkpoint`, the window it has reached, its fold, its file |
| `hvFiles`, `hvTmp`, `hvPath` | the files, by name and by descriptor: `hvm.tmp`, `hvm.hbt` |

`encode`, `decode` and `decode_stream` work on sequences of numbers, one for
each field and each byte of a key or value. `hvm_write` and `hvm_append` are
the two halves of an upsert or delete; `hvm_window` is one window of
`replay_vm`; `from_map_clean` to `from_map_rename` are the steps of
`BEpsilonTree::from_map`, whose tree is a map here (`BEpsilonTree` has the tree).

### HumeIr

`irInsts` is `Builder::insts`; `push` adds an instruction with any operands,
later values and its own among them, `finish` closes the function. `verify`,
`interpret`, `constant_fold`, `dead_code_elimination` and `emit_expr` (the code
the JIT emits) are operators on functions. Integers wrap at `IrBits` bits; floats
are small, exact, or NaN. A literal of `Inst` that is a column's type stands for
the type Rust keeps beside its index.

### HumeKernel

`hkSel` is the `SelectionVector` of a `DataChunk` next to the set it should be,
`hkMask` a `ValidityMask` next to the rows that should be null, `hkScratch` the
arena's mark and the regions it handed out, `hkColumn` a column whose codecs,
top-k, radix partitions and sketches are functions of it. Words have `HkBits`
bits. A blob is its fields with their sizes in bytes. Saturation of CountMin is
not modelled, and an alignment above that of the arena's buffer, which
`alloc_bytes` rounds as an offset of the buffer and would not honour, is outside
`HkRequests`.

### Analytics

`vxPhase` is what `compile` expects next (a token it does not expect is an
error) and then how far `execute` is; `vxDag` the plan of `optimize`, `vxRun` the
results by node. `PerBatch` drops empty batches in each worker of its own part of
the input, as `run_filter_parallel` does. `SelfJoin` is a caller of `execute` with
a plan of its own, since the planner makes no join. A predicate of another type
than its column, which the planner's literals cannot be, is left out: with one the
order of the filters would decide whether there is an error.

### MC modules and proof modules

`MCHrklLog`, `MCHrklLogReaders`, `MCEngineViews` and `MCRaftStorage` give values
to the constants, the scenarios, and symmetry of the interchangeable callers.
`MCLogs`, `MCComponents` and `MCEngines` run several modules that share no state: a
behaviour picks one and runs it to its bounds, so what is explored is the sum of
their state graphs. `NatLemmas` and the modules named `...Proofs` are described
under [Proofs](#proofs).

## Runs

All runs allow the system to stop (`CHECK_DEADLOCK FALSE`): the number of
episodes, crashes and boots is bounded, and a refused directory or a poisoned
worker is a legitimate end.

| Run | Question | Bounds, and why they are enough |
|---|---|---|
| `logs` | the Hrkl log under `FsyncPolicy::Always`: are the visible LSNs a complete, stable prefix on disk, and do reads and scans return it exactly while the worker rolls and commits? The v6 engine and its segments: see the table below | the log: two clients, a channel of two and so batches of one or two commands, three episodes, sizes 1 and 3 in segments of 3: records that fit, roll before or after another record of their batch, whose index entries the roll then publishes uncommitted, or are longer than a segment; an error that finds part of a batch sealed; one I/O error, two power losses: one during the recovery from the other; a reader that loads each half of its snapshot at any moment. v6: two episodes, two crashes, one failed file operation, two maintenance operations; segments: four records with or without gaps between LSNs and steps back of the clock, payloads of sizes 0 and 3 in blocks of 4, so that blocks are left by being full and by not having room, a restart point every two records; damage to any token of segments of two |
| `log_group` | under group commit, do stamps and footers survive; is every step one of `EpisodeLog`, whose promises are therefore kept? | two episodes, a channel of one place with another caller waiting for it, both kinds of crash in any order, an old-format tail to re-seal, a wall clock that may go back |
| `log_follower` | does a follower hold its leader's log, and is every call answered? | three callers that replicate a leader's two entries in any order and again, a channel of one, so that a caller waits for a place with the lock, another for the lock, and either may time out; rolls, one error, one process crash |
| `views` | after any boot, is the derived state the log's, is a key used once, is an interrupted erasure finished; does every append return? | one writer and four episodes: periodic and shutdown checkpoints, its append beside any step of them, with crashes while serving or inside a checkpoint, or shreds with crashes at any step of them and of the boot that repeats them, or a log that syncs in groups and no crash; or two writers that index out of order and three episodes: crashes with checkpoints at boot and at shutdowns that find no call in flight, or periodic checkpoints and rebuilds at any moment without a crash |
| `components` | a replica's storage and the parts around the log: see the table below | the replica: four entries of the three kinds with an episode on either side of a blank entry; in turn entries of a deposed leader and a vote, snapshots built and purged to, snapshots received, an interrupted installation, group commit; two crashes anywhere, so that one hits the recovery from the other. The others: two of each kind of thread, capacities of 2 to 4 so that buffers overflow, evictions happen and a second generation exists, one crash anywhere; the tree: seven keys, nodes that split at two entries, buffers that flush at one, three files to start from, so that two calls split, flush, borrow or merge; the memtable: two appenders, room for two of four episodes; the tier: four records of one segment |
| `engines` | queries, the temporal graph, the cluster, the ledger and the columnar engines: see the table below | queries: every one or two of ten conditions, three histories of three records, one sealed segment, both backends; graph: four records over an edge (two for DECIDE) or three keys, one crash; cluster: two nodes, two episodes, two terms, one broken request, one crash; ledger: two writers and one replayer over three records, windows of one, one crash; distillation: two topics, clusters of three as in the server, windows of six, eight records, so that clusters reach, miss or cross a window, one crash; IR: every program of four instructions over two-bit integers, floats and NaN, with its use of values before their definition; kernel: eight rows in words of three bits, so that the last word is short, columns of five values of which some are neighbours and some far apart; analytics: every query of two predicates and a key over five rows, batches of 1, 2 or 4, one or two CPUs, estimates that fuse and that do not |

| Property | Says |
|---|---|
| `EpisodesAreEntries`, `NothingLost`, `VoteKept`, `OpensAgain`, `CommittedApplied` | a replica's episode log is the committed episodes; every committed entry is in the file, the snapshot or the episodes; a vote outlives the node; the stores always open; what is committed is applied in the end |
| `KeyMatchesRecords` | every record written since the last shred is sealed with the key the file holds |
| `NoEventMissed`, `StreamCatchesUp` | a subscriber is given every record since it attached; the stream is gap-free, in order, without repeats, and reaches every committed record |
| `FloorBelowSnapshots` | no compaction has read a floor above a snapshot that is held |
| `OverlayExact` | the memtable's edges are those of the episodes in it |
| `NewestReceiptWhole` | the object and mirror of the newest receipt are what it says |
| `ReceiptsVerify` | a receipt in the manifest verifies against the live log at any later time |
| `NothingSkipped` | every record below the cursor was in a window, and every cluster a fact is owed for has its fact, with all its observations as provenance |
| `TreeIsMap` | the tree is the map its calls have built, and after a crash that of the last commit |
| `V6ReadsExact`, `V6PromisesKept` | a read returns the record of its LSN wherever it is; every boot succeeds, and what was fsynced stays, in segments that never lose their authoritative generation |
| `SegmentExact` | what was sealed can be packed, and then lookups, ranges, verification and inclusion proofs answer from the blocks what the records were |
| `DamageFound` | a file with one part gone bad fails verification, is not packed, answers no wrong record, and is not shortened by a repair |
| `QueryExact` | a query returns what a scan would, whatever its access path |
| `TimeTravelExact` | the views answer AS OF any LSN what views built to that LSN would |
| `ActionsOnce` | no action is in the log twice |
| `ReplicasExact` | any two nodes' logs agree as far as both go, no episode is there twice, an answered episode is at its LSN and held by a majority, a node's views are those of its log |
| `LedgerExact` | stamps of instructions grow with the log, a replay answers the ledger as of one LSN no older than its call, the checkpoint file is always the ledger as of one LSN, damaged frames are errors |
| `TiersAgree` | what `verify` accepts means the same interpreted, compiled, and optimised, and nothing dead is left |
| `KernelsExact` | selections, masks, codecs, partitions, sketches and regions hold what was put in them, in one representation for equal sets |
| `VectorisedExact` | every plan finishes, with the rows of its nodes taken one by one over the whole table |

Larger instances that hold, too slow to keep: damage to segments of three (339 005
states); the tree with three calls and two
commits (409 600 states), or preloaded with {1, 2, 3, 6, 7}, budget 4 and four
calls (679 711); queries over four records (5.8 million) or two sealed segments
(1.25 million).

A scenario (`Scenarios` of `EngineViews` and `RaftStorage`, chosen at the start of a behaviour)
says what the environment does; outside the scenarios of the passing runs the
code fails, as the violation runs and the list below show.

Fairness. `log_follower` assumes weak fairness of the worker's step: the worker
is a thread of its own that never blocks but on an empty channel.
`views` assumes weak fairness of a maintenance step and of the second
half of an append, and strong fairness of the first half, which needs a mutex
that maintenance takes again and again: the standard mutex does not starve a
waiter for ever. `components` assumes of the replica weak fairness of the writes of a call
that has begun, of a batch and an installation, and of the boot: each is a loop
of one task with nothing to wait for; and of the subscription
that the worker, having fsynced a batch, publishes and sends it, and that the
stream's task runs while its client reads. Nothing is assumed of clients, leaders,
crashes or errors.

## What the violation runs show

Each quotes the sentence of the repository it contradicts in `PROJECT.json`.

* `log_empty_file`: a segment file of length zero is taken for a good one and
  its header is never written.
* `views_boot_window`: a boot persists watermarks before the snapshots they
  belong to; a crash in between loses episodes from the views.
* `raft_shorter_snapshot`: an installation that a crash interrupted leaves more
  episodes than the next leader's snapshot has; they are counted as the
  snapshot's and then appended again.
* `query_skipped_values`: the engine's attribute index leaves out values such as
  0 and true, and its lookups never say "scan": such a query returns nothing.
* `verify_physical`: a record of a sealed raw segment that fails its checksum
  ends the scan as a torn tail would, and `verify` at the physical level says
  the segment is good and still being written.
* `cluster_stamps`: with a router an episode is submitted before any log has
  stamped it, `append_replicated` keeps the stamp it is given, and every
  replicated episode has the stamp 0.

The same models show more when a configuration is widened, one line each.

The Hrkl log:

* `CrashSafe` (its part `LsnBarrier`) with `Policy = "group"`, or with `CrashKinds = {"process"}`: the
  head covers records that no fsync has, although `lib.rs:15` says it waits for
  it.
* `CrashSafe` (its part `NeverRefused`) with both kinds of crash: a footer accepted without an fsync
  after a process crash is torn by a power loss when its segment is no longer
  the last, and `open` refuses the directory.
* `ManifestConsistent` under `RSpec` of `HrklLogReaders`: `Log::manifest` loads
  the catalogue before the head, so a roll in between gives LSNs of the next
  segment to the previous one, although `lib.rs:1947` says it is consistent.

Engine and views:

* `ViewsComplete` in `KeyLost`: a watermark is the maximum of the LSNs applied
  and two writers apply out of order, so a checkpoint can pass an episode not
  applied yet, and the next boot does not replay it. `KeyOnce` there: a
  key is lost between the log and the index, and the retry appends again.
* `ViewsComplete` and `AttrComplete` in `ShutdownRace`: the same by a graceful shutdown.
  Its checkpoint is taken while REST and background appends still run
  (`server/src/lib.rs:395–431`), so with two of them in flight it can have a watermark
  past an episode that is in the log and not indexed, which the next boot skips.
  gRPC calls are waited for, so where all writes are gRPC's (`quiet`), or one at a time,
  this does not happen.
* `ViewsComplete` in a scenario with `rebuild` and crashes (it persists
  watermarks and no snapshots), or with `skip` boots and `shutdown` (the
  appends of a boot that skipped the replay raise the cleared watermarks).
* `ViewsExact` in `TornCheckpoint`: snapshots are written before the watermarks,
  and the next boot applies episodes twice; or in a scenario with `rebuild`,
  which applies an episode its appender applies again.
* `NothingExtra` with `policy |-> "group"` and crashes: a snapshot is
  durable before the episodes it was made of.
* `KeyOnce` with keys and `skip` boots: the index is not replayed.
* `AttrComplete` in a scenario where `shred` is not quiet: the index it rebuilt
  replaces one that knows more. `ErasureComplete` there: an append that read its
  content before the key was dropped enters it after the rebuild.

Consensus storage:

* `NothingLost` in a scenario with `builds` and snapshots received, or with an
  interrupted installation after a purge: the episodes of the installation are
  in the snapshot built, its last entry is older.

The parts around the log (constants of `MCComponents.cfg`):

* `KsOverlap = TRUE`: a `get` that read the key file before the shred caches the
  destroyed or zeroed key after it; a record being sealed with the
  old key is written after the shred, and no file has its key.
* `ShreddedStaysUnreadable` (two crashes and two shreds, `KsOverlap = FALSE`): a process that
  dies between the overwrite with zeros and the removal (`lib.rs:205–208`) leaves a file of 32
  zeros, which `read_key` takes for a key. What is sealed with it opens again
  when a later shred is interrupted at the same place.
* `EveryRecordReads`: the agent writes again after a shred, a new key appears,
  and its old records give errors instead of the absence `lib.rs:444` calls the
  normal semantics.
* `MtClearRaces = TRUE`: `clear` empties entries and adjacency under two locks,
  and an episode applied in between is in one of them only.
* `EvictedIsIndexed`: with two appenders the memtable evicts what one of them
  has not put in the views yet, although `heraclitus-memtable/src/lib.rs:45–51`
  argues it cannot; with one appender it holds.
* `StillPresentExact`: after a compaction dropped the first or the last record,
  the trigger subtracts what its range no longer counts.
  `EveryReceiptVerifies`: a second demotion overwrites the object of the first.
* `AnEmptyRolls = TRUE`: an empty segment sealed later changes the commitment of
  a range that had been anchored, and verification reports an altered log.
* `DsSyncs = FALSE` (`MCEngines.cfg`): the cursor is durable before the records it counts; after
  a power loss it is ahead of the log, and what gets the LSNs below it is never read.
* `BtMaxFree = 1` (32 in the code): a page freed beyond the list is reused by a
  commit, and a crash before its superblock leaves the old tree pointing to it.
* `SnapshotPins` with a second `release` of a copied snapshot, which nothing
  prevents: it drops the pin of another reader at that head (`txn/src/lib.rs:197`).

The v6 engine (`MCLogs.cfg`):

* `V6StampsFollowLsn` with two appenders: the stamp is taken before the mutex
  that decides the LSN, although `engine.rs:242–246` says it is not. With one
  and a wall clock that stands still: a boot after a roll has an empty active
  file to learn the last stamp from.
* `V6FaultKinds = {"write"}`: an append after a torn write is acknowledged and
  lies behind the torn record. `{"sync"}`: an append reported as failed stays in
  the file without being counted; the next roll seals it and begins a segment at
  its LSN, which the next boot refuses.
* `HeaderMayBeLost = TRUE`: an active file without its header refuses the boot.
  `GcInterrupted = TRUE`: files removed before the manifest that no longer names
  them do too.
* `SgReaders = {t1, t2}`: two threads that share a
  `FileSource` move each other's position between seek and read, and a good
  block fails its checksum, although `packed.rs:316` allows concurrent reads
  from a shared reader.

The cluster and the ledger (`MCEngines.cfg`):

* `ClSpawnFails = TRUE`: a server whose cluster did not start serves writes of
  its own (`server/src/lib.rs:67`), which the others never learn, and its log is
  not theirs when it joins again (`ReplicasExact`), although `engine.rs:481–484`
  says that no node may write on its own.
* `HvReplayers = {r1, r2}`: two `/hvm/checkpoint` requests at once write the same
  `hvm.tmp`, and one renames it while the other is filling it (`LedgerExact`).

Queries and graph (`MCEngines.cfg`):

* `QrFields` with `"ts_hlc"`: a range on it is looked up in the attribute index,
  which does not have it, and nothing is found. `QrEmptyRolls = TRUE`: an empty segment's zone map
  prunes the records appended to it, although `skip_scan` "must NEVER drop".
* `TgTorn = TRUE`: a crash between the snapshots and the watermarks, after
  which the next boot applies records to a snapshot that has them.
  `TgOrdered = FALSE`: two appenders index out of LSN order, and an
  edge asserted and contested in the log is dated the other way round. `TgDeciders = {d1, d2}`: two DECIDEs at once both
  find the action missing (`ActionsOnce`). `TgBounds = {1}`: DECIDE AS OF looks for
  the actions taken below its bound and appends at the head, so that it takes
  them again each time, although `decision.rs:8` says re-evaluating never does.

Met while reading, and not modelled: `n.lsn > -1` drops LSN 0 and `n.lsn < 2.5`
drops LSN 2 (`plan.rs:820–823` calls these rules exact);
`MATCH ()-[r]->() WHERE r = "<edge_id>"` returns nothing; `verify_tree_integrity` is
false after an overflow value is deleted; a torn line of `manifest.jsonl` makes
`load_manifest` fail for every receipt; a crash between the creation of a key
file and its write, or between its overwrite and its removal, leaves an agent
that cannot append; DECIDE takes a scan that `QUERY_SCAN_CAP` cut for the whole log.

## Proofs

All constants are arbitrary, under the named assumptions of the modules.

* `HrklLogProofs!TypeCorrect`: `Spec => []TypeOK`. `TypeOK` is inductive with
  one more conjunct, that the active segment is the last file unless a roll is
  creating the next: without it a roll could name a file that does not exist.
  The recovery uses minima and maxima of sets of LSNs, so `NatLemmas` proves
  that non-empty sets of naturals have a least element (from the library's
  well-foundedness of `<`) and what `NextLsn` returns.
* `HrklLogProofs!AckedBelowHead`: `Spec => []HeadCoversAcked`. The
  inductive invariant says that the stash holds consecutive LSNs from
  `current_lsn`, that what is answered in phase 6 is below the head published in
  phase 5, that `current_lsn` and `committed_lsn` agree outside a batch, and
  that nothing is acknowledged while the log is closed.
* `HrklLogProofs!PromisesSurvive`: `Spec => []PromisesKept`, for both
  policies and every mixture of crashes. `DirInv` says that in each file LSNs and
  offsets grow and the fsynced part is a prefix, that the active file ends no
  later than the worker believes and has in front of the rollback baseline all
  that the head covers, that every other file is fsynced whole, and that
  no record reaches the LSN to be given next. `DirStep` is what a step may do
  then: add one record, or lose records, of which the durable ones were
  unpublished. With them `Stashed` (what the stash names is in a file), `Synced`
  (after phase 3 it is durable, when the batch asked for it) and
  `PromisedDurable` are inductive. `Loss` describes what an I/O error, a process crash and
  a power loss do to one file, so that the three are proved together.
* `HrklLogProofs!FollowerMatches`: `~OldTail` implies
  `Spec => []FollowerMatchesLeader`. Commands that are queued or in a batch come from the
  leader's list (`FromLeader`), and `place` writes one only at its own LSN. The
  hypothesis excludes a directory from an older build, whose record is no leader's.
* `HrklLogProofs!BarrierHolds`: `LsnBarrier` under `Policy = "always"` when
  crashes are power losses. What the head covers is fsynced while the worker
  runs, and all that a power loss leaves is.
* `HrklLogProofs!EverySealVerifies`: `Spec => []SealedVerifies`, without hypotheses.
  `ActiveMirrors` is the strengthening: the worker's hashes, base and maximum are
  those of the records of the active file until its footer is written.
* `HrklLogProofs!OpenNeverRefuses`: `NeverRefused` when crashes are of one
  kind and no segment file is left empty. `TidyInv` says that a file that
  is not the last has its header, no half-written item and, where power may be
  lost, nothing at risk; that a torn item and a footer do not meet; and that after a power loss
  footers are fsynced. The two hypotheses are needed: TLC has a
  refusal for a process crash followed by a power loss, and `log_empty_file` shows what an
  empty file does.
* `HrklLogProofs!PowerLossIsSafe`: the two together are `CrashSafe`, under the
  constants of the run `logs`, for any sizes and numbers of everything else.
* `HrklLogProofs!StampsFollowLsns`: `Spec => []TsMonotone`, without hypotheses. In
  `StampInv` the clients' commands are stamped in the order in which they will get their LSNs:
  the records, the part of the batch still to be placed, the queue, each before the next,
  and the clock at or after all of them. A stamp is taken and queued under one lock, no command
  overtakes another, and open sets the clock to the greatest stamp it scans.
* `EpisodeLogProofs!AckedAndPromisedThere` and `PromisesNeverTakenBack`: the
  abstract log keeps what it answers and what it promises.
* `HrklLogRefinementProofs!ImplementsHistory`: `Spec => ImplementsEpisodeLog`, with the
  mapping that `log_group` checks. `OrderInv` is what the other invariants do not give:
  records of a file come before those of the next, no LSN is left out,
  and after an I/O error the active segment is still the last with records. A failure
  therefore takes an end of the sequence of records and nothing else (`LostOrder`), nothing
  published when it is an I/O error (`ErrorKeeps`), and two sets of records that have
  every LSN below n make the same history below n (`FullAgree`, `AgreeIds`). Then
  each action maps to one abstract action or to a stutter (`MapCommit`,
  `MapAck`, `MapCrash`...). The hypothesis says that a follower does not start on a
  tail of another log: its re-applied entries would be answered by other episodes.
* `HrklLogRefinementProofs!HistoryKeepsPromises`: the theorems of `EpisodeLog`, taken over
  through the refinement, for the log itself.
* `HrklLogRefinementProofs!AckedAreReadable`, `CommittedAreReadable` and `ReadsAreStable`:
  `AckedReadable`, `CommittedReadable` (half of `ReadersExact`) and `StableReads`, when no
  file is left with no byte in it. `CatalogInv` relates the catalogue to the directory
  phase by phase: the worker's byte count is the real end of the file, since its header is
  there (`BytesExact`, which is where the hypothesis is needed and which
  `log_empty_file` violates); a sealed container has the entry of every record of its file, and the
  active one has them, or lacks those at the end of the stash that were not published
  (`WillIndex`), or, after an I/O error, has those below the head (`Locates`); and the
  bases separate the LSNs of the files (`BaseOrder`), also those that open invents for
  segments without records. From it `ReadIs`: what a read returns is the set of records of the
  directory with that LSN. That this set stays is `RecordsStay`, from the refinement's order.
* `HrklLogRefinementProofs!ReadersAreExact`: `RSpec => []ReadersExact`, under the same
  hypothesis. A catalogue that a reader holds stays a prefix of the current one: more
  containers are sealed behind it, more entries follow its active ones (`Kept`, reflexive,
  transitive and kept by every step of an open log). When it was loaded it had each LSN
  below the head at the place that follows from the container's base (`Covers`: a file
  has no gap, `FileDense`, and a sealed container's maximum reaches its last entry, `MaxShown`),
  and below the current head the current catalogue points at records that are there, after an
  I/O error too (`PointedBelow`, `DeadPointed`). So the files are an indexed snapshot for the
  old catalogue (`Snapshot`). The loop of `scan_capped` is a recursive function of the
  cursor: it has a solution (`RangesSolve`), each turn takes a run of consecutive records
  and goes on behind it (`TurnIs`, `RunIs`), and the least range for which the result would be
  wrong does not exist (`ScanIs`).
* `V6LogProofs!V6ReadsAreExact`: `V6Spec => []V6ReadsExact`, and `V6KeepsPromises`:
  `V6Spec => []V6PromisesKept`, when a crash leaves the header of an active file whole, no
  crash falls between what garbage collection removes and the manifest it commits, and of the file
  operations only the commit of a manifest and the creation of a file fail (`V6SoundFaults`). The list
  above has a refused boot or a lost record for each hypothesis. Neither property is
  inductive: they say nothing of the manifests that are not the newest, of the one a failed commit
  goes back to, nor of a boot half done. `V6Inv` says that there is one chain of sealed
  segments, without gaps (`V6Chain`), of which every catalogue in use lists all but perhaps
  the last; that one is then a RAW file, where a boot finds it, and there is no active file (`V6Live`).
  Each generation a catalogue names is a file with the records of its segment (`HasFiles`), the active
  file begins at the LSN and after the ids where the chain ends (`V6TailOk`), the writer is what a scan
  of it gives (`V6Writer`), and a path that a reader chose is of the chain or of the active
  file it saw (`V6Reader`). TLC checked it on 285572 states before it was proved. A seal makes the chain
  longer before any catalogue knows (`ChainAppend`, `LiveSealed`), and the commit or the next boot lists it
  (`LiveListed`, `ReconciledLive`: the loop of `reconcile_raw` is a recursive function, followed from
  id to id). A packing adds a file with a number that neither the catalogue nor the directory had
  (`NextGenFresh`), and what a plan of the collector leaves has the active generation (`WithoutIs`). A
  crash keeps at least the fsynced records of the active file (`CutOk`). From the
  invariant, an LSN is in one segment at one place or behind the chain (`ChainPlace`), and the path the
  mutex's holder chooses leads to it (`LocatedGives`).
* `ComponentProofs!AlwaysOpens`: `Spec => []OpensAgain`. The invariant is that
  what the state machine counts or has still to skip is in the episode log, and
  under `Always` that all of the log is on disk and `sm_meta.bin` counts no more
  than it: `normals` is persisted after the appends it counts, and an
  installation sets it to the head.
* `ComponentProofs!VotesKept`: `Spec => []VoteKept`. The answer to a vote is
  always the step after a write of the meta file, or that write is done and memory
  and disk agree; and nothing lowers the vote but a crash, which reads it back.
* `EngineViewsProofs!ErasureIsComplete`: `Spec => []ErasureComplete` when no append
  overlaps a shred, and `DerivedStateClean`: `Spec => []NothingLeftOver` when also the
  log loses no episode (`Always`, or no crash). Both hypotheses are needed, as the list above
  says. An operation is a list of steps, and `TodoInv` says which of them remain: they
  are in the order of `Rank`, and with one of them every later one the
  operation is sure to take (`StepTodo` keeps it, `ProgramTodo` and `OpenTodo` establish it).
  `ErasureInv` then says where clear content may be: in the views only before the
  step that rebuilds them, in a snapshot only before it is saved again, in the attribute index
  only before it is swapped, in each case with the marker on disk, or with the process
  down and the marker there for the next boot. So the marker's removal, which comes
  last, finds none, whatever crash came in between. For the episodes, `SourceInv`: what a view or
  a snapshot counts, and what a call has still to index, is in the log.
* `EngineViewsProofs!ViewsAreComplete`: `Spec => []ViewsComplete`, when also
  no crash falls in a boot or where rebuilds are made (`BootsWhole`), the checkpoints that a boot reads back,
  every shutdown's among them, have at most one append beside them or none (`CheckpointsSettled`), and a server that skipped the replay saves
  nothing (`SkipSavesNothing`). Each is a property of what the environment does, and
  the list above has a run or a scenario in which the invariant fails without it. In the
  inductive invariant, a view that has been caught up or rebuilt has every episode or its caller is about to
  apply it (`LoadedInv`); a snapshot has what the watermark beside it covers
  (`Saved`), unless it is `Excused`: the marker makes the next boot rebuild it, the boot that
  persisted the watermark will save it, or nothing crashes; a checkpoint that has the
  watermarks to persist has either still to save a view or has it as far as they say (`FreshInv`, for
  which the registry must be locked from the first snapshot on, `CheckpointLocks`); one writer is
  ahead of the watermarks (`AheadInv`). `PlanInv` ties the marker, the boot mode and
  the steps that are left together.
* `EngineViewsProofs!AttrIsExact`: `Spec => []AttrExact`, when the log loses no
  episode, shreds are quiet, checkpoints are settled, a server that skipped the replay saves
  nothing, and idempotent appends do not meet one (`SkipHasNoKeys`). Boots and rebuilds may crash
  here: the file of this index says itself how far it goes. An index is `Resumable` if it has every
  episode below the LSN from which a replay starts, its watermark; the file
  always is, or no crash can fall before it is written again (`AttrSaved`), since with one writer the call on
  its way is not below the watermark (`AttrAhead`), and `Posted` or on its way is
  every episode once the index is loaded (`AttrReached`); then a replay makes it
  `Whole` (`AttrReplayedWhole`). A key is new when it is appended because an
  episode with it would be in the index, or its caller would hold the idempotency lock (`KeyIsNew`).
* `ComponentProofs!SnapshotsProtected`: `SpSpec => []FloorBelowSnapshots`. The table counts
  the readers that hold each target, a reader between its load and its pin
  holds the lock and has a target no watermark has passed, and the watermark is
  at most every target held.
* `ComponentProofs!TailComplete`: `NoEventMissed` for any capacity. A receiver's
  place is at most what was sent, which is at most the head; all before the
  subscriber's place was given to it; the stream's output is the interval
  from the LSN asked for.
* `ComponentProofs!KeysMatch`: `KeyMatchesRecords` when no call overlaps a shred
  (`~KsOverlap`; with overlap it is false, as the list above says). A key in the cache
  or in a caller's hand is the one in the file, at most one caller fills a
  new file, and keys are drawn once. Records sealed with the zeros of an interrupted
  shred are outside the second half of the property.
* `ComponentProofs!ColdSegmentWhole`: `NewestReceiptWhole`. A compaction writes another
  generation than the newest receipt names, and demotions write generation 0
  with the whole segment, which is what a receipt of generation 0 says.

* `ComponentProofs!OverlayMatchesTail`: `OverlayExact` for any number of appenders and any
  capacity, when no apply falls between the two locks of `clear` (`~MtClearRaces`; with that it is
  false, as the list above says). The invariant is that an episode enters the tail once, by the one caller that holds
  its LSN (`MtOnce`), and that outside a `clear` each row lists the tail's children of its parent without
  repeats (`MtRows`, `Lists`), so that an insertion lengthens a row by one and an eviction removes one (`ListsAppend`,
  `ListsRemove`). Between the halves of `clear` the tail is empty and the rows are not.
* `ComponentProofs!ReceiptsHold`: `ReceiptsVerify` for any step, rolls and crashes, when the log seals
  no empty segment (`~AnEmptyRolls`, without which it is false). The sealed segments partition the LSNs
  below the active one and their maxima grow (`AnChain`), so a watermark names one of
  them and a commitment at it is the sequence up to that one (`AnCommits`), however many follow. Then the root in the
  worker's hand, the stamped imprint and the receipt are of the same prefix (`AnWorker`, `AnReceipts`); an
  anchor repeated after a crash stamps what was stamped before.
* `ComponentProofs!NothingIsSkipped`: `NothingSkipped` for any `min_cluster`, cap, window and topics, when
  an append returns after its fsync (`DsSyncs`; without it a crash may leave the cursor ahead of the log).
  The facts of a tick have every cluster its window owes (`DsFactsCover`: the first member of a cluster is the
  one that selects it, and of the clusters selected as many come before it as are `Sooner`, so that
  it is within the cap), each of them is in the log or still to be appended until the tick ends (`DsPending`),
  and the cursor is stored, and with it what it owes, when none is left. A window is not changed by what
  is appended after it. Several tickers may run.
* What `SelectAt` keeps is stated once (`Selected`, `AtRank`, `SelectAtFacts`, `SelectAtPrefix`): as many
  elements as positions chosen, those at these positions, each at the place its rank gives, and `SubSeq` where the choice is an initial interval. As for `scan` a solution
  of the recursive function is constructed (`KeptExists`) and followed from step to step.

* `ClusterProofs!ReplicasAreOneLog`: `ClSpec => []ReplicasExact`, for any number of nodes
  and any bounds, when no node is left without its cluster (`~ClSpawnFails`: one that is
  takes writes of its own). An entry is chosen (`Chosen`) when a majority has it and so has
  every log that reaches it, that is, every log that an election would prefer to one that
  ends there; the invariant is inductive
  because of that second half. Logs that agree on the term at a place agree up to it (`Matching`),
  terms do not fall (`Ordered`), and the leader has every entry of its term (`Leads`). So
  what is chosen is in the log of whoever wins an election (`WinnerHasChosen`), stays when a
  request replaces a log (`RequestHasChosen`, `RaftServed`) and when the leader appends
  (`RaftWritten`), and what the commit rule takes is chosen (`CommittedIsChosen`): the
  rule that only an entry of the current term is counted is what this needs. Requests on
  the wire are prefixes of the leader's log; the request with the number of the call that waits is
  the only one, and its answer says that the node has what was sent (`WireIs`), from
  which the match indexes follow (`Matched`). A node's disk log holds the episodes of
  a chosen prefix of its raft log, in order, and the counter that skips them after a
  restart is the number of those that are there already (`NodeIs`). The batch it applies is a fold of the
  library (`FoldLeft`): it has a solution (`FoldExists`), and the solution takes one `Applied` after the
  other (`FoldSteps`), so that the least number of entries for which the invariant would fail
  does not exist (`AppliedRun`). An episode's identifier is in a log once
  (`IdsUnique`), so that the entry at a call's place is its own when the identifier says so.

Sequences whose elements are unknown are handled by `IsSequence`, since the
elements of a snapshot come from `SelectSeq`, of which nothing can be proved
without an induction. That also keeps `EpisodesAreEntries` and
`WalMirrorsMemory` (the part of `NothingLost` that is a fold over the records of
the file) with TLC.

## What is only model-checked, and what is not modelled

Liveness under fairness (`EveryCallAnswered`, `AppendReturns`, `StreamCatchesUp`,
`CommittedApplied`) is checked by TLC only: the provers here know neither fairness nor `ENABLED`.

Some invariants are about a value that a recursion over data or a fold of the library
computes, which is out of reach of the provers, which have no induction over data:
`TreeIsMap`, `QueryExact`, `TimeTravelExact`, `ActionsOnce`, `LedgerExact`,
`SegmentExact`, `DamageFound`, `TiersAgree`, `KernelsExact`, `VectorisedExact`,
and `EpisodesAreEntries` and `NothingLost` as said above. Some were proved
all the same, with a least number in the place of the induction: that a recursive function has a
solution can be shown by giving one, and what it computes from the least number for
which it would be wrong, as for `scan`, for `SelectAt`, for the RAW files a v6 boot goes through and for the fold
that applies a batch in `Cluster`. The others need
that for trees, expressions and programs, or for sorted and filtered sequences.

Nothing is proved about crashes of both kinds of `HrklLog`
beyond the promises, the footers and a follower's log, since what fails there is shown above.

Of the components that are modelled in part, these are left out:

* Hrkl log: the truncation intent, opaque consensus metadata, mapped reads,
  `lsn_for_timestamp`. v6: the disk budget, scans across generations,
  retention by age, the conversion of an old directory.
* Engine: what an episode means to each view, beyond how often it was
  applied. Memtable: the searches of its tail. Transactions: a function of a
  snapshot, and the server does not use them.
* Raft: I/O errors, TLS, the transport of votes and snapshots, `cluster_status`.
* H-VM: the versions of the machine, and the routing table, which nothing reads.
* Tree: byte layout, checksums and bloom filters, the pruning of history.
* Cold tier and compliance: Parquet, ASN.1, signatures, the HTTP client.
  Distillation: the similarity that makes clusters.
* Queries: the parser, ORDER BY, LIMIT, RECALL, NEAREST and fusion. Graph:
  traversals, communities, scores.

Not modelled at all: the canonical encodings and varints of v6 (sequential and
pure, covered by round-trip tests); the epochs and registry of `heraclitus-core`, which only their own
tests use; vectors, manifolds, PageRank, GPU (floating-point arithmetic); servers, clients and the command line (parsing and
transport).
