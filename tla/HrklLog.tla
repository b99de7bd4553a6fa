------------------------------- MODULE HrklLog -------------------------------
(***************************************************************************)
(* The segmented append-only log of heraclitus-log/src/lib.rs: one worker  *)
(* thread that owns the active segment, the clients that enqueue commands  *)
(* for it, the catalogue that readers load, and the crash recovery that    *)
(* Log::open performs.                                                     *)
(*                                                                         *)
(* The worker's pipeline is modelled phase by phase (the value of pc is    *)
(* the phase it is about to run), so that clients, readers, I/O errors and *)
(* crashes fall between any two phases.                                    *)
(*                                                                         *)
(* A segment file is a record: its header, the records physically in it    *)
(* with the offset each one really has, its footer, whether it ends in a   *)
(* half-written item, and how much of it has been fsynced.  Lengths are in *)
(* abstract units; a header takes HeaderLen of them.                       *)
(***************************************************************************)
EXTENDS Integers, Sequences, FiniteSets, HlcClock

CONSTANTS
  Clients,          \* threads that call append, append_replicated and flush
  Sizes,            \* encoded lengths an appended record may have
  SegmentMaxBytes,  \* the roll threshold given to Log::open
  Policy,           \* FsyncPolicy: "always" or "group"
  BatchMax,         \* commands the worker takes at once (128 in the code)
  QueueCap,         \* capacity of the command channel (65536 in the code)
  PhysClock,        \* readings the wall clock may give, in any order
  MaxIds,           \* bound: episodes appended by local clients
  Leader,           \* history a follower replicates, <<>> on a leader
  CrashKinds,       \* crashes that may happen, among "process" and "power"
  MaxCrashes,       \* bound: how many of them
  MaxFaults,        \* bound: keystore and I/O failures
  U64Max,           \* u64::MAX, larger than every LSN
  EmptyFileSurvives,\* a new segment file may be left with no byte in it
  OldTail           \* the directory may start with an unsealed old-format tail

HeaderLen == 1

ASSUME ConstantsAssumption ==
  /\ Sizes \subseteq Nat \ {0}
  /\ SegmentMaxBytes \in Nat /\ U64Max \in Nat
  /\ BatchMax \in Nat \ {0} /\ QueueCap \in Nat \ {0}
  /\ PhysClock \subseteq Nat
  /\ MaxIds \in Nat /\ MaxCrashes \in Nat /\ MaxFaults \in Nat
  /\ EmptyFileSurvives \in BOOLEAN /\ OldTail \in BOOLEAN
  /\ CrashKinds \subseteq {"process", "power"}

ASSUME PolicyAssumption == Policy \in {"always", "group"}

\* What a leader sends is stamped in LSN order, every id once.
ASSUME LeaderAssumption ==
  Leader \in Seq([id : Nat, ts : Nat, size : Sizes])

VARIABLES
  files,          \* the directory: files[i] is segment i - 1
  hlc,            \* Hlc::last
  queue,          \* the command channel, then the callers waiting for a place
  committed_lsn,  \* the published head: LSNs below it are readable
  catalog,        \* the ArcSwap<LogCatalog> readers load
  pc,             \* the worker's next phase, or why there is no worker
  active,         \* the worker's Active: seg, base, max, bytes, hashes
  batch,          \* commands of the batch still to be handled
  stash,          \* stashed_updates
  pending,        \* pending_index_start: stash entries already indexed
  flushes,        \* stashed_flushes
  sync_required,
  tentative_lsn,
  current_lsn,
  baseline,       \* initial_bytes_written, initial_hashes_len, initial_max_lsn
  waiting,        \* clients whose call has not returned
  nextId,         \* ids given to local episodes so far
  acked,          \* <<lsn, id>> a caller was told Ok for since the last open
  promised,       \* <<lsn, id>> the log must never lose
  crashes, faults

worker == <<pc, active, batch, stash, pending, flushes, sync_required,
            tentative_lsn, current_lsn, baseline>>
ghosts == <<acked, promised>>
bounds == <<crashes, faults>>
vars == <<files, hlc, queue, committed_lsn, catalog, worker, waiting, nextId,
          ghosts, bounds>>
-----------------------------------------------------------------------------
(* Values.                                                                 *)

NoLsn == -1
NoFooter == [count |-> -1, min |-> 0, max |-> 0, root |-> <<>>]

\* What blake3 hashes: the authenticated region, not the place in the file.
record_leaf(r) == <<r.lsn, r.ts, r.id, r.size>>

\* Collision freedom of the Merkle root together with the record count.
merkle_root(leaves) == leaves

Leaves(recs) == [i \in DOMAIN recs |-> record_leaf(recs[i])]

EmptyFile == [ver |-> "cur", hdr |-> "none", recs |-> <<>>, foot |-> NoFooter,
              torn |-> FALSE, dur |-> 0, fdur |-> FALSE]

LastOf(s) == s[Len(s)]

\* Where the next byte appended to the file really goes.
PhysLen(f) ==
  IF f.recs # <<>> THEN LastOf(f.recs).off + LastOf(f.recs).size
  ELSE IF f.hdr = "ok" THEN HeaderLen ELSE 0

\* Every record in the directory, and the <<lsn, id>> pairs they make.
AllRecs(fs) == UNION {{fs[i].recs[j] : j \in DOMAIN fs[i].recs} : i \in DOMAIN fs}
Pairs(fs) == {<<r.lsn, r.id>> : r \in AllRecs(fs)}
DurableRecs(fs) == UNION {{fs[i].recs[j] : j \in 1..fs[i].dur} : i \in DOMAIN fs}

\* (mutant: the recovered maximum itself, without the increment)
NextLsn_last(recs) == {n \in {-1} \cup {r.lsn : r \in recs} : \A r \in recs : r.lsn <= n}

\* The one LSN that follows every record, as a singleton.
NextLsn(recs) == {n \in {0} \cup {r.lsn + 1 : r \in recs} : \A r \in recs : r.lsn < n}

NoContainer == [seg |-> 0, base |-> 0, max |-> 0, entries |-> <<>>]
NoCatalog == [sealed |-> <<>>, active |-> NoContainer]
NoActive == [seg |-> 0, base |-> 0, max |-> 0, bytes |-> 0, hashes |-> <<>>]
NoBaseline == [bytes |-> 0, hashes |-> 0, max |-> 0]

\* Log::open has returned, and the worker has not stopped (poisoned).
Opened == pc \notin {"closed", "open_header", "refused"}
Serving == Opened /\ pc # "dead"
-----------------------------------------------------------------------------
(* Initial states: an empty directory, or one whose only segment was left  *)
(* unsealed by a build with an older FORMAT_VERSION.                       *)

OldSegment ==
  [EmptyFile EXCEPT !.ver = "old", !.hdr = "ok", !.dur = 1,
     !.recs = <<[lsn |-> 0, ts |-> 1, id |-> 0, off |-> HeaderLen, size |-> 1]>>]

Init ==
  /\ files \in {<<>>} \cup (IF OldTail THEN {<<OldSegment>>} ELSE {})
  /\ hlc = 0 /\ queue = <<>> /\ committed_lsn = 0 /\ catalog = NoCatalog
  /\ pc = "closed" /\ active = NoActive /\ batch = <<>> /\ stash = <<>>
  /\ pending = 0 /\ flushes = <<>> /\ sync_required = FALSE
  /\ tentative_lsn = 0 /\ current_lsn = 0 /\ baseline = NoBaseline
  /\ waiting = {} /\ nextId = 0 /\ acked = {} /\ promised = {}
  /\ crashes = 0 /\ faults = 0
-----------------------------------------------------------------------------
(* Readers.  A read is a lookup in a catalogue snapshot.                   *)

\* (mutant: the first of several containers with the same base)
SealedFor_leftmost(cat, lsn) ==
  LET below == {i \in DOMAIN cat.sealed : cat.sealed[i].base <= lsn}
  IN  {i \in below : /\ \A j \in below : cat.sealed[j].base <= cat.sealed[i].base
                     /\ \A j \in below : cat.sealed[j].base = cat.sealed[i].base => i <= j}

\* binary_search_by_key on base_lsn, then the predecessor: the last sealed
\* container whose base does not exceed the LSN.
SealedFor(cat, lsn) ==
  {i \in DOMAIN cat.sealed :
     /\ cat.sealed[i].base <= lsn
     /\ \A j \in DOMAIN cat.sealed : cat.sealed[j].base <= lsn => j <= i}

ContainersFor(cat, lsn) ==
  IF lsn >= cat.active.base THEN {cat.active}
  ELSE {cat.sealed[i] : i \in SealedFor(cat, lsn)}

\* ler_registo_em: the record that starts at the offset; nothing if none does.
ler_registo_em(fs, seg, off) ==
  {r \in {fs[seg + 1].recs[j] : j \in DOMAIN fs[seg + 1].recs} : r.off = off}

\* Log::read: the positional shortcut is taken only when the entry's LSN
\* agrees, otherwise the entry is searched for.  The result is the set of
\* records returned: empty for None, for a CRC failure and for EOF.
read(cat, fs, head, lsn) ==
  IF lsn >= head THEN {}
  ELSE UNION {LET k == lsn - c.base + 1
                  hit == IF k \in DOMAIN c.entries /\ c.entries[k].lsn = lsn
                         THEN {k}
                         ELSE {j \in DOMAIN c.entries : c.entries[j].lsn = lsn}
              IN  UNION {ler_registo_em(fs, c.seg, c.entries[j].off) : j \in hit}
              : c \in ContainersFor(cat, lsn)}
-----------------------------------------------------------------------------
(* Clients.                                                                *)

\* enqueue_append_inner: stamping and sending are one critical section under
\* stamp_lock, so the commands enter the channel in the order of their stamps.
\* A caller that finds the channel full waits for a place, or for the lock of
\* one who does: its command is in queue, beyond QueueCap, in calling order.
append(c, size, p) ==
  /\ Serving /\ c \notin waiting /\ Leader = <<>> /\ nextId < MaxIds
  /\ hlc' = HlcNow(hlc, p)
  /\ nextId' = nextId + 1
  /\ queue' = Append(queue, [op |-> "append", client |-> c, id |-> nextId + 1,
                             ts |-> hlc', size |-> size, expected |-> NoLsn,
                             mark |-> 0])
  /\ waiting' = waiting \cup {c}
  /\ UNCHANGED <<files, committed_lsn, catalog, worker, ghosts, bounds>>

\* append_replicated of the leader's entry k: below the head it is a
\* re-application, Ok only for the same event; otherwise it is enqueued with
\* the LSN it must get.
append_replicated(c, k) ==
  LET ep == Leader[k]
      lsn == k - 1
  IN
  /\ Serving /\ c \notin waiting
  /\ hlc' = HlcObserve(hlc, ep.ts)
  /\ IF lsn < committed_lsn
     THEN /\ acked' = IF \E r \in read(catalog, files, committed_lsn, lsn) : r.id = ep.id
                      THEN acked \cup {<<lsn, ep.id>>} ELSE acked
          /\ UNCHANGED <<queue, waiting>>
     ELSE /\ queue' = Append(queue, [op |-> "append", client |-> c, id |-> ep.id,
                                     ts |-> ep.ts, size |-> ep.size,
                                     expected |-> lsn, mark |-> 0])
          /\ waiting' = waiting \cup {c}
          /\ UNCHANGED acked
  /\ UNCHANGED <<files, committed_lsn, catalog, worker, nextId, promised, bounds>>

\* Log::flush, which takes no lock and waits for a place as long as it takes.
\* mark is the head when the caller asked.
flush(c) ==
  /\ Serving /\ c \notin waiting
  /\ queue' = Append(queue, [op |-> "flush", client |-> c, id |-> 0, ts |-> 0,
                             size |-> 0, expected |-> NoLsn, mark |-> committed_lsn])
  /\ waiting' = waiting \cup {c}
  /\ UNCHANGED <<files, hlc, committed_lsn, catalog, worker, nextId, ghosts, bounds>>

\* The i-th command is of the append that has stamp_lock and no place yet.
HoldsLock(i) ==
  i > QueueCap /\ queue[i].op = "append" /\ \A j \in (QueueCap + 1)..(i - 1) : queue[j].op = "flush"

\* send_timeout: after 10 s without a place the append of client c gives up
\* the lock and its caller gets an error; the stamp is spent.
send_timeout(c) ==
  /\ Serving
  /\ \E i \in DOMAIN queue :
       /\ queue[i].client = c /\ HoldsLock(i)
       /\ queue' = SubSeq(queue, 1, i - 1) \o SubSeq(queue, i + 1, Len(queue))
  /\ waiting' = waiting \ {c}
  /\ UNCHANGED <<files, hlc, committed_lsn, catalog, worker, nextId, ghosts, bounds>>
-----------------------------------------------------------------------------
(* The worker.                                                             *)

\* Phase 1: one blocking recv, then try_recv until the batch is full or the
\* channel is empty.  A caller woken by a place that became free may or may
\* not send in time for this batch.
recv ==
  /\ pc = "recv"
  /\ \E n \in 1..BatchMax :
       /\ n <= Len(queue) /\ (n = BatchMax \/ n >= QueueCap \/ n = Len(queue))
       /\ batch' = SubSeq(queue, 1, n)
       /\ queue' = SubSeq(queue, n + 1, Len(queue))
  /\ stash' = <<>> /\ pending' = 0 /\ flushes' = <<>> /\ sync_required' = FALSE
  /\ baseline' = [bytes |-> active.bytes, hashes |-> Len(active.hashes), max |-> active.max]
  /\ tentative_lsn' = current_lsn
  /\ pc' = "write"
  /\ UNCHANGED <<files, hlc, committed_lsn, catalog, active, current_lsn, waiting,
                 nextId, ghosts, bounds>>

Cmd == Head(batch)
CasHolds_ignored(cmd) == TRUE    \* (mutant: expected_lsn is not compared)
CasHolds(cmd) == cmd.expected = NoLsn \/ cmd.expected = tentative_lsn
Fits(cmd) == active.bytes + cmd.size <= SegmentMaxBytes

\* (mutant: a flush does not ask for the fsync)
write_flush_nosync ==
  /\ pc = "write" /\ batch # <<>> /\ Cmd.op = "flush"
  /\ flushes' = Append(flushes, Cmd) /\ batch' = Tail(batch)
  /\ UNCHANGED <<files, hlc, queue, committed_lsn, catalog, pc, active, stash, pending,
                 sync_required, tentative_lsn, current_lsn, baseline, waiting, nextId,
                 ghosts, bounds>>

write_flush ==
  /\ pc = "write" /\ batch # <<>> /\ Cmd.op = "flush"
  /\ sync_required' = TRUE
  /\ flushes' = Append(flushes, Cmd)
  /\ batch' = Tail(batch)
  /\ UNCHANGED <<files, hlc, queue, committed_lsn, catalog, pc, active, stash, pending,
                 tentative_lsn, current_lsn, baseline, waiting, nextId, ghosts, bounds>>

\* The command is answered with an error and the batch goes on: a CAS
\* conflict, or a keystore or serialisation failure.
reject ==
  /\ pc = "write" /\ batch # <<>> /\ Cmd.op = "append"
  /\ \/ ~CasHolds(Cmd) /\ UNCHANGED faults
     \/ CasHolds(Cmd) /\ faults < MaxFaults /\ faults' = faults + 1
  /\ waiting' = waiting \ {Cmd.client}
  /\ batch' = Tail(batch)
  /\ UNCHANGED <<files, hlc, queue, committed_lsn, catalog, pc, active, stash, pending,
                 flushes, sync_required, tentative_lsn, current_lsn, baseline, nextId,
                 ghosts, crashes>>

\* Index entries of the stash from position i on.
IndexOf(upd) == [j \in DOMAIN upd |-> [lsn |-> upd[j].lsn, off |-> upd[j].off]]
Unindexed == SubSeq(stash, pending + 1, Len(stash))

Extended(container) ==
  [container EXCEPT !.entries = @ \o IndexOf(Unindexed), !.max = active.max]

\* The copy-on-write of the active container, before a roll and in phase 4.
publish_active ==
  IF pending < Len(stash) THEN [catalog EXCEPT !.active = Extended(@)] ELSE catalog

SyncAfterWrite_lazy == {sync_required, TRUE}   \* (mutant: Always treated as a group)

\* Under group commit the interval may or may not have elapsed.
SyncAfterWrite == IF Policy = "always" THEN {TRUE} ELSE {sync_required, TRUE}

\* The record is written where the file ends; the index is told
\* active.bytes_written.  The LSN moves on only after the write.
place ==
  /\ \/ pc = "write" /\ batch # <<>> /\ Cmd.op = "append" /\ CasHolds(Cmd) /\ Fits(Cmd)
     \/ pc = "place"
  /\ LET f == files[active.seg + 1]
         r == [lsn |-> tentative_lsn, ts |-> Cmd.ts, id |-> Cmd.id,
               off |-> PhysLen(f), size |-> Cmd.size]
     IN  /\ files' = [files EXCEPT ![active.seg + 1].recs = Append(@, r)]
         /\ stash' = Append(stash, [lsn |-> tentative_lsn, id |-> Cmd.id,
                                    off |-> active.bytes, client |-> Cmd.client])
         /\ active' = [active EXCEPT !.bytes = @ + Cmd.size,
                                     !.hashes = Append(@, record_leaf(r)),
                                     !.max = IF tentative_lsn > @ THEN tentative_lsn ELSE @]
  /\ tentative_lsn' = tentative_lsn + 1
  /\ sync_required' \in SyncAfterWrite
  /\ batch' = Tail(batch)
  /\ pc' = "write"
  /\ UNCHANGED <<hlc, queue, committed_lsn, catalog, pending, flushes, current_lsn,
                 baseline, waiting, nextId, ghosts, bounds>>

\* roll_segment, first part: what the batch already wrote is indexed, the
\* data is fsynced and the footer written.
roll_seal ==
  /\ pc = "write" /\ batch # <<>> /\ Cmd.op = "append" /\ CasHolds(Cmd) /\ ~Fits(Cmd)
  /\ catalog' = publish_active
  /\ pending' = Len(stash)
  /\ files' = [files EXCEPT ![active.seg + 1] =
       [@ EXCEPT !.dur = Len(files[active.seg + 1].recs),
                 !.foot = [count |-> Len(active.hashes), min |-> active.base,
                           max |-> active.max, root |-> merkle_root(active.hashes)]]]
  /\ pc' = "roll_create"
  /\ UNCHANGED <<hlc, queue, committed_lsn, active, batch, stash, flushes, sync_required,
                 tentative_lsn, current_lsn, baseline, waiting, nextId, ghosts, bounds>>

\* Second part: the footer is fsynced and new_active creates the next file.
roll_create ==
  /\ pc = "roll_create"
  /\ files' = Append([files EXCEPT ![active.seg + 1].fdur = TRUE], EmptyFile)
  /\ pc' = "roll_header"
  /\ UNCHANGED <<hlc, queue, committed_lsn, catalog, active, batch, stash, pending,
                 flushes, sync_required, tentative_lsn, current_lsn, baseline, waiting,
                 nextId, ghosts, bounds>>

Container(seg, base, max, entries) ==
  [seg |-> seg, base |-> base, max |-> max, entries |-> entries]

\* (mutant: bytes_written does not count the header)
new_active_no_header(seg, base) ==
  [seg |-> seg, base |-> base, max |-> base, bytes |-> 0, hashes |-> <<>>]

\* The active segment new_active starts, with its header's HLC tick.
new_active(seg, base) ==
  [seg |-> seg, base |-> base, max |-> base, bytes |-> HeaderLen, hashes |-> <<>>]

\* Third part: header written and fsynced with its directory; the sealed
\* container keeps the index the active one had.  The rollback baseline
\* follows the new file, and the record that did not fit is written next.
roll_header(p) ==
  /\ pc = "roll_header"
  /\ LET next == active.seg + 1
     IN  /\ files' = [files EXCEPT ![next + 1].hdr = "ok"]
         /\ catalog' =
              [sealed |-> Append(catalog.sealed,
                                 Container(active.seg, active.base, active.max,
                                           catalog.active.entries)),
               active |-> Container(next, tentative_lsn, U64Max, <<>>)]
         /\ active' = new_active(next, tentative_lsn)
         /\ baseline' = [bytes |-> HeaderLen, hashes |-> 0, max |-> tentative_lsn]
  /\ hlc' = HlcNow(hlc, p)
  /\ pc' = "place"
  /\ UNCHANGED <<queue, committed_lsn, batch, stash, pending, flushes, sync_required,
                 tentative_lsn, current_lsn, waiting, nextId, ghosts, bounds>>

\* End of phase 2, and phase 3 when something asked for it: fsync of the
\* active file.
fsync ==
  /\ pc = "write" /\ batch = <<>>
  /\ files' = IF sync_required
              THEN [files EXCEPT ![active.seg + 1].dur = Len(files[active.seg + 1].recs)]
              ELSE files
  /\ pc' = "publish"
  /\ UNCHANGED <<hlc, queue, committed_lsn, catalog, active, batch, stash, pending,
                 flushes, sync_required, tentative_lsn, current_lsn, baseline, waiting,
                 nextId, ghosts, bounds>>

\* Phase 4: the entries of the active segment reach the catalogue.
publish ==
  /\ pc = "publish"
  /\ catalog' = publish_active
  /\ pc' = "commit"
  /\ UNCHANGED <<files, hlc, queue, committed_lsn, active, batch, stash, pending, flushes,
                 sync_required, tentative_lsn, current_lsn, baseline, waiting, nextId,
                 ghosts, bounds>>

\* (mutant: the head stops at the last record instead of after it)
commit_short ==
  /\ pc = "commit"
  /\ current_lsn' = IF stash # <<>> THEN LastOf(stash).lsn + 1 ELSE current_lsn
  /\ committed_lsn' = IF stash # <<>> THEN LastOf(stash).lsn ELSE committed_lsn
  /\ pc' = "ack"
  /\ UNCHANGED <<files, hlc, queue, catalog, active, batch, stash, pending, flushes,
                 sync_required, tentative_lsn, baseline, waiting, nextId, ghosts, bounds>>

\* Phase 5: the head moves past the whole batch.
commit ==
  /\ pc = "commit"
  /\ current_lsn' = IF stash # <<>> THEN LastOf(stash).lsn + 1 ELSE current_lsn
  /\ committed_lsn' = IF stash # <<>> THEN current_lsn' ELSE committed_lsn
  /\ pc' = "ack"
  /\ UNCHANGED <<files, hlc, queue, catalog, active, batch, stash, pending, flushes,
                 sync_required, tentative_lsn, baseline, waiting, nextId, ghosts, bounds>>

\* Phase 6: appends are answered, then flushes.  Under Always an answered
\* append is a promise; an answered flush makes one of every record that was
\* below the head when it was asked for.
ack ==
  /\ pc = "ack"
  /\ LET new == {<<stash[i].lsn, stash[i].id>> : i \in DOMAIN stash}
         covered == {a \in Pairs(files) : \E i \in DOMAIN flushes : a[1] < flushes[i].mark}
     IN  /\ acked' = acked \cup new
         /\ promised' = promised \cup covered \cup (IF Policy = "always" THEN new ELSE {})
  /\ waiting' = waiting \ ({stash[i].client : i \in DOMAIN stash}
                             \cup {flushes[i].client : i \in DOMAIN flushes})
  /\ stash' = <<>> /\ pending' = 0 /\ flushes' = <<>>
  /\ pc' = "recv"
  /\ UNCHANGED <<files, hlc, queue, committed_lsn, catalog, active, batch, sync_required,
                 tentative_lsn, current_lsn, baseline, nextId, bounds>>
-----------------------------------------------------------------------------
(* Failures.                                                               *)

\* (mutant: truncates to the header instead of the baseline)
rollback_to_header(f) ==
  [f EXCEPT !.recs = <<>>, !.foot = NoFooter, !.torn = FALSE, !.dur = 0, !.fdur = FALSE]

\* rollback_active_file: set_len to the baseline; the fsync after it may
\* fail, so nothing more becomes durable.
rollback_active_file(f) ==
  LET keep == {i \in DOMAIN f.recs : f.recs[i].off < baseline.bytes}
      n == Cardinality(keep)
  IN  [f EXCEPT !.recs = SubSeq(@, 1, n), !.foot = NoFooter, !.torn = FALSE,
                !.dur = IF n < @ THEN n ELSE @, !.fdur = FALSE]

\* What is left of a segment file that was created but whose header was not
\* known to be written: no file, part of a header, or an empty file.
NewFileImages ==
  {<<>>, <<[EmptyFile EXCEPT !.hdr = "torn"]>>}
    \cup (IF EmptyFileSurvives THEN {<<EmptyFile>>} ELSE {})

Creating == pc \in {"roll_header", "open_header"}

\* A record or a footer is about to be written to the active file.
Writing ==
  \/ pc = "place"
  \/ pc = "write" /\ batch # <<>> /\ Cmd.op = "append" /\ CasHolds(Cmd)

\* The files with the one being created, if any, replaced by an image of it.
WithNewFile(fs, img) ==
  IF Creating THEN SubSeq(fs, 1, Len(fs) - 1) \o img ELSE fs

\* (mutant: a caller that waits for a place is not woken)
DropCalls_asleep ==
  /\ queue' = <<>> /\ batch' = <<>> /\ stash' = <<>> /\ pending' = 0
  /\ flushes' = <<>> /\ waiting' = {queue[i].client : i \in (QueueCap + 1)..Len(queue)}

\* What every failure of the worker does to volatile state: the queue and
\* the response channels are dropped, and with the receiver gone a send fails
\* at once, so every caller gets an error.
DropCalls ==
  /\ queue' = <<>> /\ batch' = <<>> /\ stash' = <<>> /\ pending' = 0
  /\ flushes' = <<>> /\ waiting' = {}

\* An I/O error in a write, in the fsync or in a roll: roll back the file
\* that is still the active one (the truncation itself may fail, its result
\* is ignored), poison the log and stop the worker.
io_error ==
  /\ faults < MaxFaults /\ faults' = faults + 1
  /\ Writing \/ pc \in {"roll_create", "roll_header"}
             \/ (pc = "write" /\ batch = <<>> /\ sync_required)
  /\ \E done \in BOOLEAN, half \in BOOLEAN, img \in NewFileImages :
       /\ half => ~done /\ Writing
       /\ files' = WithNewFile([files EXCEPT ![active.seg + 1] =
                     IF done THEN rollback_active_file(@) ELSE [@ EXCEPT !.torn = half]],
                     img)
  /\ active' = [active EXCEPT !.bytes = baseline.bytes,
                              !.hashes = SubSeq(@, 1, baseline.hashes),
                              !.max = baseline.max]
  /\ pc' = "dead"
  /\ DropCalls
  /\ UNCHANGED <<hlc, committed_lsn, catalog, sync_required, tentative_lsn, current_lsn,
                 baseline, nextId, ghosts, crashes>>

CutAt(f, n, half) ==
  [f EXCEPT !.recs = SubSeq(@, 1, n), !.foot = NoFooter, !.dur = n, !.torn = half]

\* Power loss keeps of a file what was fsynced and any prefix of the rest; a
\* half-written item may end it where something was lost.
SurvivingImages(f) ==
  {g \in {CutAt(f, n, half) : n \in f.dur..Len(f.recs), half \in BOOLEAN} :
     /\ ~f.fdur
     /\ g.torn => f.torn \/ Len(g.recs) < Len(f.recs) \/ f.foot # NoFooter}
  \cup {g \in {[f EXCEPT !.dur = Len(f.recs), !.fdur = TRUE]} : f.foot # NoFooter}

\* The same for a whole directory: only files with bytes at risk may change.
AtRisk(f) == f.dur < Len(f.recs) \/ f.torn \/ (f.foot # NoFooter /\ ~f.fdur)

SurvivingDirs(fs) ==
  LET risky == {i \in DOMAIN fs : AtRisk(fs[i])}
      images == UNION {SurvivingImages(fs[i]) : i \in risky}
  IN  {[i \in DOMAIN fs |-> IF i \in risky THEN g[i] ELSE fs[i]] :
         g \in {h \in [risky -> images] : \A i \in risky : h[i] \in SurvivingImages(fs[i])}}

\* The process is gone and its volatile state with it.
Restart(kind, fs) ==
  /\ kind \in CrashKinds /\ crashes < MaxCrashes /\ crashes' = crashes + 1
  /\ pc \notin {"closed", "refused"}
  /\ files' = fs
  /\ pc' = "closed" /\ catalog' = NoCatalog /\ active' = NoActive /\ hlc' = 0
  /\ baseline' = NoBaseline /\ tentative_lsn' = 0 /\ current_lsn' = 0
  /\ sync_required' = FALSE
  /\ DropCalls
  /\ acked' = {} /\ committed_lsn' = 0
  /\ UNCHANGED <<nextId, promised, faults>>

\* The process dies and the page cache survives it: a write in flight may
\* be cut short, and what was not fsynced still is not.
process_crash ==
  \E img \in NewFileImages, half \in BOOLEAN :
    /\ half => Writing
    /\ Restart("process",
               WithNewFile(IF half THEN [files EXCEPT ![active.seg + 1].torn = TRUE]
                           ELSE files, img))

\* The machine loses power.
power_loss ==
  \E img \in NewFileImages :
    LET known == IF Creating THEN SubSeq(files, 1, Len(files) - 1) ELSE files
    IN  \E dir \in SurvivingDirs(known) :
          Restart("power", dir \o (IF Creating THEN img ELSE <<>>))
-----------------------------------------------------------------------------
(* Log::open.  The scan, the repair and the sealing of what is on disk are  *)
(* one action: each of them leaves a file that a second open treats alike. *)

\* The longest prefix of the records whose LSNs increase.
Increasing(recs, n) == \A i \in 2..n : recs[i - 1].lsn < recs[i].lsn
GoodLen(recs) ==
  CHOOSE n \in 0..Len(recs) :
    Increasing(recs, n) /\ \A m \in 0..Len(recs) : Increasing(recs, m) => m <= n

\* (mutant: the footer of an empty segment counts as corruption)
FooterOK_nonempty(f, recs) ==
  recs # <<>> /\ f.foot.count = Len(recs)
    /\ f.foot.min = recs[1].lsn /\ f.foot.max = LastOf(recs).lsn

FooterOK(f, recs) ==
  /\ f.foot.count = Len(recs)
  /\ recs # <<>> => f.foot.min = recs[1].lsn /\ f.foot.max = LastOf(recs).lsn

\* A header that does not decode: bytes were written where it should be.
BadMagic(f) == f.hdr = "none" /\ (f.recs # <<>> \/ f.foot # NoFooter \/ f.torn)

\* corrupt is corruption_detected \/ valid_len < file_len.  A file too short
\* for a header is reported with the valid length of one.
scan_segment_file(f) ==
  LET recs == SubSeq(f.recs, 1, GoodLen(f.recs))
      sealed == f.foot # NoFooter /\ recs = f.recs
  IN  [recs |-> recs, sealed |-> sealed,
       corrupt |-> \/ f.hdr = "torn" \/ f.torn \/ recs # f.recs
                   \/ sealed /\ ~FooterOK(f, recs),
       ver |-> IF f.hdr = "ok" THEN f.ver ELSE "cur",
       valid_len |-> IF recs = <<>> THEN HeaderLen
                     ELSE LastOf(recs).off + LastOf(recs).size]

\* (mutants: the torn tail is kept; every record is dropped)
repair_skipped(f, scan) == f
repair_resets(f, scan) == [EmptyFile EXCEPT !.hdr = "ok"]

\* Truncation after the last good record, or a fresh header if there is none.
execute_physical_repair(f, scan) ==
  IF scan.sealed THEN [f EXCEPT !.dur = Len(f.recs), !.fdur = TRUE]
  ELSE [f EXCEPT !.recs = scan.recs, !.foot = NoFooter, !.torn = FALSE,
                 !.dur = Len(scan.recs), !.fdur = FALSE, !.hdr = "ok",
                 !.ver = IF scan.recs = <<>> THEN "cur" ELSE @]

\* (mutant: the leaf hashes were not computed during the scan)
seal_file_no_hashes(f, scan) ==
  [f EXCEPT !.dur = Len(f.recs), !.fdur = TRUE,
            !.foot = [count |-> Len(scan.recs),
                      min |-> IF scan.recs = <<>> THEN 0 ELSE scan.recs[1].lsn,
                      max |-> IF scan.recs = <<>> THEN 0 ELSE LastOf(scan.recs).lsn,
                      root |-> merkle_root(<<>>)]]

seal_file(f, scan) ==
  [f EXCEPT !.dur = Len(f.recs), !.fdur = TRUE,
            !.foot = [count |-> Len(scan.recs),
                      min |-> IF scan.recs = <<>> THEN 0 ELSE scan.recs[1].lsn,
                      max |-> IF scan.recs = <<>> THEN 0 ELSE LastOf(scan.recs).lsn,
                      root |-> merkle_root(Leaves(scan.recs))]]

\* sort_by_key(base_lsn), stable: the one sorted arrangement, as a singleton.
SortedByBase(s) ==
  LET before(i, j) == s[i].base < s[j].base \/ (s[i].base = s[j].base /\ i < j)
  IN  {[k \in DOMAIN s |-> s[perm[k]]] :
         perm \in {q \in [DOMAIN s -> DOMAIN s] :
                     \A k, l \in DOMAIN s : k < l => before(q[k], q[l])}}

\* base_l and the sealed container of segment i - 1: the LSN after every
\* record so far stands in for the base of a segment without records.
BaseOf(scans, i) ==
  IF scans[i].recs # <<>> THEN {scans[i].recs[1].lsn}
  ELSE NextLsn(UNION {{scans[j].recs[k] : k \in DOMAIN scans[j].recs} : j \in 1..i})

SealedContainer(scans, i) ==
  LET base == CHOOSE b \in BaseOf(scans, i) : TRUE
  IN  Container(i - 1, base,
                IF scans[i].recs = <<>> THEN base ELSE LastOf(scans[i].recs).lsn,
                IndexOf(scans[i].recs))

open_refuses(scans) ==
  \/ \E i \in DOMAIN files : BadMagic(files[i])
  \/ \E i \in 1..(Len(files) - 1) : scans[i].corrupt

\* lsn0 is initial_lsn.  The last segment stays the active one if it is not
\* sealed and has the current format; a new one is started otherwise, its
\* header being written by open_header.
open ==
  /\ pc = "closed"
  /\ LET n == Len(files)
         scans == [i \in DOMAIN files |-> scan_segment_file(files[i])]
         recs == UNION {{scans[i].recs[k] : k \in DOMAIN scans[i].recs} : i \in DOMAIN scans}
         tail == n > 0 /\ ~scans[n].sealed /\ scans[n].ver = "cur"
         repaired == [i \in DOMAIN files |->
                        IF scans[i].corrupt THEN execute_physical_repair(files[i], scans[i])
                        ELSE files[i]]
         recovered == [i \in DOMAIN files |->
                        IF scans[i].sealed \/ (i = n /\ tail) THEN repaired[i]
                        ELSE seal_file(repaired[i], scans[i])]
         containers == [i \in 1..(IF tail THEN n - 1 ELSE n) |-> SealedContainer(scans, i)]
     IN
     IF open_refuses(scans)
     THEN /\ pc' = "refused"
          /\ UNCHANGED <<files, hlc, committed_lsn, catalog, active, current_lsn>>
     ELSE \E lsn0 \in NextLsn(recs), sealed \in SortedByBase(containers) :
          /\ committed_lsn' = lsn0 /\ current_lsn' = lsn0
          /\ \E h \in {0} \cup {r.ts : r \in recs} :
               (\A r \in recs : r.ts <= h) /\ hlc' = h
          /\ IF tail
             THEN LET last == scans[n].recs
                      base == IF last = <<>> THEN lsn0 ELSE last[1].lsn
                  IN  /\ files' = recovered
                      /\ active' = [seg |-> n - 1, base |-> base,
                                    max |-> IF last = <<>> THEN lsn0 ELSE LastOf(last).lsn,
                                    bytes |-> scans[n].valid_len, hashes |-> Leaves(last)]
                      /\ catalog' = [sealed |-> sealed,
                                     active |-> Container(n - 1, base, U64Max, IndexOf(last))]
                      /\ pc' = "recv"
             ELSE /\ files' = Append(recovered, EmptyFile)
                  /\ active' = new_active(n, lsn0)
                  /\ catalog' = [sealed |-> sealed,
                                 active |-> Container(n, lsn0, U64Max, <<>>)]
                  /\ pc' = "open_header"
  /\ UNCHANGED <<queue, batch, stash, pending, flushes, sync_required, tentative_lsn,
                 baseline, waiting, nextId, ghosts, bounds>>

open_header(p) ==
  /\ pc = "open_header"
  /\ files' = [files EXCEPT ![Len(files)].hdr = "ok"]
  /\ hlc' = HlcNow(hlc, p)
  /\ pc' = "recv"
  /\ UNCHANGED <<queue, committed_lsn, catalog, active, batch, stash, pending, flushes,
                 sync_required, tentative_lsn, current_lsn, baseline, waiting, nextId,
                 ghosts, bounds>>
-----------------------------------------------------------------------------
WorkerStep ==
  \/ recv \/ write_flush \/ reject \/ place \/ roll_seal \/ roll_create
  \/ (\E p \in PhysClock : roll_header(p))
  \/ fsync \/ publish \/ commit \/ ack

Next ==
  \/ \E c \in Clients, size \in Sizes, p \in PhysClock : append(c, size, p)
  \/ \E c \in Clients, k \in DOMAIN Leader : append_replicated(c, k)
  \/ \E c \in Clients : flush(c) \/ send_timeout(c)
  \/ WorkerStep
  \/ open
  \/ \E p \in PhysClock : open_header(p)
  \/ io_error \/ process_crash \/ power_loss

Spec == Init /\ [][Next]_vars

\* The worker is a thread of its own: it runs whenever it can.
FairSpec == Spec /\ WF_vars(WorkerStep)
-----------------------------------------------------------------------------
(* Properties.                                                             *)

Record == [lsn : Nat, ts : Nat, id : Nat, off : Nat, size : Nat]
Leaf == Nat \X Nat \X Nat \X Nat
Footer == [count : Nat, min : Nat, max : Nat, root : Seq(Leaf)]
File == [ver : {"cur", "old"}, hdr : {"none", "torn", "ok"}, recs : Seq(Record),
         foot : Footer \cup {NoFooter}, torn : BOOLEAN, dur : Nat, fdur : BOOLEAN]
Command == [op : {"append", "flush"}, client : Clients, id : Nat, ts : Nat, size : Nat,
            expected : Nat \cup {NoLsn}, mark : Nat]
Entry == [lsn : Nat, off : Nat]
SegmentContainer == [seg : Nat, base : Nat, max : Nat, entries : Seq(Entry)]

ActiveSegment == [seg : Nat, base : Nat, max : Nat, bytes : Nat, hashes : Seq(Leaf)]
Catalog == [sealed : Seq(SegmentContainer), active : SegmentContainer]
Baseline == [bytes : Nat, hashes : Nat, max : Nat]
Update == [lsn : Nat, id : Nat, off : Nat, client : Clients]

DirectoryType == files \in Seq(File) /\ catalog \in Catalog
CountersType ==
  /\ hlc \in Nat /\ committed_lsn \in Nat /\ current_lsn \in Nat /\ tentative_lsn \in Nat
  /\ nextId \in Nat /\ crashes \in Nat /\ faults \in Nat
CallsType ==
  /\ queue \in Seq(Command) /\ batch \in Seq(Command) /\ flushes \in Seq(Command)
  /\ stash \in Seq(Update) /\ waiting \subseteq Clients
WorkerType ==
  /\ pc \in {"closed", "open_header", "refused", "recv", "write", "place", "roll_create",
             "roll_header", "publish", "commit", "ack", "dead"}
  /\ active \in ActiveSegment /\ baseline \in Baseline
  /\ pending \in Nat /\ sync_required \in BOOLEAN
GhostsType == acked \subseteq Nat \X Nat /\ promised \subseteq Nat \X Nat

\* The worker points at a segment that exists, a command it is placing is
\* there, and the rollback baseline and the pending index lie inside what
\* they count.
WorkerShape ==
  /\ pc \notin {"closed", "refused"} => active.seg + 1 \in DOMAIN files
  /\ pc = "roll_header" => active.seg + 2 = Len(files)
  /\ pc \in {"place", "roll_create", "roll_header"} => batch # <<>>
  /\ pending <= Len(stash) /\ baseline.hashes <= Len(active.hashes)
  /\ pc \in {"closed", "open_header", "refused"} => baseline.hashes = 0

\* Every variable has the shape the code gives it.
TypeOK ==
  /\ DirectoryType /\ CountersType /\ CallsType /\ WorkerType /\ GhostsType /\ WorkerShape

\* Every LSN below the published head is readable, whatever the worker is in
\* the middle of: a batch, a roll, a rollback (lib.rs FASE 4 before FASE 5).
CommittedReadable ==
  Serving => \A lsn \in 0..(committed_lsn - 1) :
               \E r \in read(catalog, files, committed_lsn, lsn) : r.lsn = lsn

\* Read-your-writes: an episode whose append returned Ok(lsn) is what a read
\* of that LSN returns from then on (lib.rs FASE 5, before the answers).
AckedReadable ==
  Opened => \A a \in acked :
              \E r \in read(catalog, files, committed_lsn, a[1]) :
                r.lsn = a[1] /\ r.id = a[2]

\* The head is past every LSN a caller was answered Ok for: it is published
\* before the answers, and past the whole batch (lib.rs FASE 5 and 6).
HeadCoversAcked == \A a \in acked : a[1] < committed_lsn

\* What was promised survives every crash: an append answered under
\* FsyncPolicy::Always, everything below the head a flush was called at.
PromisesKept == promised \subseteq Pairs(files)

\* The HLC stamps of locally appended episodes follow LSN order, across
\* rolls and across restarts with a wall clock that went back.
TsMonotone ==
  Leader = <<>> =>
    \A r1, r2 \in AllRecs(files) : r1.lsn < r2.lsn => r1.ts < r2.ts

\* verify_segment answers valid for every sealed segment: count, bounds and
\* Merkle root of the footer are those of the records in the file.
SealedVerifies ==
  \A i \in DOMAIN files : files[i].foot # NoFooter =>
    /\ files[i].foot.root = merkle_root(Leaves(files[i].recs))
    /\ FooterOK(files[i], files[i].recs)

\* No sequence of crashes and I/O errors makes Log::open refuse a directory
\* that only Log wrote.
NeverRefused == pc # "refused"

\* A follower's log is the leader's, entry by entry: re-applied, repeated and
\* concurrent append_replicated calls never put an episode at another LSN.
FollowerMatchesLeader ==
  Leader # <<>> => \A r \in AllRecs(files) :
                     r.lsn < Len(Leader) /\ r.id = Leader[r.lsn + 1].id
                                         /\ r.ts = Leader[r.lsn + 1].ts

\* The LSN barrier of lib.rs:15: the head only covers fsynced records.
LsnBarrier ==
  Serving => \A r \in AllRecs(files) : r.lsn < committed_lsn => r \in DurableRecs(files)

\* Crashes and I/O errors cost neither the barrier nor the next open.
CrashSafe == LsnBarrier /\ NeverRefused

\* What a read returned it returns again, until the log is closed: neither a
\* roll nor a publication nor a rollback changes what an LSN means.
StableReads ==
  [][Opened /\ Opened' =>
       \A lsn \in 0..(committed_lsn - 1) :
         read(catalog, files, committed_lsn, lsn)' = read(catalog, files, committed_lsn, lsn)]_vars

\* Every append and every flush is answered, with Ok or with an error: a
\* poisoned worker, a roll and a CAS conflict leave no caller blocked.
EveryCallAnswered == \A c \in Clients : (c \in waiting) ~> (c \notin waiting)
=============================================================================
