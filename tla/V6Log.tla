-------------------------------- MODULE V6Log --------------------------------
(***************************************************************************)
(* The v6 storage engine of heraclitus-log/src/v6: an active RAW segment,   *)
(* sealed RAW and PACKED generations of it, and the manifest that catalogues*)
(* them.  One mutex serialises appends, seals and packings; every file      *)
(* operation made under it is a step of its own, so a crash or an I/O error *)
(* falls between any two of them, and readers open, after the mutex is      *)
(* released, the path they chose under it.                                  *)
(*                                                                         *)
(* The maintenance operations (garbage collection, quarantine, repacking,   *)
(* legal hold, pruning) work on a ManifestStore of their own: they run      *)
(* while no V6Log has the directory open.                                  *)
(*                                                                         *)
(* A file is the sequence of what is physically in it; a scan ends at the   *)
(* first item that does not decode.  Directory operations take effect in    *)
(* order (a journalled file system); file content is durable when fsynced.  *)
(***************************************************************************)
EXTENDS Integers, Sequences, FiniteSets, FiniteSetsExt, HlcClock, Selections

CONSTANTS
  V6Appenders,      \* threads that call append
  V6Clock,          \* readings of the wall clock
  V6Policy,         \* FsyncPolicy: "always" or "group"
  V6MaxIds,         \* bound: episodes appended
  V6CrashKinds,     \* among "process", "power"
  V6MaxCrashes,     \* bound
  V6FaultKinds,     \* I/O errors, among "commit", "create", "write", "sync"
  V6MaxFaults,      \* bound
  V6MaxAdmin,       \* bound: maintenance operations
  V6MaxPasses,      \* bound: packings that found work, seals of an empty segment
  HeaderMayBeLost,  \* a crash may leave a new active file without its header
  GcInterrupted         \* a crash may fall between a removal and the commit

ASSUME V6Assumption ==
  /\ V6Clock \subseteq Nat /\ V6Policy \in {"always", "group"}
  /\ V6MaxIds \in Nat /\ V6MaxCrashes \in Nat /\ V6MaxFaults \in Nat
  /\ V6MaxAdmin \in Nat /\ V6MaxPasses \in Nat
  /\ V6CrashKinds \subseteq {"process", "power"}
  /\ V6FaultKinds \subseteq {"commit", "create", "write", "sync"}
  /\ HeaderMayBeLost \in BOOLEAN /\ GcInterrupted \in BOOLEAN

VARIABLES
  tail_file,  \* the .active.hrkl file, or NoFile
  raw,        \* the .g0000.raw.hrkl files: segment -> content
  packed,     \* the .gNNNN.packed.hrkl files: <<segment, generation>> -> content
  manifests,  \* the manifest-N.hrkm files: N -> catalogue
  current,    \* the manifest CURRENT names, 0 if there is no CURRENT
  v6hlc, phase, man, before, writer, next_lsn,
  job,        \* what the holder of the mutex is doing
  stamped,    \* appender -> the episode it stamped and has not appended yet
  reader,     \* the path a reader chose under the mutex
  ids, v6acked, v6promised, v6crashes, v6faults, admin, passes

v6disk == <<tail_file, raw, packed, manifests, current>>
memory == <<v6hlc, man, before, writer, next_lsn>>
counts == <<ids, v6acked, v6promised, v6crashes, v6faults, admin, passes>>
v6vars == <<v6disk, memory, phase, job, stamped, reader, counts>>
-----------------------------------------------------------------------------
(* Values.                                                                 *)

Torn == [lsn |-> 0, ts |-> 0, id |-> 0]      \* bytes that decode to no record
NoFile == [id |-> 0, first |-> 0, hdr |-> FALSE, recs |-> <<>>, dur |-> 0,
           foot |-> FALSE, exists |-> FALSE]
NoWriter == [open |-> FALSE, id |-> 0, first |-> 0, next |-> 0, root |-> <<>>]
Job(op, for, todo) == [op |-> op, for |-> for, todo |-> todo]
NoJob == Job("none", {}, <<>>)
NoRead == [lsn |-> 0, kind |-> "none", seg |-> 0, gen |-> 0]
Unstamped == [id |-> 0, ts |-> 0]
RAW_GENERATION == 0

\* scan_raw_bytes: the records before the first item that does not decode.
Scan(items) ==
  SubSeq(items, 1, CHOOSE n \in 0..Len(items) :
                     /\ \A i \in 1..n : items[i] # Torn
                     /\ n < Len(items) => items[n + 1] = Torn)
Whole(items) == \A i \in DOMAIN items : items[i] # Torn

\* A map with an entry put in it.
Put(f, x, y) == [z \in DOMAIN f \cup {x} |-> IF z = x THEN y ELSE f[z]]

\* A catalogue is the sequence of SegmentDescriptorV2, by first LSN.
Desc(id, recs) ==
  [id |-> id, first |-> recs[1].lsn, last |-> recs[Len(recs)].lsn, root |-> recs,
   active |-> RAW_GENERATION, hold |-> FALSE,
   gens |-> [g \in {RAW_GENERATION} |-> "active"]]
Catalogued(m, id) == \E i \in DOMAIN m : m[i].id = id
DescOf(m, id) == m[CHOOSE i \in DOMAIN m : m[i].id = id]

\* DatabaseManifest::upsert_segment.
Upsert(m, d) ==
  IF Catalogued(m, d.id) THEN [i \in DOMAIN m |-> IF m[i].id = d.id THEN d ELSE m[i]]
  ELSE LET at == Cardinality({i \in DOMAIN m : m[i].first < d.first})
       IN  SubSeq(m, 1, at) \o <<d>> \o SubSeq(m, at + 1, Len(m))

\* is_canonical_authority: the states the code assigns, but quarantine.
IsAuthority(state) == state \in {"active", "superseded"}
Authorities(d) == {g \in DOMAIN d.gens : IsAuthority(d.gens[g])}
Layout(g) == IF g = RAW_GENERATION THEN "raw" ELSE "packed"

FileExists(id, g) ==
  IF g = RAW_GENERATION THEN id \in DOMAIN raw ELSE <<id, g>> \in DOMAIN packed
FileContent(id, g) == IF g = RAW_GENERATION THEN raw[id] ELSE packed[<<id, g>>]

\* ManifestStore::load: the manifest CURRENT names, else the highest one.
Generations == DOMAIN manifests
Load ==
  IF current \in Generations THEN manifests[current]
  ELSE IF Generations = {} THEN <<>>
  ELSE manifests[Max(Generations)]

\* ManifestStore::next_generation.
NextManifest == IF Generations = {} THEN 1 ELSE 1 + Max(Generations)

\* packing_queue, rebuilt from the catalogue.
packing_queue(m) ==
  SelectAt([i \in DOMAIN m |-> m[i].id], {i \in DOMAIN m : Authorities(m[i]) = {RAW_GENERATION}})

\* The catalogued generations and the PACKED files on disk, plus one.
next_physical_generation(d) ==
  1 + Max(DOMAIN d.gens \cup {k[2] : k \in {k \in DOMAIN packed : k[1] = d.id}})

\* record_pack: the target becomes the active generation and its source
\* superseded, unless it is in quarantine.
record_pack(d, source, target) ==
  [d EXCEPT !.gens = Put([g \in DOMAIN @ |-> IF g = source /\ @[g] # "quarantined"
                                             THEN "superseded" ELSE @[g]], target, "active"),
            !.active = target]

\* validate_manifest_ranges: no empty segment, no gap, no repeated id.
RangesValid(m) ==
  /\ \A i, j \in DOMAIN m : m[i].id = m[j].id => i = j
  /\ \A i \in DOMAIN m : m[i].first = IF i = 1 THEN 0 ELSE m[i - 1].last + 1
NextLsnOf(m) == IF m = <<>> THEN 0 ELSE m[Len(m)].last + 1

\* (mutant: the highest id in use)
NextSegment_max(m) ==
  IF m = <<>> THEN 0 ELSE Max({m[i].id : i \in DOMAIN m})

NextSegment(m) ==
  IF m = <<>> THEN 0 ELSE 1 + Max({m[i].id : i \in DOMAIN m})

NewActive(id, first) ==
  [id |-> id, first |-> first, hdr |-> TRUE, recs |-> <<>>, dur |-> 0,
   foot |-> FALSE, exists |-> TRUE]
WriterOf(f) ==
  [open |-> TRUE, id |-> f.id, first |-> f.first, root |-> Scan(f.recs),
   next |-> f.first + Len(Scan(f.recs))]
-----------------------------------------------------------------------------
V6Init ==
  /\ tail_file = NoFile /\ raw = <<>> /\ packed = <<>> /\ manifests = <<>> /\ current = 0
  /\ v6hlc = 0 /\ phase = "closed" /\ man = <<>> /\ before = <<>> /\ writer = NoWriter
  /\ next_lsn = 0 /\ job = NoJob /\ stamped = [c \in V6Appenders |-> Unstamped]
  /\ reader = NoRead /\ ids = 0 /\ v6acked = {} /\ v6promised = {}
  /\ v6crashes = 0 /\ v6faults = 0 /\ admin = 0 /\ passes = 0

V6Open == phase \notin {"closed", "refused", "activate"} /\ job.op \notin {"boot", "maint", "gc"}
V6Idle == phase = "idle"
-----------------------------------------------------------------------------
(* Appending.                                                              *)

\* V6Log::append stamps the episode before it takes the mutex.
v6_append(c, p) ==
  /\ V6Open /\ stamped[c] = Unstamped /\ ids < V6MaxIds
  /\ v6hlc' = HlcNow(v6hlc, p)
  /\ ids' = ids + 1
  /\ stamped' = [stamped EXCEPT ![c] = [id |-> ids', ts |-> v6hlc']]
  /\ UNCHANGED <<v6disk, man, before, writer, next_lsn, phase, job, reader, v6acked,
                 v6promised, v6crashes, v6faults, admin, passes>>

\* append_inner takes the mutex.  A segment that has a record may be full; an
\* earlier failed seal left no active segment and the append is refused.
append_inner(c) ==
  /\ V6Idle /\ stamped[c] # Unstamped
  /\ \/ writer.open /\ phase' = "write" /\ UNCHANGED stamped
        /\ job' = Job("append", {c}, <<>>)
     \/ writer.open /\ writer.root # <<>> /\ phase' = "footer" /\ UNCHANGED stamped
        /\ job' = Job("seal", {c}, <<>>)
     \/ ~writer.open /\ stamped' = [stamped EXCEPT ![c] = Unstamped]
        /\ UNCHANGED <<phase, job>>
  /\ UNCHANGED <<v6disk, memory, reader, counts>>

Holder == CHOOSE c \in job.for : TRUE

\* The append returns, with its LSN or with an error: the mutex is released.
Returns == /\ stamped' = [c \in V6Appenders |-> IF c \in job.for THEN Unstamped ELSE stamped[c]]
         /\ phase' = "idle" /\ job' = NoJob

write_record ==
  /\ phase = "write"
  /\ IF next_lsn = writer.next
     THEN LET r == [lsn |-> next_lsn, ts |-> stamped[Holder].ts, id |-> stamped[Holder].id]
          IN  /\ tail_file' = [tail_file EXCEPT !.recs = Append(@, r)]
              /\ writer' = [writer EXCEPT !.root = Append(@, r), !.next = @ + 1]
              /\ phase' = "sync"
              /\ UNCHANGED <<stamped, job>>
     ELSE Returns /\ UNCHANGED <<tail_file, writer>>
  /\ UNCHANGED <<raw, packed, manifests, current, v6hlc, man, before, next_lsn, reader, counts>>

\* Under group commit the interval may or may not have elapsed.
V6SyncNow == IF V6Policy = "always" THEN {TRUE} ELSE BOOLEAN

Synced_not(f) == f       \* (mutant: a flush returns without the fsync)
Synced(f) == [f EXCEPT !.dur = Len(f.recs)]

\* The fsync, if one is due, then the head, then the answer.
finish_append ==
  /\ phase = "sync"
  /\ \E synced \in V6SyncNow :
       /\ v6acked' = v6acked \cup {<<next_lsn, stamped[Holder].id>>}
       /\ tail_file' = IF synced THEN Synced(tail_file) ELSE tail_file
       /\ v6promised' = IF synced \/ V6Policy = "always" THEN v6promised \cup v6acked'
                        ELSE v6promised
  /\ next_lsn' = next_lsn + 1
  /\ Returns
  /\ UNCHANGED <<raw, packed, manifests, current, v6hlc, man, before, writer, reader,
                 ids, v6crashes, v6faults, admin, passes>>

v6_flush ==
  /\ V6Idle /\ writer.open /\ tail_file.dur < Len(tail_file.recs)
  /\ tail_file' = Synced(tail_file)
  /\ v6promised' = v6promised \cup v6acked
  /\ UNCHANGED <<raw, packed, manifests, current, memory, phase, job, stamped, reader, ids,
                 v6acked, v6crashes, v6faults, admin, passes>>
-----------------------------------------------------------------------------
(* Sealing: footer and fsync, rename, manifest, CURRENT, new active file.   *)

\* V6Log::seal_active.  An empty segment is removed and created anew.
seal_active ==
  /\ V6Idle /\ writer.open /\ job' = Job("seal", {}, <<>>)
  /\ IF writer.root = <<>>
     THEN /\ passes < V6MaxPasses /\ passes' = passes + 1
          /\ phase' = "create" /\ tail_file' = NoFile
     ELSE phase' = "footer" /\ UNCHANGED <<tail_file, passes>>
  /\ UNCHANGED <<raw, packed, manifests, current, memory, stamped, reader, ids, v6acked,
                 v6promised, v6crashes, v6faults, admin>>

seal_footer ==
  /\ phase = "footer"
  /\ tail_file' = [Synced(tail_file) EXCEPT !.foot = TRUE]
  /\ v6promised' = v6promised \cup v6acked
  /\ phase' = "rename"
  /\ UNCHANGED <<raw, packed, manifests, current, memory, job, stamped, reader, ids,
                 v6acked, v6crashes, v6faults, admin, passes>>

\* The active segment is taken first: an error leaves the engine without one.
seal_rename ==
  /\ phase = "rename"
  /\ writer' = [NoWriter EXCEPT !.id = writer.id]
  /\ IF tail_file.id \in DOMAIN raw
     THEN Returns /\ UNCHANGED <<tail_file, raw, man, before>>
     ELSE /\ raw' = Put(raw, tail_file.id, tail_file.recs)
          /\ tail_file' = NoFile
          /\ IF Whole(tail_file.recs)
             THEN /\ man' = Upsert(man, Desc(tail_file.id, tail_file.recs))
                  /\ before' = man /\ phase' = "commit"
                  /\ UNCHANGED <<job, stamped>>
             ELSE Returns /\ UNCHANGED <<man, before>>
  /\ UNCHANGED <<packed, manifests, current, v6hlc, next_lsn, reader, counts>>

\* create_active, after a seal (the next id), for an emptied segment (the
\* same id) or at boot.
create_active(p) ==
  /\ phase = "create"
  /\ LET id == IF job.op = "boot" THEN NextSegment(man)
               ELSE IF writer.open THEN writer.id ELSE writer.id + 1
     IN  /\ tail_file' = NewActive(id, next_lsn)
         /\ writer' = WriterOf(tail_file')
  /\ v6hlc' = HlcNow(v6hlc, p)
  /\ IF job.for = {} THEN phase' = "idle" /\ job' = NoJob
     ELSE phase' = "write" /\ UNCHANGED job
  /\ UNCHANGED <<raw, packed, manifests, current, man, before, next_lsn, stamped, reader,
                 counts>>
-----------------------------------------------------------------------------
(* ManifestStore::commit: the manifest file, then the CURRENT file.         *)

write_manifest ==
  /\ phase = "commit"
  /\ manifests' = Put(manifests, NextManifest, man)
  /\ phase' = "current"
  /\ UNCHANGED <<tail_file, raw, packed, current, memory, job, stamped, reader, counts>>

swap_current ==
  /\ phase = "current"
  /\ current' = Max(Generations)
  /\ phase' = CASE job.op = "seal" -> "create"
                [] job.op = "pack" -> IF job.todo = <<>> THEN "idle" ELSE "pack"
                [] job.op = "boot" -> "activate"
                [] OTHER -> "closed"
  /\ job' = IF phase' \in {"idle", "closed"} THEN NoJob ELSE job
  /\ UNCHANGED <<tail_file, raw, packed, manifests, memory, stamped, reader, counts>>
-----------------------------------------------------------------------------
(* Packing.                                                                *)

\* pack_pending works through the queue it read, holding the mutex.
pack_pending ==
  /\ V6Idle /\ packing_queue(man) # <<>> /\ passes < V6MaxPasses
  /\ passes' = passes + 1
  /\ job' = Job("pack", {}, packing_queue(man))
  /\ phase' = "pack"
  /\ UNCHANGED <<v6disk, memory, stamped, reader, ids, v6acked, v6promised, v6crashes, v6faults,
                 admin>>

\* pack_segment publishes a file equivalent to the RAW source, whatever
\* other generations exist; record_pack puts it in the manifest.
pack_segment ==
  /\ phase = "pack"
  /\ LET d == DescOf(man, Head(job.todo))
         g == next_physical_generation(d)
     IN  IF RAW_GENERATION \in DOMAIN d.gens /\ <<d.id, g>> \notin DOMAIN packed
         THEN /\ packed' = Put(packed, <<d.id, g>>, raw[d.id])
              /\ before' = man
              /\ man' = Upsert(man, record_pack(d, RAW_GENERATION, g))
              /\ phase' = "commit" /\ job' = Job("pack", {}, Tail(job.todo))
         ELSE /\ UNCHANGED <<packed, before, man>>
              /\ phase' = "idle" /\ job' = NoJob
  /\ UNCHANGED <<tail_file, raw, manifests, current, v6hlc, writer, next_lsn, stamped, reader,
                 counts>>
-----------------------------------------------------------------------------
(* Reading.                                                                *)

\* (mutant: sealed segments are always read from their RAW generation)
Located_raw(lsn) ==
  IF lsn >= writer.first THEN [lsn |-> lsn, kind |-> "active", seg |-> writer.id, gen |-> 0]
  ELSE LET d == CHOOSE d \in {man[i] : i \in DOMAIN man} : d.first <= lsn /\ lsn <= d.last
       IN  [lsn |-> lsn, kind |-> "raw", seg |-> d.id, gen |-> RAW_GENERATION]

\* The path chosen under the mutex.
Located(lsn) ==
  IF lsn >= writer.first THEN [lsn |-> lsn, kind |-> "active", seg |-> writer.id, gen |-> 0]
  ELSE LET d == CHOOSE d \in {man[i] : i \in DOMAIN man} : d.first <= lsn /\ lsn <= d.last
       IN  [lsn |-> lsn, kind |-> Layout(d.active), seg |-> d.id, gen |-> d.active]

\* Opening a path later: an error if it is gone, else the records with the LSN.
PathExists(rd) ==
  CASE rd.kind = "active" -> tail_file.exists /\ tail_file.id = rd.seg
    [] OTHER -> FileExists(rd.seg, rd.gen)
RecordsAt(rd) ==
  LET items == IF rd.kind = "active" THEN tail_file.recs ELSE FileContent(rd.seg, rd.gen)
  IN  {Scan(items)[i] : i \in DOMAIN Scan(items)} \cap [lsn : {rd.lsn}, ts : Nat, id : Nat]

\* read, and one step of scan_capped, under the mutex.  Bound: readers start
\* before the first crash.
v6_read(lsn) ==
  /\ v6crashes = 0 /\ V6Idle /\ writer.open /\ reader = NoRead /\ lsn < next_lsn
  /\ reader' = Located(lsn)
  /\ UNCHANGED <<v6disk, memory, phase, job, stamped, counts>>

v6_read_done ==
  /\ reader # NoRead /\ reader' = NoRead
  /\ UNCHANGED <<v6disk, memory, phase, job, stamped, counts>>
-----------------------------------------------------------------------------
(* Boot.                                                                   *)

\* reconcile_raw of one RAW file against a catalogue.
RawAgrees(m, id, items) ==
  /\ items # <<>> /\ Whole(items)
  /\ Catalogued(m, id) => /\ RAW_GENERATION \in DOMAIN DescOf(m, id).gens
                          /\ DescOf(m, id).root = items
Reconciled(m, id, items) ==
  IF Catalogued(m, id) THEN m ELSE Upsert(m, Desc(id, items))

\* validate_catalogued_generations.
GenerationsPresent(m) ==
  \A i \in DOMAIN m : \A g \in DOMAIN m[i].gens :
    FileExists(m[i].id, g) /\ FileContent(m[i].id, g) = m[i].root

\* Every RAW file of a set reconciled, in order of segment id.
ReconciledAll(m, fs) ==
  LET end == Max({id + 1 : id \in DOMAIN fs} \cup {0})
      below[n \in 0..end] ==
        IF n = 0 THEN m
        ELSE IF n - 1 \in DOMAIN fs THEN Reconciled(below[n - 1], n - 1, fs[n - 1])
        ELSE below[n - 1]
  IN  below[end]

\* V6Log::open up to the commit: it stops at what it cannot reconcile, and
\* promotes an active file that has its footer.
v6_open ==
  /\ phase = "closed" /\ job = NoJob
  /\ LET loaded == Load
         seen == ReconciledAll(loaded, raw)
         promoted == tail_file.exists /\ tail_file.hdr /\ tail_file.foot
         m == IF promoted THEN Reconciled(seen, tail_file.id, tail_file.recs) ELSE seen
         sound == /\ \A id \in DOMAIN raw : RawAgrees(loaded, id, raw[id])
                  /\ RangesValid(seen) /\ GenerationsPresent(seen)
                  /\ tail_file.exists => tail_file.hdr
                  /\ promoted => /\ tail_file.id \notin DOMAIN raw
                                 /\ RawAgrees(seen, tail_file.id, tail_file.recs)
                  /\ RangesValid(m)
     IN  IF ~sound
         THEN phase' = "refused" /\ UNCHANGED <<tail_file, raw, man, before, job>>
         ELSE /\ man' = m /\ before' = m
              /\ raw' = IF promoted THEN Put(raw, tail_file.id, tail_file.recs) ELSE raw
              /\ tail_file' = IF promoted THEN NoFile ELSE tail_file
              /\ phase' = IF m # loaded THEN "commit" ELSE "activate"
              /\ job' = Job("boot", {}, <<>>)
  /\ UNCHANGED <<packed, manifests, current, v6hlc, writer, next_lsn, stamped, reader, counts>>


\* repair_active_tail truncates at the first item that does not decode.
RepairedTail(f) == [f EXCEPT !.recs = Scan(@), !.dur = Len(Scan(f.recs))]

\* The active tail is repaired and resumed, or a new one is to be created.
\* The clock observes the stamps of the tail alone.
v6_activate ==
  /\ phase = "activate"
  /\ IF ~tail_file.exists
     THEN /\ phase' = "create" /\ next_lsn' = NextLsnOf(man)
          /\ UNCHANGED <<tail_file, writer, v6hlc, job>>
     ELSE LET f == RepairedTail(tail_file)
          IN  IF /\ f.first = NextLsnOf(man)
                 /\ \A i \in DOMAIN f.recs : f.recs[i].lsn = f.first + i - 1
              THEN /\ tail_file' = f /\ writer' = WriterOf(f)
                   /\ next_lsn' = WriterOf(f).next
                   /\ v6hlc' = IF f.recs = <<>> THEN v6hlc
                               ELSE Max({f.recs[i].ts : i \in DOMAIN f.recs})
                   /\ phase' = "idle" /\ job' = NoJob
              ELSE /\ phase' = "refused"
                   /\ UNCHANGED <<tail_file, writer, v6hlc, next_lsn, job>>
  /\ UNCHANGED <<raw, packed, manifests, current, man, before, stamped, reader, counts>>
-----------------------------------------------------------------------------
(* Maintenance of a closed log.                                            *)

Maintain(m, op) ==
  /\ phase = "closed" /\ admin < V6MaxAdmin
  /\ admin' = admin + 1
  /\ before' = Load /\ man' = m /\ phase' = "commit" /\ job' = Job(op, {}, <<>>)
  /\ UNCHANGED <<tail_file, manifests, current, v6hlc, writer, next_lsn, stamped, reader, ids,
                 v6acked, v6promised, v6crashes, v6faults, passes>>

\* plan_gc: what its reasons to keep a generation leave, in their order.
Collectable(d) ==
  {g \in DOMAIN d.gens :
     /\ g # d.active /\ d.gens[g] = "superseded" /\ ~d.hold
     /\ Authorities(d) \ {g} # {}}        \* with its min_verified_copies of 1

\* apply_gc: the generations of a segment that a plan leaves.
Without(d, plan) ==
  [d EXCEPT !.gens = [g \in {g \in DOMAIN @ : <<d.id, g>> \notin plan} |-> @[g]]]

\* plan_gc, assert_gc_invariant and apply_gc, then the removal of the files;
\* the manifest that no longer names them is committed after.  The grace
\* period may have passed for any part of what is collectable.
collect_garbage ==
  /\ Load # <<>>
  /\ \E plan \in SUBSET (UNION {{<<Load[i].id, g>> : g \in Collectable(Load[i])}
                                 : i \in DOMAIN Load}) :
       /\ plan # {}
       /\ \A i \in DOMAIN Load : \E g \in Authorities(Load[i]) : <<Load[i].id, g>> \notin plan
       /\ Maintain([i \in DOMAIN Load |-> Without(Load[i], plan)], "gc")
       /\ raw' = [s \in {s \in DOMAIN raw : <<s, RAW_GENERATION>> \notin plan} |-> raw[s]]
       /\ packed' = [k \in DOMAIN packed \ plan |-> packed[k]]

\* The PACKED authority with the highest number, else the RAW one.
BestAuthority(d, bad) == Max(Authorities(d) \ {bad})
\* quarantine_generation; nothing is committed if no authority remains.
Quarantined(d, bad, best) ==
  [d EXCEPT !.gens = [g \in DOMAIN @ |-> IF g = bad THEN "quarantined"
                                         ELSE IF g = best THEN "active" ELSE @[g]],
            !.active = best]
quarantine(i, bad) ==
  /\ Authorities(Load[i]) \ {bad} # {}
  /\ Maintain([Load EXCEPT ![i] = Quarantined(@, bad, BestAuthority(@, bad))], "maint")
  /\ UNCHANGED <<raw, packed>>

\* repack_segment of the PACKED generation readers use, and its record.
repack(i) ==
  /\ LET d == Load[i]
         g == next_physical_generation(d)
     IN  /\ d.active # RAW_GENERATION
         /\ packed' = Put(packed, <<d.id, g>>, FileContent(d.id, d.active))
         /\ Maintain([Load EXCEPT ![i] = record_pack(d, d.active, g)], "maint")
  /\ UNCHANGED raw

set_legal_hold(i, hold) ==
  /\ Load[i].hold # hold
  /\ Maintain([Load EXCEPT ![i].hold = hold], "maint")
  /\ UNCHANGED <<raw, packed>>

Kept == {g \in Generations : g = current \/ \A h \in Generations : h <= g}

\* prune_old_manifests(keep = 1).
prune_old_manifests ==
  /\ phase = "closed" /\ admin < V6MaxAdmin /\ Kept # Generations
  /\ admin' = admin + 1
  /\ manifests' = [g \in Kept |-> manifests[g]]
  /\ UNCHANGED <<tail_file, raw, packed, current, memory, phase, job, stamped, reader, ids,
                 v6acked, v6promised, v6crashes, v6faults, passes>>
-----------------------------------------------------------------------------
(* Faults.                                                                 *)

\* An I/O error in one of the steps made under the mutex.
v6_io_error ==
  /\ v6faults < V6MaxFaults /\ v6faults' = v6faults + 1
  /\ job.op = "gc" => GcInterrupted
  /\ \/ /\ phase \in {"commit", "current"} /\ "commit" \in V6FaultKinds
        /\ man' = before
        /\ UNCHANGED tail_file
     \/ /\ phase = "create" /\ "create" \in V6FaultKinds
        /\ tail_file' = IF HeaderMayBeLost
                        THEN [NewActive(writer.id + 1, next_lsn) EXCEPT !.hdr = FALSE]
                        ELSE tail_file
        /\ UNCHANGED man
     \/ /\ phase = "write" /\ "write" \in V6FaultKinds
        /\ tail_file' = [tail_file EXCEPT !.recs = Append(@, Torn)]
        /\ UNCHANGED man
     \/ /\ phase = "sync" /\ "sync" \in V6FaultKinds
        /\ UNCHANGED <<man, tail_file>>
  /\ stamped' = [c \in V6Appenders |-> IF c \in job.for THEN Unstamped ELSE stamped[c]]
  /\ phase' = IF job.op \in {"boot", "maint", "gc"} THEN "closed" ELSE "idle"
  /\ job' = NoJob
  /\ writer' = IF phase = "create" THEN NoWriter ELSE writer
  /\ UNCHANGED <<raw, packed, manifests, current, v6hlc, before, next_lsn, reader, ids,
                 v6acked, v6promised, v6crashes, admin, passes>>

\* What a crash may leave of the active file: a record or footer cut short,
\* and after a power loss any prefix that holds what was fsynced.
CrashedTail(kind) ==
  LET f == tail_file
      kept == IF kind = "power" /\ f.exists /\ ~f.foot THEN f.dur..Len(f.recs)
              ELSE {Len(f.recs)}
      cuts == {[f EXCEPT !.recs = SubSeq(@, 1, n) \o t] :
                 n \in kept, t \in IF phase \in {"write", "sync"} THEN {<<>>, <<Torn>>} ELSE {<<>>}}
  IN  {f} \cup {c \in cuts : f.exists}
      \cup (IF HeaderMayBeLost /\ phase = "create"
            THEN {[NewActive(NextSegment(man), next_lsn) EXCEPT !.hdr = FALSE]} ELSE {})

v6_crash(kind) ==
  /\ phase \notin {"closed", "refused"} /\ v6crashes < V6MaxCrashes
  /\ job.op = "gc" => GcInterrupted
  /\ v6crashes' = v6crashes + 1
  /\ tail_file' \in CrashedTail(kind)
  /\ v6hlc' = 0 /\ phase' = "closed" /\ man' = <<>> /\ before' = <<>> /\ writer' = NoWriter
  /\ next_lsn' = 0 /\ job' = NoJob /\ stamped' = [c \in V6Appenders |-> Unstamped]
  /\ reader' = NoRead /\ v6acked' = {}
  /\ UNCHANGED <<raw, packed, manifests, current, ids, v6promised, v6faults, admin, passes>>
-----------------------------------------------------------------------------
V6Next ==
  \/ \E c \in V6Appenders, p \in V6Clock : v6_append(c, p)
  \/ \E c \in V6Appenders : append_inner(c)
  \/ write_record \/ finish_append \/ v6_flush
  \/ seal_active \/ seal_footer \/ seal_rename
  \/ \E p \in V6Clock : create_active(p)
  \/ write_manifest \/ swap_current \/ pack_pending \/ pack_segment
  \/ \E lsn \in 0..(next_lsn - 1) : v6_read(lsn)
  \/ v6_read_done \/ v6_open \/ v6_activate
  \/ collect_garbage \/ prune_old_manifests
  \/ \E i \in DOMAIN Load : \/ \E bad \in DOMAIN Load[i].gens : quarantine(i, bad)
                            \/ repack(i)
                            \/ \E hold \in BOOLEAN : set_legal_hold(i, hold)
  \/ v6_io_error
  \/ \E kind \in V6CrashKinds : v6_crash(kind)

V6Spec == V6Init /\ [][V6Next]_v6vars
-----------------------------------------------------------------------------
(* Properties.                                                             *)

\* Every LSN below the head is read from wherever it is (the active file, a
\* RAW or a PACKED generation, before and after seals, packings, crashes and
\* maintenance) as the one record with that LSN, and as the episode whose
\* append returned that LSN; and a reader that opens its path after the mutex
\* is released gets that record or an error, never another answer
\* (V6Log::read).
V6ReadsExact ==
  LET exact(rd) == \E r \in RecordsAt(rd) :
                     /\ RecordsAt(rd) = {r}
                     /\ \A a \in v6acked : a[1] = rd.lsn => a[2] = r.id
  IN  /\ V6Idle /\ writer.open =>
           \A lsn \in 0..(next_lsn - 1) : PathExists(Located(lsn)) /\ exact(Located(lsn))
      /\ reader # NoRead /\ PathExists(reader) => exact(reader)

\* What an append under FsyncPolicy::Always, a flush or a seal made durable
\* is read again after every crash and every maintenance operation, at the
\* same LSN and with the same episode; and in the manifest the next boot would
\* load, every segment has the file of the generation readers use, holding
\* exactly the records that were sealed, however packing, quarantine,
\* collection and crashes interleave (gc.rs: the last authority is never
\* removed).  No crash between two file operations and no failed commit leaves
\* a directory that V6Log::open refuses (manifest.rs above commit: dying at
\* any point leaves CURRENT on a complete generation).
V6PromisesKept ==
  /\ phase # "refused"
  /\ V6Idle /\ writer.open =>
       \A a \in v6promised : a[1] < next_lsn /\ \E r \in RecordsAt(Located(a[1])) : r.id = a[2]
  /\ job.op # "gc" =>
       \A i \in DOMAIN Load :
         LET d == Load[i]
         IN  /\ IsAuthority(d.gens[d.active])
             /\ FileExists(d.id, d.active) /\ FileContent(d.id, d.active) = d.root

\* The stamps of the records follow LSN order (engine.rs above append: the
\* stamp is given inside the critical section that decides the LSN).
V6StampsFollowLsn ==
  LET recs == {tail_file.recs[i] : i \in DOMAIN tail_file.recs}
              \cup UNION {{raw[s][i] : i \in DOMAIN raw[s]} : s \in DOMAIN raw}
  IN  \A a, b \in recs \ {Torn} : a.lsn < b.lsn => a.ts < b.ts
=============================================================================
