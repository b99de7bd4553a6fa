--------------------------- MODULE HrklLogReaders ---------------------------
(***************************************************************************)
(* A reader of the log beside its worker.  Log::scan_capped and             *)
(* Log::manifest each load the head and the catalogue in two steps, in      *)
(* opposite orders, and then work on what they loaded while batches, rolls, *)
(* rollbacks and commits go on.                                            *)
(***************************************************************************)
EXTENDS HrklLog

VARIABLE rd      \* the reader: what it is doing and what it has loaded

rvars == <<vars, rd>>

Idle == [call |-> "none", head |-> 0, cat |-> NoCatalog]

\* The container the outer loop of scan_capped picks; none below every base.
container_for(cat, lsn) == ContainersFor(cat, lsn)

Later(a, b) == IF a > b THEN a ELSE b

\* The records from offset off on that the inner loop takes: consecutive
\* LSNs from lsn, below to, not past the end of a sealed container.
Run(cat, fs, c, off, lsn, to) ==
  LET recs == fs[c.seg + 1].recs
      last == IF c = cat.active THEN to - 1
              ELSE IF c.max < to - 1 THEN c.max ELSE to - 1
      first == {j \in DOMAIN recs : recs[j].off = off}
      taken == {j \in DOMAIN recs :
                  \E i \in first : /\ i <= j /\ lsn + (j - i) <= last
                                   /\ \A k \in i..j : recs[k].lsn = lsn + (k - i)}
  IN  [n \in 1..Cardinality(taken) |-> recs[(CHOOSE i \in first : TRUE) + n - 1]]

\* scan_capped without its cap, as a function of the cursor.  Every turn of
\* the outer loop moves the cursor: past what the inner loop read, past the
\* container when the index has no entry, or by one.
scan(cat, fs, from, to) ==
  LET go[lsn \in 0..to] ==
        IF lsn >= to THEN <<>>
        ELSE LET c == CHOOSE x \in container_for(cat, lsn) : TRUE
                 k == lsn - c.base + 1
                 next(l) == IF l > to THEN to ELSE l
             IN  IF container_for(cat, lsn) = {} THEN go[lsn + 1]
                 ELSE IF k > Len(c.entries) THEN go[next(Later(c.max + 1, lsn + 1))]
                 ELSE LET run == Run(cat, fs, c, c.entries[k].off, lsn, to)
                      IN  run \o go[next(Later(lsn + Len(run), lsn + 1))]
  IN  IF from >= to THEN <<>> ELSE go[from]

\* One entry per sealed segment, and one for the active segment if the head
\* is past its base.
manifest(cat, head) ==
  LET seg(c, last) == [id |-> c.seg, first |-> c.base, last |-> last,
                       count |-> last - c.base + 1]
  IN  [i \in DOMAIN cat.sealed |-> seg(cat.sealed[i], cat.sealed[i].max)]
        \o (IF head > cat.active.base THEN <<seg(cat.active, head - 1)>> ELSE <<>>)
-----------------------------------------------------------------------------
\* Bound: a reader starts before the first crash.
load_head ==
  /\ Opened /\ pc # "open_header" /\ rd.call \in {"none", "manifest"} /\ crashes = 0
  /\ rd' = IF rd.call = "none" THEN [rd EXCEPT !.call = "scan", !.head = committed_lsn]
           ELSE [rd EXCEPT !.call = "manifest_done", !.head = committed_lsn]
  /\ UNCHANGED vars

load_catalog ==
  /\ Opened /\ pc # "open_header" /\ rd.call \in {"none", "scan"} /\ crashes = 0
  /\ rd' = IF rd.call = "none" THEN [rd EXCEPT !.call = "manifest", !.cat = catalog]
           ELSE [rd EXCEPT !.call = "scan_loaded", !.cat = catalog]
  /\ UNCHANGED vars

done ==
  /\ rd.call \in {"scan_loaded", "manifest_done"}
  /\ rd' = Idle
  /\ UNCHANGED vars

\* The reader's thread dies with the process.
RInit == Init /\ rd = Idle
RNext ==
  \/ Next /\ rd' = IF crashes' = crashes THEN rd ELSE Idle
  \/ load_head \/ load_catalog \/ done
RSpec == RInit /\ [][RNext]_rvars
-----------------------------------------------------------------------------
\* A scan over any range returns every committed record of it once, in LSN
\* order, however many rolls, commits and failures came between the loads and
\* the reading (scan_capped: no gap, no repeat, no foreign record).
ScanExact ==
  rd.call = "scan_loaded" =>
    \A from \in 0..rd.head : \A to \in from..rd.head :
      LET out == scan(rd.cat, files, from, to)
      IN  /\ Len(out) = to - from
          /\ \A i \in DOMAIN out : out[i].lsn = from + i - 1

\* Both ways to read agree with the log: a read by LSN finds every record below
\* the head (Log::read), a scan every record of its range (Log::scan_capped).
ReadersExact == CommittedReadable /\ ScanExact

\* Log::manifest is "consistente com o head fsync-acked" (lib.rs, above
\* Log::manifest): the LSNs it assigns to a segment are in that segment.
ManifestConsistent ==
  rd.call = "manifest_done" =>
    LET m == manifest(rd.cat, rd.head)
    IN  \A i \in DOMAIN m : m[i].id = rd.cat.active.seg =>
          m[i].first..m[i].last
            \subseteq {files[m[i].id + 1].recs[j].lsn : j \in DOMAIN files[m[i].id + 1].recs}
=============================================================================
