----------------------- MODULE HrklLogRefinementProofs -----------------------
(***************************************************************************)
(* HrklLog implements EpisodeLog, for every value of its constants: LSNs   *)
(* are dense and ordered by files, so that the directory is one history    *)
(* of which a crash may only take the end.  On that order rests what reads *)
(* find: the catalogue points at every record below the head, at its true  *)
(* offset, in whatever phase the worker is.  So a scan returns every       *)
(* committed record of its range once and in order: a catalogue that is    *)
(* still in use is a prefix of the current one, and what it has of the     *)
(* LSNs below the head it was loaded for points where the records still    *)
(* are.                                                                    *)
(***************************************************************************)
EXTENDS HrklLogProofs, HrklLogRefinement, HrklLogReaders

-----------------------------------------------------------------------------
(* The order of the records.                                                *)

\* The records of a file come after those of the files before it.
FileOrder ==
  \A i, j \in DOMAIN files : i < j =>
    \A a \in 1..Len(files[i].recs), b \in 1..Len(files[j].recs) :
      files[i].recs[a].lsn < files[j].recs[b].lsn

\* When the worker has stopped its segment is still the last one with records,
\* and the others are fsynced.
DeadTail ==
  pc = "dead" => \A i \in DOMAIN files :
    /\ i > active.seg + 1 => files[i].recs = <<>>
    /\ i # active.seg + 1 => files[i].dur = Len(files[i].recs)

Has(fs, lsn) == \E r \in AllRecs(fs) : r.lsn = lsn

\* No LSN is left out.
Closed(fs) == \A r \in AllRecs(fs) : \A lsn \in Nat : lsn <= r.lsn => Has(fs, lsn)
Full(fs, n) == \A lsn \in Nat : lsn < n => Has(fs, lsn)
Dense ==
  /\ Closed(files)
  /\ Running => Full(files, NextPlace)
  /\ pc = "dead" => Full(files, committed_lsn)

OrderInv == FileOrder /\ DeadTail /\ Dense

LEMMA InitOrder == Init => OrderInv
<1> SUFFICES ASSUME Init PROVE OrderInv
  OBVIOUS
<1>1. ~Running /\ pc # "dead" /\ (files = <<>> \/ files = <<OldSegment>>)
  BY Zenon DEF Init, Running
<1>2. CASE files = <<>>
  <2>1. AllRecs(files) = {}
    BY <1>2 DEF AllRecs
  <2> QED BY <1>1, <1>2, <2>1 DEF OrderInv, FileOrder, DeadTail, Dense, Closed
<1>3. CASE files = <<OldSegment>>
  <2> DEFINE r == [lsn |-> 0, ts |-> 1, id |-> 0, off |-> HeaderLen, size |-> 1]
  <2>1. OldSegment.recs = <<r>>
    BY DEF OldSegment, EmptyFile
  <2>2. r.lsn = 0 /\ DOMAIN <<r>> = {1} /\ <<r>>[1] = r
    OBVIOUS
  <2> HIDE DEF r
  <2>3. DOMAIN files = {1} /\ files[1].recs = <<r>>
    BY <1>3, <2>1
  <2>4. AllRecs(files) = {r}
    BY <2>2, <2>3 DEF AllRecs
  <2>5. FileOrder
    BY <2>3 DEF FileOrder
  <2>6. Closed(files)
    BY <2>2, <2>4 DEF Closed, Has
  <2> QED BY <1>1, <2>5, <2>6 DEF OrderInv, DeadTail, Dense
<1> QED BY <1>1, <1>2, <1>3

\* Two records with one LSN are one.
LEMMA UniqueLsns ==
  ASSUME TypeInv, FilesSound, FileOrder, NEW q \in AllRecs(files), NEW r \in AllRecs(files),
         q.lsn = r.lsn
  PROVE  q = r
<1>1. /\ files \in Seq(File) /\ DOMAIN files = 1..Len(files) /\ Len(files) \in Nat
      /\ \A i \in DOMAIN files : files[i] \in File /\ FileSound(files[i])
      /\ q.lsn \in Nat
  BY FilesAre, RecordPlaces DEF FilesSound, Record
<1>2. PICK i \in DOMAIN files : \E a \in 1..Len(files[i].recs) : q = files[i].recs[a]
  BY <1>1, RecordPlaces
<1>3. PICK j \in DOMAIN files : \E b \in 1..Len(files[j].recs) : r = files[j].recs[b]
  BY <1>1, RecordPlaces
<1>4. PICK a \in 1..Len(files[i].recs) : q = files[i].recs[a]
  BY <1>2
<1>5. PICK b \in 1..Len(files[j].recs) : r = files[j].recs[b]
  BY <1>3
<1>6. ~(i < j) /\ ~(j < i)
  <2>1. ~(q.lsn < r.lsn) /\ ~(r.lsn < q.lsn)
    BY <1>1
  <2> QED BY <1>4, <1>5, <2>1 DEF FileOrder
<1>7. i = j
  BY <1>1, <1>6
<1>8. ~(a < b) /\ ~(b < a)
  <2>1. ~(q.lsn < r.lsn) /\ ~(r.lsn < q.lsn)
    BY <1>1
  <2>2. FileSound(files[i])
    BY <1>1
  <2> QED BY <1>4, <1>5, <1>7, <2>1, <2>2 DEF FileSound
<1>9. Len(files[i].recs) \in Nat
  BY <1>1, FileRecs
<1> QED BY <1>4, <1>5, <1>7, <1>8, <1>9

\* While there are files in use, the active segment is the last with records,
\* and the others are fsynced.
LEMMA TailIsActive ==
  ASSUME TypeInv, DirInv, DeadTail, pc \notin {"closed", "refused"}
  PROVE  \A i \in DOMAIN files :
           /\ i > active.seg + 1 => files[i].recs = <<>>
           /\ i # active.seg + 1 => files[i].dur = Len(files[i].recs)
<1>1. DOMAIN files = 1..Len(files) /\ Len(files) \in Nat /\ active.seg \in Nat
  BY FilesAre
<1>2. CASE pc = "dead"
  BY <1>2 DEF DeadTail
<1>3. CASE Running
  <2>1. \A i \in DOMAIN files : i # active.seg + 1 => files[i].dur = Len(files[i].recs)
    BY <1>3 DEF DirInv, OthersDurable
  <2>2. CASE pc = "roll_header"
    <3>1. active.seg + 2 = Len(files)
      BY <2>2 DEF TypeInv, TypeOK, WorkerShape
    <3>2. files[Len(files)].recs = <<>>
      BY <2>2 DEF DirInv, CreatedEmpty, Creating
    <3>3. \A i \in DOMAIN files : i > active.seg + 1 => i = Len(files)
      BY <1>1, <3>1
    <3> QED BY <2>1, <3>2, <3>3
  <2>3. CASE pc # "roll_header"
    <3>1. active.seg + 1 = Len(files)
      BY <1>3, <2>3 DEF Running, TypeInv, ActiveIsLast
    <3>2. \A i \in DOMAIN files : ~(i > active.seg + 1)
      BY <1>1, <3>1
    <3> QED BY <2>1, <3>2
  <2> QED BY <2>2, <2>3
<1> QED BY <1>2, <1>3 DEF Running

\* A file that loses its last records, or is dropped with none, leaves the
\* order as it was.
LEMMA WithinOrder ==
  ASSUME TypeInv, TypeInv', FileOrder, Within(files', files)
  PROVE  FileOrder'
<1>1. /\ files \in Seq(File) /\ files' \in Seq(File)
      /\ DOMAIN files' = 1..Len(files') /\ Len(files') \in Nat
      /\ \A i \in DOMAIN files : files[i] \in File
      /\ \A i \in DOMAIN files' : files'[i] \in File
  BY LenProperties, ElementOfSeq DEF TypeInv, TypeOK, DirectoryType
<1>2. ASSUME NEW i \in DOMAIN files', NEW a \in 1..Len(files'[i].recs)
      PROVE  i \in DOMAIN files /\ a \in 1..Len(files[i].recs) /\ files'[i].recs[a] = files[i].recs[a]
  <2>1. Len(<<>>) = 0 /\ Len(files'[i].recs) \in Nat
    BY <1>1, FileRecs
  <2>2. files'[i].recs # <<>>
    BY <1>2, <2>1
  <2>3. i \in DOMAIN files /\ Shorter(files'[i], files[i])
    BY <2>2 DEF Within
  <2>4. Len(files[i].recs) \in Nat
    BY <1>1, <2>3, FileRecs
  <2> QED BY <2>1, <2>3, <2>4 DEF Shorter
<1> QED BY <1>2 DEF FileOrder
-----------------------------------------------------------------------------
(* What a failure takes.                                                    *)

\* A file that is fsynced and not the active one keeps its records.
LEMMA LossOther ==
  ASSUME TypeInv, DirInv, NEW i \in DOMAIN files, i # active.seg + 1,
         files[i].dur = Len(files[i].recs), NEW kind, NEW g, Loss(kind, g, i)
  PROVE  g.recs = files[i].recs /\ (kind # "power" => g = files[i])
<1> DEFINE f == files[i]
<1>1. f \in File /\ FileSound(f) /\ f.recs \in Seq(Record) /\ Len(f.recs) \in Nat
  BY FilesAre, FileRecs DEF DirInv, FilesSound
<1>2. CASE g \in SurvivingImages(f) /\ kind = "power"
  <2>1. g \in File /\ Shorter(g, f) /\ KeepsDurable(g, f)
    BY <1>1, <1>2, ImageSound
  <2>2. g.recs \in Seq(Record) /\ Len(g.recs) \in Nat /\ g.dur \in Nat
    BY <2>1, FileRecs
  <2>3. Len(g.recs) = Len(f.recs)
    BY <1>1, <2>1, <2>2 DEF Shorter, KeepsDurable
  <2>4. \A j \in 1..Len(f.recs) : g.recs[j] = f.recs[j]
    BY <2>1, <2>3 DEF Shorter
  <2> HIDE DEF f
  <2>5. g.recs = f.recs
    BY <1>1, <2>2, <2>3, <2>4, SeqEqual
  <2> QED BY <1>2, <2>5 DEF f
<1>3. g = f \/ (g \in SurvivingImages(f) /\ kind = "power")
  BY SMT DEF Loss
<1> QED BY <1>2, <1>3

\* The directory a failure leaves, file by file.
LEMMA LostRecs ==
  ASSUME TypeInv, TypeInv', DirInv, DeadTail, pc \notin {"closed", "refused"}, NEW kind,
         NEW hs \in Seq(File), NEW new \in NewFileImages, LostTo(kind, hs, new),
         kind = "io" => InBatch
  PROVE  /\ Within(files', files)
         /\ \A m \in DOMAIN files : \/ files[m].recs = <<>> \/ m = active.seg + 1
                                    \/ m \in DOMAIN files' /\ files'[m].recs = files[m].recs
         /\ \A m \in DOMAIN files' : m > active.seg + 1 => files'[m].recs = <<>>
         /\ kind = "io" => \A m \in DOMAIN files' :
                             m # active.seg + 1 => files'[m].dur = Len(files'[m].recs)
<1> DEFINE k == active.seg + 1
<1>1. /\ DOMAIN files = 1..Len(files) /\ Len(files) \in Nat /\ active.seg \in Nat
      /\ Len(hs) \in Nat /\ DOMAIN hs = 1..Len(hs) /\ files' = hs \o new
      /\ k \in DOMAIN files /\ DOMAIN files' = 1..Len(files')
  BY FilesAre, LenProperties, ZenonT(40) DEF LostTo, TypeInv, TypeOK, DirectoryType
<1>2. \A i \in DOMAIN files : /\ i > k => files[i].recs = <<>>
                              /\ i # k => files[i].dur = Len(files[i].recs)
  BY TailIsActive
<1>3. IF Creating THEN Len(hs) + 1 = Len(files) ELSE Len(hs) = Len(files)
  BY DEF LostTo
<1>4. \A m \in 1..Len(hs) : m \in DOMAIN files
  <2>1. Len(hs) + 1 = Len(files) \/ Len(hs) = Len(files)
    BY <1>3
  <2>2. Len(hs) \in Nat /\ Len(files) \in Nat
    BY <1>1
  <2>3. \A m \in 1..Len(hs) : m \in 1..Len(files)
    BY <2>1, <2>2
  <2> QED BY <1>1, <2>3
<1>5. \A m \in DOMAIN files : m \in 1..Len(hs) \/ files[m].recs = <<>>
  <2>1. CASE Creating
    <3>1. files[Len(files)].recs = <<>>
      BY <2>1 DEF DirInv, CreatedEmpty
    <3>2. \A m \in DOMAIN files : m \in 1..Len(hs) \/ m = Len(files)
      BY <1>1, <1>3, <2>1
    <3> QED BY <3>1, <3>2
  <2>2. CASE ~Creating
    <3>1. Len(hs) = Len(files)
      BY <1>3, <2>2
    <3> QED BY <1>1, <3>1
  <2> QED BY <2>1, <2>2
<1>6. \A m \in DOMAIN files' : (m \in 1..Len(hs) /\ files'[m] = hs[m])
                               \/ (m = Len(hs) + 1 /\ files'[m].recs = <<>> /\ files'[m].dur = 0)
  <2>1. \A m \in DOMAIN (hs \o new) :
           \/ m \in 1..Len(hs) /\ (hs \o new)[m] = hs[m]
           \/ /\ m = Len(hs) + 1 /\ m = Len(hs \o new)
              /\ (hs \o new)[m] \in {EmptyFile, [EmptyFile EXCEPT !.hdr = "torn"]}
              /\ (hs \o new)[m] = EmptyFile => EmptyFileSurvives
    BY NewImageOpen
  <2>2. \A f \in {EmptyFile, [EmptyFile EXCEPT !.hdr = "torn"]} : f.recs = <<>> /\ f.dur = 0
    BY DEF EmptyFile
  <2> QED BY <1>1, <2>1, <2>2
<1>7. \A m \in 1..Len(hs) : m \in DOMAIN files' /\ files'[m] = hs[m]
  <2> HIDE DEF k
  <2>1. WithCreated(files', hs)
    BY <1>1, NewImage
  <2> QED BY <1>1, <2>1 DEF WithCreated
<1>8. \A m \in 1..Len(hs) : Loss(kind, hs[m], m)
  BY DEF LostTo
<1>9. \A m \in 1..Len(hs) : LeftOf(hs[m], m)
  BY <1>4, <1>8, LossLeft
<1>10. \A m \in 1..Len(hs) : m # k => hs[m].recs = files[m].recs /\ (kind # "power" => hs[m] = files[m])
  BY <1>2, <1>4, <1>8, LossOther
<1>11. Within(files', files)
  BY <1>4, <1>6, <1>9 DEF Within, LeftOf
<1>12. \A m \in DOMAIN files : \/ files[m].recs = <<>> \/ m = k
                               \/ m \in DOMAIN files' /\ files'[m].recs = files[m].recs
  BY <1>5, <1>7, <1>10
<1>13. \A m \in DOMAIN files' : m > k => files'[m].recs = <<>>
  BY <1>1, <1>2, <1>4, <1>6, <1>10
<1>14. kind = "io" => \A m \in DOMAIN files' : m # k => files'[m].dur = Len(files'[m].recs)
  <2>1. Len(<<>>) = 0
    OBVIOUS
  <2> QED BY <1>2, <1>4, <1>6, <1>10, <2>1
<1> QED BY <1>11, <1>12, <1>13, <1>14

\* A failure takes the end of the active file, so no gap opens and the records
\* keep their order.
LEMMA LostOrder ==
  ASSUME TypeInv, TypeInv', DirInv, FileOrder, DeadTail, Closed(files),
         pc \notin {"closed", "refused"}, NEW kind,
         NEW hs \in Seq(File), NEW new \in NewFileImages, LostTo(kind, hs, new),
         kind = "io" => InBatch
  PROVE  FileOrder' /\ Closed(files')
<1> DEFINE k == active.seg + 1
<1>1. /\ files \in Seq(File) /\ DOMAIN files = 1..Len(files) /\ Len(files) \in Nat
      /\ \A i \in DOMAIN files : files[i] \in File /\ FileSound(files[i])
      /\ files' \in Seq(File) /\ DOMAIN files' = 1..Len(files') /\ Len(files') \in Nat
      /\ \A i \in DOMAIN files' : files'[i] \in File
      /\ k \in Nat
  BY FilesAre, LenProperties, ElementOfSeq DEF DirInv, FilesSound, TypeInv, TypeOK, DirectoryType
<1>2. /\ Within(files', files)
      /\ \A m \in DOMAIN files : \/ files[m].recs = <<>> \/ m = k
                                 \/ m \in DOMAIN files' /\ files'[m].recs = files[m].recs
      /\ \A m \in DOMAIN files' : m > k => files'[m].recs = <<>>
  BY LostRecs
<1>3. FileOrder'
  BY <1>2, WithinOrder
<1> HIDE DEF k
<1>4. ASSUME NEW r \in AllRecs(files'), NEW lsn \in Nat, lsn <= r.lsn
      PROVE  Has(files', lsn)
  <2>1. r \in AllRecs(files)
    BY <1>1, <1>2, WithinRecs
  <2>2. PICK q \in AllRecs(files) : q.lsn = lsn
    BY <1>4, <2>1 DEF Closed, Has
  <2>3. PICK m \in DOMAIN files : \E a \in 1..Len(files[m].recs) : q = files[m].recs[a]
    <3>1. q \in AllRecs(files) /\ files \in Seq(File)
      BY <1>1, <2>2
    <3> QED BY <3>1, RecordPlaces
  <2>4. PICK a \in 1..Len(files[m].recs) : q = files[m].recs[a]
    BY <2>3
  <2>5. PICK j \in DOMAIN files' : \E b \in 1..Len(files'[j].recs) : r = files'[j].recs[b]
    <3>1. r \in AllRecs(files') /\ files' \in Seq(File)
      BY <1>1, <1>4
    <3> QED BY <3>1, RecordPlaces
  <2>6. PICK b \in 1..Len(files'[j].recs) : r = files'[j].recs[b]
    BY <2>5
  <2>7. /\ Len(files[m].recs) \in Nat /\ Len(files'[j].recs) \in Nat
        /\ files[m].recs # <<>> /\ files'[j].recs # <<>>
    <3>1. Len(<<>>) = 0 /\ Len(files[m].recs) \in Nat /\ Len(files'[j].recs) \in Nat
      BY <1>1, FileRecs
    <3> QED BY <2>4, <2>6, <3>1
  <2>8. /\ j \in DOMAIN files /\ Shorter(files'[j], files[j]) /\ j <= k
        /\ Len(files[j].recs) \in Nat
    <3>1. j \in DOMAIN files /\ Shorter(files'[j], files[j])
      BY <1>2, <2>7 DEF Within
    <3>2. ~(j > k)
      BY <1>2, <2>7
    <3>3. Len(files[j].recs) \in Nat
      BY <1>1, <3>1, FileRecs
    <3> QED BY <1>1, <3>1, <3>2, <3>3
  <2>9. b \in 1..Len(files[j].recs) /\ r = files[j].recs[b]
    BY <2>6, <2>7, <2>8 DEF Shorter
  <2>10. m \in DOMAIN files' /\ a \in 1..Len(files'[m].recs) /\ files'[m].recs[a] = q
    <3>1. CASE m # k
      BY <1>2, <2>4, <2>7, <3>1
    <3>2. CASE m = k /\ j < k
      <4>1. r.lsn < q.lsn
        BY <2>4, <2>8, <2>9, <3>2 DEF FileOrder
      <4>2. r.lsn \in Nat
        BY <1>1, <2>1, RecordPlaces DEF Record
      <4> QED BY <1>4, <2>2, <4>1, <4>2
    <3>3. CASE m = k /\ j = k
      <4>1. a <= b
        <5>1. SUFFICES ASSUME b < a PROVE FALSE
          BY <2>7
        <5>2. r.lsn < q.lsn
          BY <1>1, <2>4, <2>9, <3>3, <5>1 DEF FileSound
        <5>3. r.lsn \in Nat
          BY <1>1, <2>1, RecordPlaces DEF Record
        <5> QED BY <1>4, <2>2, <5>2, <5>3
      <4>2. a \in 1..Len(files'[m].recs)
        BY <2>7, <3>3, <4>1
      <4> QED BY <2>4, <2>8, <3>3, <4>2 DEF Shorter
    <3> QED BY <1>1, <2>8, <3>1, <3>2, <3>3
  <2>11. q \in AllRecs(files')
    BY <1>1, <2>10, RecordPlaces
  <2> QED BY <2>2, <2>11 DEF Has
<1> QED BY <1>3, <1>4 DEF Closed

\* A rollback takes nothing that was published.
LEMMA RollbackKeeps ==
  ASSUME TypeInv, DirInv, InBatch, NEW g, Loss("io", g, active.seg + 1)
  PROVE  \A j \in 1..Len(ActiveFile.recs) :
           ActiveFile.recs[j].lsn < current_lsn =>
             j \in 1..Len(g.recs) /\ g.recs[j] = ActiveFile.recs[j]
<1> DEFINE f == ActiveFile
<1>1. /\ f \in File /\ FileSound(f) /\ Len(f.recs) \in Nat /\ baseline \in Baseline
      /\ active.seg + 1 \in DOMAIN files
  BY FilesAre, FileRecs DEF DirInv, FilesSound, ActiveFile, InBatch
<1>2. \A j \in 1..Len(f.recs) : f.recs[j].lsn < current_lsn => f.recs[j].off < baseline.bytes
  BY DEF DirInv, ActiveSound, InBatch, Running
<1>3. g.recs = f.recs \/ g = rollback_active_file(f)
  <2>1. f \in File
    BY <1>1
  <2>2. \/ g = f \/ g = rollback_active_file(f)
        \/ \E half \in BOOLEAN : g = [f EXCEPT !.torn = half]
    BY SMT DEF Loss, ActiveFile
  <2> HIDE DEF f
  <2>3. ASSUME NEW half \in BOOLEAN, g = [f EXCEPT !.torn = half]
        PROVE  g.recs = f.recs
    BY <2>1, <2>3 DEF File
  <2> QED BY <2>2, <2>3
<1>4. CASE g.recs = f.recs
  BY <1>4
<1>5. CASE g = rollback_active_file(f)
  <2> HIDE DEF f
  <2>1. /\ Shorter(g, f) /\ g \in File
        /\ \A j \in 1..Len(f.recs) : f.recs[j].off < baseline.bytes => j <= Len(g.recs)
    BY <1>1, <1>5, RollbackSound
  <2>2. Len(g.recs) \in Nat
    BY <2>1, FileRecs
  <2>3. \A j \in 1..Len(f.recs) : f.recs[j].lsn < current_lsn =>
          j \in 1..Len(g.recs) /\ g.recs[j] = f.recs[j]
    BY <1>1, <1>2, <2>1, <2>2 DEF Shorter
  <2> QED BY <2>3 DEF f
<1> QED BY <1>3, <1>4, <1>5

\* After an I/O error everything published is still there.
LEMMA ErrorKeeps ==
  ASSUME TypeInv, TypeInv', DirInv, DeadTail, InBatch, Running,
         NEW hs \in Seq(File), NEW new \in NewFileImages, LostTo("io", hs, new)
  PROVE  \A r \in AllRecs(files) : r.lsn < current_lsn => r \in AllRecs(files')
<1> DEFINE k == active.seg + 1
<1>1. /\ files \in Seq(File) /\ DOMAIN files = 1..Len(files) /\ Len(files) \in Nat
      /\ files' \in Seq(File) /\ \A i \in DOMAIN files : files[i] \in File
      /\ k \in DOMAIN files /\ pc \notin {"closed", "refused"}
  BY FilesAre DEF TypeInv, TypeOK, DirectoryType, Running
<1>2. \A m \in DOMAIN files : \/ files[m].recs = <<>> \/ m = k
                              \/ m \in DOMAIN files' /\ files'[m].recs = files[m].recs
  BY <1>1, LostRecs
<1>3. k \in 1..Len(hs) /\ Len(hs) \in Nat
  <2>1. Len(hs) \in Nat /\ (Creating => k + 1 = Len(files)) /\ k \in Nat
    <3>1. active.seg \in Nat
      BY FilesAre
    <3>2. Creating => active.seg + 2 = Len(files)
      BY DEF Creating, InBatch, TypeInv, TypeOK, WorkerShape
    <3>3. Len(hs) \in Nat
      BY LenProperties
    <3> QED BY <3>1, <3>2, <3>3
  <2>2. IF Creating THEN Len(hs) + 1 = Len(files) ELSE Len(hs) = Len(files)
    BY DEF LostTo
  <2>3. k \in 1..Len(files) /\ Len(files) \in Nat
    BY <1>1
  <2> HIDE DEF k
  <2>4. CASE Creating
    BY <2>1, <2>2, <2>3, <2>4
  <2>5. CASE ~Creating
    BY <2>1, <2>2, <2>3, <2>5
  <2> QED BY <2>4, <2>5
<1>4. k \in DOMAIN files' /\ files'[k] = hs[k] /\ Loss("io", hs[k], k)
  <2>1. WithCreated(files', hs) /\ DOMAIN files' = 1..Len(files') /\ Len(files') \in Nat
    BY <1>1, NewImage, LenProperties, ZenonT(40) DEF LostTo
  <2>2. Loss("io", hs[k], k)
    BY <1>3 DEF LostTo
  <2> HIDE DEF k
  <2> QED BY <1>3, <2>1, <2>2 DEF WithCreated
<1>5. \A j \in 1..Len(files[k].recs) : files[k].recs[j].lsn < current_lsn =>
        j \in 1..Len(files'[k].recs) /\ files'[k].recs[j] = files[k].recs[j]
  BY <1>4, RollbackKeeps DEF ActiveFile
<1> HIDE DEF k
<1> SUFFICES ASSUME NEW r \in AllRecs(files), r.lsn < current_lsn PROVE r \in AllRecs(files')
  OBVIOUS
<1>6. PICK m \in DOMAIN files : \E a \in 1..Len(files[m].recs) : r = files[m].recs[a]
  BY <1>1, RecordPlaces
<1>7. PICK a \in 1..Len(files[m].recs) : r = files[m].recs[a]
  BY <1>6
<1>8. m \in DOMAIN files' /\ a \in 1..Len(files'[m].recs) /\ r = files'[m].recs[a]
  <2>1. CASE m = k
    BY <1>4, <1>5, <1>7, <2>1
  <2>2. CASE m # k
    <3>1. Len(<<>>) = 0 /\ Len(files[m].recs) \in Nat
      BY <1>1, FileRecs
    <3>2. files[m].recs # <<>>
      BY <1>7, <3>1
    <3> QED BY <1>2, <1>7, <2>2, <3>2
  <2> QED BY <2>1, <2>2
<1> QED BY <1>1, <1>8, RecordPlaces

LEMMA FailureOrder ==
  ASSUME HeadInv, TypeInv', DirInv, OrderInv, io_error \/ process_crash \/ power_loss
  PROVE  /\ OrderInv' /\ AllRecs(files') \subseteq AllRecs(files) /\ FilesSound'
         /\ io_error => \A r \in AllRecs(files) : r.lsn < committed_lsn => r \in AllRecs(files')
<1>1. /\ TypeInv /\ FileOrder /\ DeadTail /\ Closed(files) /\ pc \notin {"closed", "refused"}
      /\ (io_error => InBatch /\ Running)
      /\ AllRecs(files') \subseteq AllRecs(files) /\ FilesSound'
  <2>1. pc \notin {"closed", "refused"} /\ (io_error => InBatch /\ Running)
    BY DEF io_error, process_crash, power_loss, Restart, Writing, InBatch, Running
  <2> QED BY <2>1, FailureDir DEF HeadInv, OrderInv, Dense, DirInv
<1>2. CASE io_error
  <2>1. PICK hs \in Seq(File), new \in NewFileImages : LostTo("io", hs, new)
    BY <1>1, <1>2, IoErrorLoss
  <2>2. FileOrder' /\ Closed(files')
    BY <1>1, <1>2, <2>1, LostOrder
  <2>3. pc' = "dead" /\ committed_lsn' = committed_lsn /\ active'.seg = active.seg
    <3> DEFINE hashes == SubSeq(active.hashes, 1, baseline.hashes)
    <3>1. /\ pc' = "dead" /\ committed_lsn' = committed_lsn
          /\ active' = [active EXCEPT !.bytes = baseline.bytes, !.hashes = hashes,
                                      !.max = baseline.max]
      BY <1>2, Zenon DEF io_error
    <3>2. active \in ActiveSegment
      BY <1>1 DEF TypeInv, TypeOK, WorkerType
    <3> HIDE DEF hashes
    <3> QED BY <3>1, <3>2 DEF ActiveSegment
  <2>4. committed_lsn = current_lsn /\ committed_lsn \in Nat
    BY <1>1, <1>2 DEF HeadInv, HeadIsPublished, Running, TypeInv, TypeOK, CountersType
  <2>5. \A r \in AllRecs(files) : r.lsn < current_lsn => r \in AllRecs(files')
    BY <1>1, <1>2, <2>1, ErrorKeeps
  <2>6. DeadTail'
    BY <1>1, <1>2, <2>1, <2>3, LostRecs DEF DeadTail
  <2>7. committed_lsn <= NextPlace
    <3>1. InBatch => Len(stash) \in Nat /\ tentative_lsn = current_lsn + Len(stash)
      BY LenProperties DEF HeadInv, StashDense, TypeInv, TypeOK, CallsType
    <3> QED BY <1>1, <1>2, <2>4, <3>1 DEF NextPlace
  <2>8. NextPlace \in Nat
    BY <1>1 DEF NextPlace, TypeInv, TypeOK, CountersType
  <2>9. Full(files', committed_lsn)
    <3> SUFFICES ASSUME NEW lsn \in Nat, lsn < committed_lsn PROVE Has(files', lsn)
      BY DEF Full
    <3>1. Has(files, lsn)
      BY <1>1, <1>2, <2>4, <2>7, <2>8 DEF OrderInv, Dense, Full
    <3>2. PICK r \in AllRecs(files) : r.lsn = lsn
      BY <3>1 DEF Has
    <3>3. r \in AllRecs(files')
      BY <2>4, <2>5, <3>2
    <3> QED BY <3>2, <3>3 DEF Has
  <2>10. Dense'
    BY <2>2, <2>3, <2>9 DEF Dense, Running
  <2> QED BY <1>1, <2>2, <2>4, <2>5, <2>6, <2>10 DEF OrderInv
<1>3. CASE process_crash \/ power_loss
  <2>1. PICK kind \in {"process", "power"} :
          \E hs \in Seq(File), new \in NewFileImages : LostTo(kind, hs, new)
    BY <1>1, <1>3, ProcessCrashLoss, PowerLoss
  <2>2. PICK hs \in Seq(File), new \in NewFileImages : LostTo(kind, hs, new)
    BY <2>1
  <2>3. FileOrder' /\ Closed(files')
    BY <1>1, <2>1, <2>2, LostOrder
  <2>4. pc' = "closed"
    BY <1>3 DEF process_crash, power_loss, Restart
  <2>5. ~io_error
    BY <2>4 DEF io_error
  <2> QED BY <1>1, <2>3, <2>4, <2>5 DEF OrderInv, DeadTail, Dense, Running
<1> QED BY <1>2, <1>3

\* A step that moves no record leaves the order as it was.
LEMMA SameOrder ==
  ASSUME TypeInv, TypeInv', OrderInv, Within(files', files), AllRecs(files') = AllRecs(files),
         Running' => Running /\ NextPlace' = NextPlace,
         pc' = "dead" => UNCHANGED <<pc, active, files, committed_lsn>>
  PROVE  OrderInv'
<1>1. FileOrder'
  BY WithinOrder DEF OrderInv
<1>2. \A n : (Full(files, n) => Full(files', n)) /\ (Closed(files) => Closed(files'))
  BY DEF Full, Closed, Has
<1>3. Dense'
  <2>1. CASE pc' = "dead"
    BY <1>2, <2>1 DEF OrderInv, Dense, Running
  <2>2. CASE pc' # "dead"
    BY <1>2, <2>2 DEF OrderInv, Dense
  <2> QED BY <2>1, <2>2
<1>4. DeadTail'
  <2>1. CASE pc' = "dead"
    <3>1. pc = "dead" /\ files' = files /\ active' = active
      BY <2>1
    <3> QED BY <3>1 DEF OrderInv, DeadTail
  <2>2. CASE pc' # "dead"
    BY <2>2 DEF DeadTail
  <2> QED BY <2>1, <2>2
<1> QED BY <1>1, <1>3, <1>4 DEF OrderInv

LEMMA SameWithin ==
  ASSUME TypeInv, TypeInv',
         \A i \in DOMAIN files' : \/ i \in DOMAIN files /\ files'[i].recs = files[i].recs
                                  \/ files'[i].recs = <<>>
  PROVE  Within(files', files)
<1>1. \A i \in DOMAIN files : Len(files[i].recs) \in Nat
  BY FilesAre, FileRecs
<1> QED BY <1>1 DEF Within, Shorter

\* The placed record comes after every other.
LEMMA PlaceOrder ==
  ASSUME HeadInv, TypeInv', DirInv, CommandsSound, OrderInv, place
  PROVE  OrderInv'
<1> DEFINE k == active.seg + 1
<1>1. /\ TypeInv /\ k \in DOMAIN files /\ k = Len(files) /\ DOMAIN files' = DOMAIN files
      /\ \A i \in DOMAIN files : i # k => files'[i] = files[i]
      /\ DOMAIN files = 1..Len(files) /\ Len(files) \in Nat
      /\ \A i \in DOMAIN files : files[i] \in File
      /\ Running /\ Running' /\ InBatch /\ InBatch' /\ pc' = "write"
  <2>1. TypeInv
    BY DEF HeadInv
  <2>2. InBatch /\ pc' = "write" /\ InBatch'
    BY DEF place, InBatch
  <2> QED BY <2>1, <2>2, PlaceFiles, FilesAre
<1>2. files'[k].recs = Append(files[k].recs, Placed)
  <2>1. files' = [files EXCEPT ![k].recs = Append(@, Placed)]
    BY Zenon DEF place, Placed, ActiveFile
  <2>2. files[k] \in File
    BY <1>1
  <2> DEFINE f == files[k]
             g == [f EXCEPT !.recs = Append(@, Placed)]
  <2>3. files'[k] = g
    BY <1>1, <2>1
  <2>4. g.recs = Append(f.recs, Placed)
    BY <2>2 DEF File
  <2> QED BY <2>3, <2>4
<1>3. /\ AllRecs(files') = AllRecs(files) \cup {Placed}
      /\ \A r \in AllRecs(files) : r.lsn \in Nat /\ r.lsn < tentative_lsn
      /\ Placed.lsn = tentative_lsn /\ tentative_lsn \in Nat /\ tentative_lsn' = tentative_lsn + 1
      /\ files \in Seq(File)
  <2>1. \A r \in AllRecs(files) : r.lsn < tentative_lsn
    BY <1>1 DEF DirInv, RecordsBelow, NextPlace
  <2>2. files \in Seq(File) /\ tentative_lsn \in Nat
    BY <1>1 DEF TypeInv, TypeOK, DirectoryType, CountersType
  <2>3. \A r \in AllRecs(files) : r.lsn \in Nat
    BY <2>2, RecordPlaces DEF Record
  <2>4. tentative_lsn' = tentative_lsn + 1
    BY DEF place
  <2> QED BY <2>1, <2>2, <2>3, <2>4, PlaceDir DEF Placed
<1>4. /\ Len(files[k].recs) \in Nat /\ Len(files'[k].recs) = Len(files[k].recs) + 1
      /\ \A b \in 1..Len(files[k].recs) : files'[k].recs[b] = files[k].recs[b]
      /\ files'[k].recs[Len(files[k].recs) + 1] = Placed
  <2> DEFINE s == files[k].recs
  <2>1. s \in Seq(Record) /\ Len(s) \in Nat
    BY <1>1, FileRecs
  <2>2. s \in Seq(Record \cup {Placed}) /\ Placed \in Record \cup {Placed}
    BY <2>1
  <2> HIDE DEF s
  <2>3. /\ Len(Append(s, Placed)) = Len(s) + 1 /\ Append(s, Placed)[Len(s) + 1] = Placed
        /\ \A b \in 1..Len(s) : Append(s, Placed)[b] = s[b]
    BY <2>2, AppendProperties
  <2> QED BY <1>2, <2>1, <2>3 DEF s
<1> HIDE DEF k
<1>5. FileOrder'
  <2> SUFFICES ASSUME NEW i \in DOMAIN files, NEW j \in DOMAIN files, i < j,
                      NEW a \in 1..Len(files'[i].recs), NEW b \in 1..Len(files'[j].recs)
               PROVE  files'[i].recs[a].lsn < files'[j].recs[b].lsn
    BY <1>1 DEF FileOrder
  <2>1. i # k /\ files'[i] = files[i] /\ a \in 1..Len(files[i].recs)
    BY <1>1
  <2>2. CASE j # k
    BY <1>1, <2>1, <2>2 DEF OrderInv, FileOrder
  <2>3. CASE j = k /\ b \in 1..Len(files[k].recs)
    BY <1>1, <1>4, <2>1, <2>3 DEF OrderInv, FileOrder
  <2>4. CASE j = k /\ b = Len(files[k].recs) + 1
    <3>1. files[i].recs[a] \in AllRecs(files)
      BY <1>3, <2>1, RecordPlaces
    <3> QED BY <1>3, <1>4, <2>1, <2>4, <3>1
  <2>5. b \in 1..Len(files[k].recs) \/ b = Len(files[k].recs) + 1 \/ j # k
    BY <1>4
  <2> QED BY <2>2, <2>3, <2>4, <2>5
<1>6. Full(files', tentative_lsn + 1)
  <2> SUFFICES ASSUME NEW lsn \in Nat, lsn < tentative_lsn + 1 PROVE Has(files', lsn)
    BY DEF Full
  <2>1. CASE lsn = tentative_lsn
    BY <1>3, <2>1 DEF Has
  <2>2. CASE lsn < tentative_lsn
    <3>1. Full(files, tentative_lsn)
      BY <1>1 DEF OrderInv, Dense, NextPlace
    <3> QED BY <1>3, <2>2, <3>1 DEF Full, Has
  <2> QED BY <1>3, <2>1, <2>2
<1>7. Dense'
  <2>1. Closed(files')
    <3> SUFFICES ASSUME NEW r \in AllRecs(files'), NEW lsn \in Nat, lsn <= r.lsn
                 PROVE  Has(files', lsn)
      BY DEF Closed
    <3>1. r.lsn \in Nat /\ r.lsn < tentative_lsn + 1
      BY <1>3
    <3> QED BY <1>3, <1>6, <3>1 DEF Full
  <2>2. NextPlace' = tentative_lsn + 1
    BY <1>1, <1>3 DEF NextPlace
  <2> QED BY <1>1, <1>6, <2>1, <2>2 DEF Dense
<1> QED BY <1>1, <1>5, <1>7 DEF OrderInv, DeadTail

\* Recovery starts at the LSN after every record.
LEMMA OpenOrder ==
  ASSUME HeadInv, TypeInv', DirInv, OrderInv, open
  PROVE  OrderInv'
<1>1. TypeInv /\ FilesSound /\ AllRecs(files') = AllRecs(files) /\ pc = "closed"
  BY OpenDir, ZenonT(40) DEF HeadInv, DirInv, open
<1>2. CASE pc' = "refused" /\ files' = files
  <2>1. Within(files', files)
    BY <1>1, <1>2, SameWithin
  <2> QED BY <1>1, <1>2, <2>1, SameOrder DEF Running
<1>3. ASSUME NEW lsn0, Reopens(lsn0)
      PROVE  OrderInv'
  <2> DEFINE n == Len(files)
  <2>1. \A i \in DOMAIN files : files'[i].recs = files[i].recs
    <3> SUFFICES ASSUME NEW i \in DOMAIN files PROVE files'[i].recs = files[i].recs
      OBVIOUS
    <3> DEFINE keep == i = Len(files) /\ KeepsTail
    <3>1. keep \in BOOLEAN /\ files'[i] = Recovered(files[i], keep)
      BY <1>3 DEF Reopens, KeepsTail
    <3>2. files[i] \in File /\ FileSound(files[i])
      BY <1>1, FilesAre DEF FilesSound
    <3> HIDE DEF keep
    <3>3. LET g == Recovered(files[i], keep)
              found == scan_segment_file(files[i])
          IN  /\ g \in File /\ FileSound(g) /\ g.recs = files[i].recs /\ g.dur >= files[i].dur
              /\ ~keep => g.dur = Len(g.recs)
              /\ keep /\ ~found.sealed => g.foot = NoFooter
              /\ PhysLen(g) <= found.valid_len
      BY <3>1, <3>2, RecoverSound
    <3> QED BY <3>1, <3>3
  <2>2. Within(files', files)
    <3>1. /\ DOMAIN files = 1..n /\ n \in Nat /\ DOMAIN files' = 1..Len(files')
      BY <1>1, FilesAre, LenProperties DEF TypeInv, TypeOK, DirectoryType
    <3>2. Len(files') = n \/ (Len(files') = n + 1 /\ files'[n + 1].recs = <<>>)
      BY <1>3 DEF Reopens, TailKept, TailStarted, EmptyFile
    <3>3. \A i \in DOMAIN files' : i \in DOMAIN files \/ files'[i].recs = <<>>
      <4>1. CASE Len(files') = Len(files)
        BY <3>1, <4>1
      <4>2. CASE Len(files') = Len(files) + 1 /\ files'[Len(files) + 1].recs = <<>>
        <5>1. \A i \in 1..(Len(files) + 1) : i \in 1..Len(files) \/ i = Len(files) + 1
          BY <3>1
        <5> QED BY <3>1, <4>2, <5>1
      <4> QED BY <3>2, <4>1, <4>2
    <3>4. \A i \in DOMAIN files' : \/ i \in DOMAIN files /\ files'[i].recs = files[i].recs
                                   \/ files'[i].recs = <<>>
      BY <2>1, <3>3
    <3> QED BY <1>1, <3>4, SameWithin
  <2>3. FileOrder'
    BY <1>1, <2>2, WithinOrder DEF OrderInv
  <2>4. pc' \in {"recv", "open_header"} /\ NextPlace' = lsn0
    BY <1>3 DEF Reopens, TailKept, TailStarted, NextPlace, InBatch
  <2>5. Full(files, lsn0) /\ Closed(files)
    <3>1. lsn0 = 0 \/ \E r \in AllRecs(files) : lsn0 = r.lsn + 1
      BY <1>3 DEF Reopens, NextLsn
    <3>2. \A r \in AllRecs(files) : r.lsn \in Nat
      BY <1>1, FilesAre, RecordPlaces DEF Record
    <3>3. CASE lsn0 = 0
      BY <3>3 DEF Full, OrderInv, Dense
    <3>4. CASE \E r \in AllRecs(files) : lsn0 = r.lsn + 1
      <4>1. PICK r \in AllRecs(files) : lsn0 = r.lsn + 1
        BY <3>4
      <4>2. \A lsn \in Nat : lsn < lsn0 => lsn <= r.lsn
        BY <3>2, <4>1
      <4> QED BY <4>1, <4>2 DEF Full, Closed, OrderInv, Dense
    <3> QED BY <3>1, <3>3, <3>4
  <2>6. Full(files', lsn0) /\ Closed(files')
    BY <1>1, <2>5 DEF Full, Closed, Has
  <2> QED BY <2>3, <2>4, <2>6 DEF OrderInv, DeadTail, Dense
<1> QED BY <1>1, <1>2, <1>3, OpenFiles

\* Every step keeps the order; only placing a record and failing change which
\* records there are.
LEMMA NextOrder ==
  ASSUME HeadInv, DirInv, CommandsSound, OrderInv, [Next]_vars
  PROVE  /\ OrderInv'
         /\ \/ AllRecs(files') = AllRecs(files)
            \/ place \/ io_error \/ process_crash \/ power_loss
<1>1. TypeInv /\ TypeInv'
  BY NextType DEF HeadInv
<1>2. ASSUME UNCHANGED files,
             Running' => Running /\ NextPlace' = NextPlace,
             pc' = "dead" => UNCHANGED <<pc, active, committed_lsn>>
      PROVE  OrderInv' /\ AllRecs(files') = AllRecs(files)
  <2>1. Within(files', files) /\ AllRecs(files') = AllRecs(files)
    BY <1>1, <1>2, SameWithin
  <2> QED BY <1>1, <1>2, <2>1, SameOrder
<1>3. ASSUME UNCHANGED <<files, committed_lsn, worker>>
      PROVE  OrderInv' /\ AllRecs(files') = AllRecs(files)
  <2>1. UNCHANGED <<files, committed_lsn, pc, active, tentative_lsn, current_lsn>>
    BY <1>3 DEF worker
  <2>2. Running' = Running /\ NextPlace' = NextPlace
    BY <2>1 DEF Running, NextPlace, InBatch
  <2> QED BY <1>2, <2>1, <2>2
<1>4. CASE \/ \E c \in Clients, size \in Sizes, p \in PhysClock : append(c, size, p)
           \/ \E c \in Clients, k \in DOMAIN Leader : append_replicated(c, k)
           \/ \E c \in Clients : flush(c) \/ send_timeout(c)
           \/ UNCHANGED vars
  BY <1>3, <1>4, Zenon DEF append, append_replicated, flush, send_timeout, vars
<1>5. CASE recv \/ write_flush \/ reject \/ publish \/ commit \/ ack
  <2>1. UNCHANGED files /\ Running /\ pc' # "dead"
    BY <1>5 DEF recv, write_flush, reject, publish, commit, ack, Running
  <2>2. NextPlace' = NextPlace
    BY <1>5, NextPlaceKept
  <2> QED BY <1>2, <2>1, <2>2
<1>6. ASSUME Running, Running', NextPlace' = NextPlace, AllRecs(files') = AllRecs(files),
             \A i \in DOMAIN files' : \/ i \in DOMAIN files /\ files'[i].recs = files[i].recs
                                      \/ files'[i].recs = <<>>
      PROVE  OrderInv'
  <2>1. Within(files', files) /\ pc' # "dead"
    BY <1>1, <1>6, SameWithin DEF Running
  <2> QED BY <1>1, <1>6, <2>1, SameOrder
<1>7. CASE fsync
  <2>1. AllRecs(files') = AllRecs(files)
    BY <1>7, FsyncDir
  <2>2. /\ Running /\ Running' /\ NextPlace' = NextPlace /\ DOMAIN files' = DOMAIN files
        /\ \A i \in DOMAIN files : files'[i].recs = files[i].recs
    BY <1>1, <1>7, FsyncFiles
  <2> QED BY <1>6, <2>1, <2>2
<1>8. CASE roll_seal
  <2>1. AllRecs(files') = AllRecs(files)
    BY <1>8, RollSealDir
  <2>2. /\ Running /\ Running' /\ NextPlace' = NextPlace /\ DOMAIN files' = DOMAIN files
        /\ \A i \in DOMAIN files : files'[i].recs = files[i].recs
    BY <1>1, <1>8, RollSealFiles
  <2> QED BY <1>6, <2>1, <2>2
<1>9. CASE roll_create
  <2>1. AllRecs(files') = AllRecs(files)
    BY <1>9, RollCreateDir
  <2>2. /\ Running /\ Running' /\ NextPlace' = NextPlace
        /\ \A i \in DOMAIN files : files'[i].recs = files[i].recs
        /\ \A i \in DOMAIN files' : i \in DOMAIN files \/ files'[i].recs = <<>>
    <3>1. UNCHANGED <<tentative_lsn, current_lsn>> /\ InBatch /\ InBatch'
      BY <1>9 DEF roll_create, InBatch
    <3>2. EmptyFile.recs = <<>>
      BY DEF EmptyFile
    <3> QED BY <1>1, <1>9, <3>1, <3>2, RollCreateFiles DEF NextPlace
  <2> QED BY <1>6, <2>1, <2>2
<1>10. ASSUME NEW p \in PhysClock, roll_header(p) \/ open_header(p)
       PROVE  OrderInv' /\ AllRecs(files') = AllRecs(files)
  <2>1. AllRecs(files') = AllRecs(files)
    BY <1>10, HeaderDir
  <2>2. /\ Running /\ Running' /\ NextPlace' = NextPlace /\ DOMAIN files' = DOMAIN files
        /\ \A i \in DOMAIN files : files'[i].recs = files[i].recs
    BY <1>1, <1>10, HeaderFiles
  <2> QED BY <1>6, <2>1, <2>2
<1>11. CASE place
  BY <1>1, <1>11, PlaceOrder
<1>12. CASE open
  BY <1>1, <1>12, OpenOrder, OpenDir
<1>13. CASE io_error \/ process_crash \/ power_loss
  BY <1>1, <1>13, FailureOrder
<1> QED BY <1>4, <1>5, <1>7, <1>8, <1>9, <1>10, <1>11, <1>12, <1>13 DEF Next, WorkerStep
-----------------------------------------------------------------------------
(* The history a set of records makes.                                      *)

LEMMA IdsType ==
  ASSUME NEW recs, recs \subseteq Record, NEW n \in Nat
  PROVE  /\ IdsBelow(recs, n) \in Seq(Nat) /\ Len(IdsBelow(recs, n)) = n
         /\ DOMAIN IdsBelow(recs, n) = 1..n
         /\ \A i \in 1..n : IdsBelow(recs, n)[i] = IdAt(recs, i - 1)
<1>1. \A lsn : IdAt(recs, lsn) \in Nat
  <2> SUFFICES ASSUME NEW lsn PROVE IdAt(recs, lsn) \in Nat
    OBVIOUS
  <2>1. IdsAt(recs, lsn) \subseteq Nat
    BY DEF IdsAt, Record
  <2> QED BY <2>1 DEF IdAt, AnyId
<1> DEFINE ids == IdsBelow(recs, n)
<1>2. /\ DOMAIN ids = 1..n /\ \A i \in 1..n : ids[i] = IdAt(recs, i - 1)
      /\ ids = [i \in 1..n |-> ids[i]]
  BY DEF IdsBelow
<1> HIDE DEF ids
<1>3. ids \in [1..n -> Nat]
  BY <1>1, <1>2
<1>4. ids \in Seq(Nat)
  BY <1>3 DEF Seq
<1>5. Len(ids) = n
  BY <1>2, <1>4, LenProperties
<1> QED BY <1>2, <1>4, <1>5 DEF ids

\* The only record with an LSN gives it its id.
LEMMA IdIs ==
  ASSUME NEW recs, NEW r \in recs, \A q \in recs : q.lsn = r.lsn => q = r
  PROVE  IdAt(recs, r.lsn) = r.id
<1>1. IdsAt(recs, r.lsn) = {r.id}
  BY DEF IdsAt
<1> QED BY <1>1 DEF IdAt, AnyId

\* Sets of records that agree below n make histories that agree below n.
Agree(recs, others, n) ==
  /\ \A r \in recs : r.lsn < n => r \in others
  /\ \A r \in others : r.lsn < n => r \in recs

LEMMA AgreeIds ==
  ASSUME NEW recs, NEW others, NEW n \in Nat, Agree(recs, others, n)
  PROVE  \A i \in 1..n : IdAt(others, i - 1) = IdAt(recs, i - 1)
<1> SUFFICES ASSUME NEW i \in 1..n PROVE IdAt(others, i - 1) = IdAt(recs, i - 1)
  OBVIOUS
<1>1. PICK lsn \in Nat : lsn = i - 1 /\ lsn < n
  OBVIOUS
<1>2. {x \in others : x.lsn = lsn} = {x \in recs : x.lsn = lsn}
  BY <1>1 DEF Agree
<1>3. IdsAt(others, lsn) = IdsAt(recs, lsn)
  BY <1>2 DEF IdsAt
<1>4. IdAt(others, lsn) = IdAt(recs, lsn)
  BY <1>3 DEF IdAt
<1> QED BY <1>1, <1>4

LEMMA SameIds ==
  ASSUME NEW recs, NEW others, NEW n \in Nat, Agree(recs, others, n)
  PROVE  IdsBelow(others, n) = IdsBelow(recs, n)
BY AgreeIds DEF IdsBelow

LEMMA LongerIds ==
  ASSUME NEW recs, NEW others, recs \subseteq Record, others \subseteq Record,
         NEW n \in Nat, NEW m \in Nat, n <= m, Agree(recs, others, n)
  PROVE  Abstract!Continues(IdsBelow(others, m), IdsBelow(recs, n))
<1> DEFINE h == IdsBelow(recs, n)
           g == IdsBelow(others, m)
<1>1. /\ h \in Seq(Nat) /\ Len(h) = n /\ g \in Seq(Nat) /\ Len(g) = m
      /\ \A i \in 1..n : h[i] = IdAt(recs, i - 1)
      /\ \A i \in 1..m : g[i] = IdAt(others, i - 1)
  BY IdsType
<1>2. \A i \in 1..n : IdAt(others, i - 1) = IdAt(recs, i - 1)
  BY AgreeIds
<1> HIDE DEF h, g
<1>3. n \in 0..Len(g) /\ \A i \in 1..n : g[i] = h[i]
  BY <1>1, <1>2
<1>4. /\ SubSeq(g, 1, n) \in Seq(Nat) /\ Len(SubSeq(g, 1, n)) = n
      /\ \A i \in 1..n : SubSeq(g, 1, n)[i] = g[i]
  BY <1>1, <1>3, PrefixType
<1>5. SubSeq(g, 1, n) = h
  BY <1>1, <1>3, <1>4, SeqEqual
<1>6. Abstract!Continues(g, h)
  BY <1>1, <1>5 DEF Abstract!Continues
<1> QED BY <1>6 DEF g, h

\* A set that has every LSN below n agrees below n with any that extends it.
LEMMA FullAgree ==
  ASSUME NEW recs, NEW others, recs \subseteq others, others \subseteq Record, NEW n \in Nat,
         \A q, r \in others : q.lsn = r.lsn => q = r,
         \A lsn \in Nat : lsn < n => \E r \in recs : r.lsn = lsn
  PROVE  Agree(recs, others, n) /\ Agree(others, recs, n)
<1>1. \A r \in others : r.lsn \in Nat
  BY DEF Record
<1> QED BY <1>1 DEF Agree

\* Where a set of records ends: after all of them, and before any other bound.
LEMMA EndIs ==
  ASSUME NEW recs, \A r \in recs : r.lsn \in Nat, NEW b \in Nat, \A r \in recs : r.lsn < b
  PROVE  /\ EndOf(recs) \in NextLsn(recs) /\ EndOf(recs) \in Nat /\ EndOf(recs) <= b
         /\ \A r \in recs : r.lsn < EndOf(recs)
<1> DEFINE Bounds == {n \in Nat : \A r \in recs : r.lsn < n}
<1>1. Bounds \subseteq Nat /\ Bounds # {}
  OBVIOUS
<1>2. PICK n \in Bounds : \A m \in Bounds : n <= m
  BY <1>1, LeastNat, Zenon
<1>3. n = 0 \/ \E r \in recs : n = r.lsn + 1
  <2>1. CASE n = 0
    BY <2>1
  <2>2. CASE n # 0
    <3>1. n - 1 \in Nat /\ n - 1 < n
      BY <2>2
    <3>2. n - 1 \notin Bounds
      BY <1>2, <3>1
    <3>3. PICK r \in recs : ~(r.lsn < n - 1)
      BY <3>1, <3>2
    <3>4. r.lsn \in Nat /\ r.lsn < n
      OBVIOUS
    <3>5. n = r.lsn + 1
      BY <3>1, <3>3, <3>4
    <3> QED BY <3>5
  <2> QED BY <2>1, <2>2
<1>4. n \in NextLsn(recs)
  BY <1>3 DEF NextLsn
<1>5. EndOf(recs) \in NextLsn(recs)
  BY <1>4 DEF EndOf
<1> DEFINE e == EndOf(recs)
<1>6. (e = 0 \/ \E r \in recs : e = r.lsn + 1) /\ \A r \in recs : r.lsn < e
  BY <1>5 DEF NextLsn
<1>7. e \in Nat /\ e <= b
  <2> HIDE DEF e
  <2>1. CASE e = 0
    BY <2>1
  <2>2. ASSUME NEW r \in recs, e = r.lsn + 1
        PROVE  e \in Nat /\ e <= b
    <3>1. r.lsn \in Nat /\ r.lsn < b
      OBVIOUS
    <3> QED BY <2>2, <3>1
  <2> QED BY <1>6, <2>1, <2>2
<1> QED BY <1>5, <1>6, <1>7

LEMMA EndUnique ==
  ASSUME NEW recs, \A r \in recs : r.lsn \in Nat, NEW n \in NextLsn(recs)
  PROVE  EndOf(recs) = n /\ n \in Nat
<1>1. (n = 0 \/ \E r \in recs : n = r.lsn + 1) /\ \A r \in recs : r.lsn < n
  BY DEF NextLsn
<1>2. n \in Nat
  BY <1>1
<1> DEFINE e == EndOf(recs)
<1>3. e \in Nat /\ e <= n /\ \A r \in recs : r.lsn < e
  BY <1>1, <1>2, EndIs
<1> HIDE DEF e
<1>4. n <= e
  <2>1. CASE n = 0
    BY <1>3, <2>1
  <2>2. ASSUME NEW r \in recs, n = r.lsn + 1
        PROVE  n <= e
    <3>1. r.lsn \in Nat /\ r.lsn < e
      BY <1>3
    <3> QED BY <1>3, <2>2, <3>1
  <2> QED BY <1>1, <2>1, <2>2
<1>5. e = n
  BY <1>2, <1>3, <1>4
<1> QED BY <1>2, <1>5 DEF e

\* A directory has an end.
LEMMA DirectoryEnd ==
  ASSUME NEW fs \in Seq(File)
  PROVE  /\ EndOf(AllRecs(fs)) \in NextLsn(AllRecs(fs)) /\ EndOf(AllRecs(fs)) \in Nat
         /\ AllRecs(fs) \subseteq Record
         /\ \A r \in AllRecs(fs) : r.lsn \in Nat /\ r.lsn < EndOf(AllRecs(fs))
<1> DEFINE n == Len(fs)
           recs == AllRecs(fs)
           g == [i \in 1..n |-> fs[i].recs]
<1>1. n \in Nat /\ DOMAIN fs = 1..n /\ \A i \in 1..n : fs[i].recs \in Seq(Record)
  BY LenProperties, ElementOfSeq, FileRecs
<1>2. g \in [1..n -> Seq(Record)]
  BY <1>1
<1>3. recs = UNION {{g[i][k] : k \in DOMAIN g[i]} : i \in 1..n}
  <2> HIDE DEF n
  <2> QED BY <1>1 DEF AllRecs
<1>4. recs \subseteq Record /\ \A r \in recs : r.lsn \in Nat
  BY RecordPlaces DEF Record
<1> HIDE DEF g, recs
<1>5. IsFiniteSet(recs)
  BY <1>1, <1>2, <1>3, UnionOfRecs
<1>6. PICK e : e \in NextLsn(recs)
  BY <1>4, <1>5, NextLsnType
<1>7. EndOf(recs) = e /\ e \in Nat
  BY <1>4, <1>6, EndUnique
<1>8. \A r \in recs : r.lsn < e
  BY <1>6 DEF NextLsn
<1> QED BY <1>4, <1>6, <1>7, <1>8 DEF recs

\* A promise ends after what it covers and no later than any bound of it.
Marks(pairs) == {[lsn |-> p[1]] : p \in pairs}

LEMMA MarksEnd ==
  ASSUME NEW pairs, pairs \subseteq Nat \X Nat, NEW b \in Nat, \A a \in pairs : a[1] < b
  PROVE  LET e == EndOf(Marks(pairs))
         IN  e \in Nat /\ e <= b /\ \A a \in pairs : a[1] < e
<1>1. \A a \in pairs : a[1] \in Nat
  OBVIOUS
<1>2. \A r \in Marks(pairs) : r.lsn \in Nat /\ r.lsn < b
  BY <1>1 DEF Marks
<1>3. \A a \in pairs : \E r \in Marks(pairs) : r.lsn = a[1]
  <2> SUFFICES ASSUME NEW a \in pairs PROVE \E r \in Marks(pairs) : r.lsn = a[1]
    OBVIOUS
  <2>1. [lsn |-> a[1]] \in Marks(pairs) /\ [lsn |-> a[1]].lsn = a[1]
    BY DEF Marks
  <2> QED BY <2>1
<1>4. /\ EndOf(Marks(pairs)) \in Nat /\ EndOf(Marks(pairs)) <= b
      /\ \A r \in Marks(pairs) : r.lsn < EndOf(Marks(pairs))
  BY <1>2, EndIs
<1> QED BY <1>3, <1>4
-----------------------------------------------------------------------------
(* The refinement, step by step.                                            *)

RefInv == DurableInv /\ FollowInv /\ OrderInv

\* What the mapping shows in each phase of the log.
LEMMA ShownIs ==
  ASSUME RefInv
  PROVE  /\ Shown \in Nat /\ Full(files, Shown)
         /\ Running => /\ Mode = "up" /\ Shown = committed_lsn /\ committed_lsn = current_lsn
                       /\ committed_lsn <= NextPlace /\ NextPlace \in Nat
         /\ pc = "dead" => Mode = "poisoned" /\ Shown = committed_lsn
         /\ pc \in {"closed", "refused"} => Mode = "down" /\ Shown = EndOf(AllRecs(files))
<1>1. TypeInv /\ files \in Seq(File) /\ committed_lsn \in Nat /\ tentative_lsn \in Nat
      /\ current_lsn \in Nat
      /\ pc \in {"closed", "open_header", "refused", "recv", "write", "place", "roll_create",
                 "roll_header", "publish", "commit", "ack", "dead"}
  BY DEF RefInv, DurableInv, HeadInv, TypeInv, TypeOK, DirectoryType, CountersType, WorkerType
<1>2. CASE Running
  <2>1. Mode = "up" /\ Shown = committed_lsn
    BY <1>1, <1>2 DEF Mode, Shown, Opened, Running
  <2>2. committed_lsn = current_lsn
    BY <1>2 DEF RefInv, DurableInv, HeadInv, HeadIsPublished, Running
  <2>3. InBatch => Len(stash) \in Nat /\ tentative_lsn = current_lsn + Len(stash)
    BY <1>1, LenProperties DEF RefInv, DurableInv, HeadInv, StashDense, TypeInv, TypeOK, CallsType
  <2>4. committed_lsn <= NextPlace /\ NextPlace \in Nat
    BY <1>1, <2>2, <2>3 DEF NextPlace
  <2>5. Full(files, NextPlace)
    BY <1>2 DEF RefInv, OrderInv, Dense
  <2>6. Full(files, committed_lsn)
    BY <1>1, <2>4, <2>5 DEF Full
  <2>7. pc # "dead" /\ pc \notin {"closed", "refused"}
    BY <1>2 DEF Running
  <2> QED BY <1>1, <1>2, <2>1, <2>2, <2>4, <2>6, <2>7
<1>3. CASE pc = "dead"
  <2>1. Mode = "poisoned" /\ Shown = committed_lsn /\ ~Running
    BY <1>3 DEF Mode, Shown, Opened, Running
  <2>2. Full(files, committed_lsn)
    BY <1>3 DEF RefInv, OrderInv, Dense
  <2> QED BY <1>1, <1>3, <2>1, <2>2
<1>4. CASE pc \in {"closed", "refused"}
  <2> DEFINE e == EndOf(AllRecs(files))
  <2>1. Mode = "down" /\ Shown = e /\ ~Running
    BY <1>4 DEF Mode, Shown, Opened, Running
  <2>2. e \in NextLsn(AllRecs(files)) /\ e \in Nat /\ \A r \in AllRecs(files) : r.lsn \in Nat
    BY <1>1, DirectoryEnd
  <2> HIDE DEF e
  <2>3. e = 0 \/ \E r \in AllRecs(files) : e = r.lsn + 1
    BY <2>2 DEF NextLsn
  <2>4. Full(files, e)
    <3>1. CASE e = 0
      BY <3>1 DEF Full
    <3>2. ASSUME NEW r \in AllRecs(files), e = r.lsn + 1
          PROVE  Full(files, e)
      <4>1. \A lsn \in Nat : lsn < e => lsn <= r.lsn
        BY <2>2, <3>2
      <4> QED BY <4>1 DEF Full, Closed, RefInv, OrderInv, Dense
    <3> QED BY <2>3, <3>1, <3>2
  <2> QED BY <1>4, <2>1, <2>2, <2>4 DEF e
<1> QED BY <1>2, <1>3, <1>4 DEF Running

LEMMA HistoryIs ==
  ASSUME RefInv
  PROVE  /\ History \in Seq(Nat) /\ Len(History) = Shown /\ DOMAIN History = 1..Shown
         /\ \A i \in 1..Shown : History[i] = IdAt(AllRecs(files), i - 1)
         /\ AllRecs(files) \subseteq Record
         /\ \A q, r \in AllRecs(files) : q.lsn = r.lsn => q = r
<1>1. TypeInv /\ FilesSound /\ FileOrder /\ files \in Seq(File)
  BY DEF RefInv, DurableInv, HeadInv, DirInv, OrderInv, TypeInv, TypeOK, DirectoryType
<1>2. AllRecs(files) \subseteq Record
  BY <1>1, RecordPlaces
<1>3. \A q, r \in AllRecs(files) : q.lsn = r.lsn => q = r
  BY <1>1, UniqueLsns
<1>4. Shown \in Nat
  BY ShownIs
<1> QED BY <1>2, <1>3, <1>4, IdsType DEF History

\* A record below its end is in the history, at its LSN.
LEMMA InHistory ==
  ASSUME RefInv, NEW r \in AllRecs(files), r.lsn < Shown
  PROVE  <<r.lsn, r.id>> \in {<<i - 1, History[i]>> : i \in DOMAIN History}
<1>1. r.lsn \in Nat /\ Shown \in Nat
  BY HistoryIs, ShownIs DEF Record
<1>2. IdAt(AllRecs(files), r.lsn) = r.id
  BY HistoryIs, IdIs
<1>3. PICK i \in 1..Shown : i = r.lsn + 1
  BY <1>1
<1>4. i - 1 = r.lsn /\ History[i] = r.id /\ i \in DOMAIN History
  BY <1>1, <1>2, <1>3, HistoryIs
<1> QED BY <1>4

\* While the log runs a promise covers no more than the head.
LEMMA PromiseBelow ==
  ASSUME RefInv, Running
  PROVE  /\ Promise \in Nat /\ Promise <= committed_lsn /\ \A a \in promised : a[1] < Promise
         /\ \A a \in promised : a[1] < committed_lsn
         /\ promised \subseteq Nat \X Nat
<1>1. promised \subseteq Nat \X Nat /\ committed_lsn \in Nat
  BY DEF RefInv, DurableInv, HeadInv, TypeInv, TypeOK, GhostsType, CountersType
<1>2. \A a \in promised : a[1] < committed_lsn
  BY ShownIs DEF RefInv, DurableInv, PromisedDurable
<1> QED BY <1>1, <1>2, MarksEnd DEF Promise, Marks

\* Nothing that the mapping shows changes.
LEMMA Stutter ==
  ASSUME AllRecs(files') = AllRecs(files), Mode' = Mode, committed_lsn' = committed_lsn,
         UNCHANGED <<promised, acked>>
  PROVE  UNCHANGED Abstract!vars
<1>1. Shown' = Shown
  BY DEF Shown
<1>2. History' = History /\ Promise' = Promise
  BY <1>1 DEF History, Promise
<1> QED BY <1>2 DEF Abstract!vars

LEMMA MapReplicated ==
  ASSUME RefInv, NEW c \in Clients, NEW k \in DOMAIN Leader, append_replicated(c, k)
  PROVE  Abstract!Next \/ UNCHANGED Abstract!vars
<1>1. /\ UNCHANGED <<files, pc, committed_lsn, promised>> /\ Running
      /\ \/ acked' = acked
         \/ k - 1 < committed_lsn /\ acked' = acked \cup {<<k - 1, Leader[k].id>>}
  BY Zenon DEF append_replicated, worker, Serving, Opened, Running
<1>2. /\ Mode = "up" /\ Mode' = Mode /\ Shown = committed_lsn
      /\ Full(files, committed_lsn)
  BY <1>1, ShownIs DEF Mode, Opened
<1>3. History' = History /\ Promise' = Promise
  BY <1>1, <1>2 DEF History, Promise, Shown
<1>4. CASE acked' = acked
  BY <1>1, <1>2, <1>4, Stutter
<1>5. CASE k - 1 < committed_lsn /\ acked' = acked \cup {<<k - 1, Leader[k].id>>}
  <2>1. k \in 1..Len(Leader) /\ Len(Leader) \in Nat /\ k - 1 \in Nat /\ Leader # <<>>
    BY LeaderAssumption, LenProperties
  <2>2. PICK q \in AllRecs(files) : q.lsn = k - 1
    BY <1>2, <1>5, <2>1 DEF Full, Has
  <2>3. q.id = Leader[k].id
    <3>1. q.id = Leader[q.lsn + 1].id
      BY <2>1 DEF RefInv, FollowInv, FollowerMatchesLeader
    <3>2. q.lsn + 1 = k
      BY <2>1, <2>2
    <3> QED BY <3>1, <3>2
  <2>4. <<k - 1, Leader[k].id>> \in {<<i - 1, History[i]>> : i \in DOMAIN History}
    BY <1>2, <1>5, <2>2, <2>3, InHistory
  <2>5. Promise \in Promise..Len(History)
    BY <1>1, <1>2, HistoryIs, ShownIs, PromiseBelow
  <2>6. Abstract!Answer
    BY <1>2, <1>3, <1>5, <2>4, <2>5 DEF Abstract!Answer
  <2> QED BY <2>6 DEF Abstract!Next
<1> QED BY <1>1, <1>4, <1>5

\* A batch is published whole, after what was published before it.
LEMMA MapCommit ==
  ASSUME RefInv, RefInv', commit
  PROVE  Abstract!Next
<1>1. /\ UNCHANGED <<files, promised, acked>> /\ Running /\ Running' /\ Opened /\ Opened'
      /\ AllRecs(files') = AllRecs(files)
  BY DEF commit, ghosts, Running, Opened
<1>2. /\ Mode = "up" /\ Mode' = "up" /\ Shown = committed_lsn /\ Shown' = committed_lsn'
      /\ committed_lsn \in Nat
  BY <1>1, ShownIs DEF Mode, Shown, Running
<1>3. committed_lsn <= committed_lsn' /\ committed_lsn' \in Nat
  <2>1. HeadInv /\ [Next]_vars
    BY DEF RefInv, DurableInv, Next, WorkerStep
  <2>2. committed_lsn' \in Nat
    BY DEF RefInv, DurableInv, HeadInv, TypeInv, TypeOK, CountersType
  <2> QED BY <1>1, <1>2, <2>1, <2>2, HeadsGrow
<1>4. AllRecs(files) \subseteq Record
  BY HistoryIs
<1>5. Agree(AllRecs(files), AllRecs(files'), committed_lsn)
  BY <1>1 DEF Agree
<1>6. History' = IdsBelow(AllRecs(files'), committed_lsn') /\ Promise' = Promise
  BY <1>1, <1>2 DEF History, Promise
<1>7. Abstract!Continues(History', History) /\ History' \in Seq(Nat)
  BY <1>1, <1>2, <1>3, <1>4, <1>5, <1>6, LongerIds, IdsType DEF History
<1>8. Abstract!Commit
  BY <1>1, <1>2, <1>6, <1>7 DEF Abstract!Commit
<1> QED BY <1>8 DEF Abstract!Next

\* Appends are answered for records below the head, and nothing above it is
\* promised.
LEMMA MapAck ==
  ASSUME RefInv, RefInv', ack
  PROVE  Abstract!Next
<1> DEFINE new == {<<stash[i].lsn, stash[i].id>> : i \in DOMAIN stash}
<1>1. /\ UNCHANGED <<files, committed_lsn>> /\ Running /\ Running' /\ pc = "ack"
      /\ acked' = acked \cup new /\ promised \subseteq promised'
  BY DEF ack, Running
<1>2. /\ Mode = "up" /\ Mode' = "up" /\ Shown = committed_lsn /\ committed_lsn \in Nat
      /\ History' = History
  BY <1>1, ShownIs DEF Mode, Opened, Running, History, Shown
<1>3. \A a \in new : a \in {<<i - 1, History[i]>> : i \in DOMAIN History}
  <2> SUFFICES ASSUME NEW j \in DOMAIN stash
               PROVE  <<stash[j].lsn, stash[j].id>> \in {<<i - 1, History[i]>> : i \in DOMAIN History}
    OBVIOUS
  <2>1. PICK r \in AllRecs(files) : r.lsn = stash[j].lsn /\ r.id = stash[j].id
    BY <1>1 DEF RefInv, DurableInv, Stashed, Answering
  <2>2. stash[j].lsn < committed_lsn
    BY <1>1 DEF RefInv, DurableInv, HeadInv, StashBelowHead
  <2>3. <<r.lsn, r.id>> \in {<<i - 1, History[i]>> : i \in DOMAIN History}
    BY <1>2, <2>1, <2>2, InHistory
  <2> QED BY <2>1, <2>3
<1> HIDE DEF new
<1>4. /\ Promise \in Nat /\ Promise' \in Nat /\ Promise <= Promise' /\ Promise' <= committed_lsn
  <2>1. promised' \subseteq Nat \X Nat
    BY DEF RefInv, DurableInv, HeadInv, TypeInv, TypeOK, GhostsType
  <2>2. \A a \in promised' : a[1] < committed_lsn
    <3>1. current_lsn' = current_lsn /\ current_lsn = committed_lsn
      BY <1>1, ShownIs DEF ack
    <3> QED BY <1>1, <3>1 DEF RefInv, DurableInv, PromisedDurable
  <2>3. Promise' \in Nat /\ Promise' <= committed_lsn /\ \A a \in promised' : a[1] < Promise'
    BY <1>2, <2>1, <2>2, MarksEnd DEF Promise, Marks
  <2>4. promised \subseteq Nat \X Nat /\ \A a \in promised : a[1] < Promise'
    BY <1>1, <2>1, <2>3
  <2>5. Promise \in Nat /\ Promise <= Promise'
    BY <2>3, <2>4, MarksEnd DEF Promise, Marks
  <2> QED BY <2>3, <2>5
<1>5. Promise' \in Promise..Len(History)
  BY <1>2, <1>4, HistoryIs
<1>6. Abstract!Answer
  BY <1>1, <1>2, <1>3, <1>5 DEF Abstract!Answer
<1> QED BY <1>6 DEF Abstract!Next

\* The record being placed is above the head: nothing to see.
LEMMA MapPlace ==
  ASSUME RefInv, place
  PROVE  UNCHANGED Abstract!vars
<1>1. /\ UNCHANGED <<committed_lsn, promised, acked>> /\ Running /\ InBatch
      /\ pc' = "write"
  BY DEF place, ghosts, InBatch, Running
<1>2. Mode' = Mode /\ Shown = committed_lsn /\ Shown' = Shown /\ committed_lsn <= NextPlace
      /\ committed_lsn \in Nat
  BY <1>1, ShownIs DEF Mode, Opened, Shown, Running
<1>3. AllRecs(files') = AllRecs(files) \cup {Placed} /\ Placed.lsn = NextPlace
  BY <1>1, PlaceDir DEF RefInv, DurableInv, Placed, NextPlace
<1>4. NextPlace \in Nat
  BY <1>1, ShownIs
<1>5. Agree(AllRecs(files), AllRecs(files'), committed_lsn)
  BY <1>2, <1>3, <1>4 DEF Agree
<1>6. History' = History /\ Promise' = Promise
  BY <1>1, <1>2, <1>5, SameIds DEF History, Promise
<1> QED BY <1>1, <1>2, <1>6 DEF Abstract!vars

\* An I/O error poisons the log and takes nothing that was published.
LEMMA MapError ==
  ASSUME RefInv, RefInv', io_error
  PROVE  Abstract!Next
<1>1. UNCHANGED <<committed_lsn, promised, acked>> /\ Running /\ pc' = "dead"
  BY DEF io_error, ghosts, Running, Writing
<1>2. /\ Mode = "up" /\ Mode' = "poisoned" /\ Shown = committed_lsn /\ Shown' = committed_lsn
      /\ committed_lsn \in Nat
  BY <1>1, ShownIs DEF Mode, Opened, Shown
<1>3. /\ AllRecs(files') \subseteq AllRecs(files)
      /\ \A r \in AllRecs(files) : r.lsn < committed_lsn => r \in AllRecs(files')
  BY FailureOrder DEF RefInv, DurableInv, HeadInv
<1>4. Agree(AllRecs(files), AllRecs(files'), committed_lsn)
  BY <1>3 DEF Agree
<1>5. History' = History /\ Promise' = Promise
  BY <1>1, <1>2, <1>4, SameIds DEF History, Promise
<1>6. Abstract!Poison
  BY <1>1, <1>2, <1>5 DEF Abstract!Poison
<1> QED BY <1>6 DEF Abstract!Next

\* What a crash leaves is the start of the history or goes on from it, and
\* holds what was promised.
LEMMA MapCrash ==
  ASSUME RefInv, RefInv', process_crash \/ power_loss
  PROVE  Abstract!Next
<1> DEFINE old == AllRecs(files)
           new == AllRecs(files')
           e == EndOf(new)
<1>1. /\ pc \notin {"closed", "refused"} /\ pc' = "closed" /\ acked' = {} /\ promised' = promised
  BY DEF process_crash, power_loss, Restart
<1>2. /\ Mode # "down" /\ Mode' = "down" /\ Shown = committed_lsn /\ Shown \in Nat
      /\ Shown' = e
  BY <1>1, ShownIs DEF Mode, Opened, Shown, Running
<1>3. /\ TypeInv /\ TypeInv' /\ files' \in Seq(File) /\ OrderInv' /\ FilesSound'
      /\ new \subseteq old
  BY FailureOrder DEF RefInv, DurableInv, HeadInv, TypeInv, TypeOK, DirectoryType
<1>4. old \subseteq Record /\ \A q, r \in old : q.lsn = r.lsn => q = r
  BY HistoryIs
<1>5. /\ e \in NextLsn(new) /\ e \in Nat /\ new \subseteq Record
      /\ \A r \in new : r.lsn \in Nat /\ r.lsn < e
  BY <1>3, DirectoryEnd
<1>6. \A lsn \in Nat : lsn < e => \E r \in new : r.lsn = lsn
  <2> HIDE DEF e, old
  <2>1. e = 0 \/ \E r \in new : e = r.lsn + 1
    BY <1>5 DEF NextLsn
  <2>2. Closed(files')
    BY <1>3 DEF OrderInv, Dense
  <2>3. ASSUME NEW r \in new, e = r.lsn + 1
        PROVE  \A lsn \in Nat : lsn < e => \E q \in new : q.lsn = lsn
    <3>1. \A lsn \in Nat : lsn < e => lsn <= r.lsn
      BY <1>5, <2>3
    <3> QED BY <2>2, <2>3, <3>1 DEF Closed, Has
  <2>4. CASE e = 0
    BY <2>4
  <2> QED BY <2>1, <2>3, <2>4
<1> HIDE DEF e, old, new
<1>7. Agree(new, old, e) /\ Agree(old, new, e)
  BY <1>3, <1>4, <1>5, <1>6, FullAgree
<1>8. History = IdsBelow(old, Shown) /\ History' = IdsBelow(new, e)
  BY <1>2 DEF History, old, new
<1>9. Abstract!Continues(History', History) \/ Abstract!Continues(History, History')
  <2>1. CASE e <= Shown
    BY <1>2, <1>4, <1>5, <1>7, <1>8, <2>1, LongerIds
  <2>2. CASE Shown <= e
    <3>1. Agree(old, new, Shown)
      BY <1>2, <1>4, <1>5, <1>7, <2>2 DEF Agree, Record
    <3> QED BY <1>2, <1>4, <1>5, <1>8, <2>2, <3>1, LongerIds
  <2> QED BY <1>2, <1>5, <2>1, <2>2
<1>10. History' \in Seq(Nat) /\ Len(History') = e
  BY <1>5, <1>8, IdsType
<1>11. Promise' = Promise /\ Promise \in Nat /\ Promise <= e
  <2>1. promised \subseteq Nat \X Nat
    BY DEF RefInv, DurableInv, HeadInv, TypeInv, TypeOK, GhostsType
  <2>2. \A a \in promised : a[1] < e
    <3> SUFFICES ASSUME NEW a \in promised PROVE a[1] < e
      OBVIOUS
    <3>1. PICK r \in DurableRecs(files') : a = <<r.lsn, r.id>>
      BY <1>1 DEF RefInv, DurableInv, PromisedDurable
    <3>2. r \in DurableRecs(files') /\ files' \in Seq(File)
      BY <1>3
    <3>3. PICK i \in DOMAIN files' : \E j \in 1..files'[i].dur : r = files'[i].recs[j]
      BY <3>2, RecordPlaces
    <3>4. files'[i] \in File /\ FileSound(files'[i])
      BY <1>3, <3>3, ElementOfSeq, LenProperties DEF FilesSound
    <3>5. /\ Len(files'[i].recs) \in Nat /\ files'[i].dur \in Nat
          /\ files'[i].dur <= Len(files'[i].recs)
      BY <3>4, FileRecs DEF FileSound
    <3>6. \E j \in 1..Len(files'[i].recs) : r = files'[i].recs[j]
      BY <3>3, <3>5
    <3>7. r \in new
      BY <3>2, <3>6, RecordPlaces DEF new
    <3> QED BY <1>5, <3>1, <3>7
  <2>3. Promise' = Promise
    BY <1>1 DEF Promise
  <2> QED BY <1>5, <2>1, <2>2, <2>3, MarksEnd DEF Promise, Marks
<1>12. Abstract!Crash
  BY <1>1, <1>2, <1>9, <1>10, <1>11 DEF Abstract!Crash
<1> QED BY <1>12 DEF Abstract!Next

\* Recovery shows what is there, or refuses and changes nothing.
LEMMA MapOpen ==
  ASSUME RefInv, RefInv', open
  PROVE  Abstract!Next \/ UNCHANGED Abstract!vars
<1>1. /\ pc = "closed" /\ UNCHANGED <<promised, acked>> /\ TypeInv /\ FilesSound
      /\ AllRecs(files') = AllRecs(files) /\ files \in Seq(File)
  <2>1. pc = "closed" /\ UNCHANGED <<promised, acked>>
    BY Zenon DEF open, ghosts
  <2>2. TypeInv /\ TypeInv' /\ HeadInv /\ DirInv /\ FilesSound /\ files \in Seq(File)
    BY DEF RefInv, DurableInv, HeadInv, DirInv, TypeInv, TypeOK, DirectoryType
  <2> QED BY <2>1, <2>2, OpenDir
<1>2. Mode = "down" /\ Shown = EndOf(AllRecs(files))
  BY <1>1, ShownIs
<1>3. CASE pc' = "refused"
  <2>1. Mode' = "down" /\ Shown' = EndOf(AllRecs(files'))
    BY <1>3 DEF Mode, Opened, Shown
  <2>2. History' = History /\ Promise' = Promise
    BY <1>1, <1>2, <2>1 DEF History, Promise
  <2> QED BY <1>1, <1>2, <2>1, <2>2 DEF Abstract!vars
<1>4. ASSUME NEW lsn0, Reopens(lsn0)
      PROVE  Abstract!Next
  <2>1. pc' \in {"recv", "open_header"} /\ committed_lsn' = lsn0
        /\ lsn0 \in NextLsn(AllRecs(files))
    BY <1>4 DEF Reopens, TailKept, TailStarted
  <2>2. lsn0 = EndOf(AllRecs(files))
    <3>1. \A r \in AllRecs(files) : r.lsn \in Nat
      BY <1>1, DirectoryEnd
    <3> QED BY <2>1, <3>1, EndUnique
  <2>3. Mode' = "up" /\ Shown' = committed_lsn'
    BY <2>1 DEF Mode, Opened, Shown
  <2>4. History' = History /\ Promise' = Promise
    BY <1>1, <1>2, <2>1, <2>2, <2>3 DEF History, Promise
  <2>5. Abstract!Open
    BY <1>1, <1>2, <2>3, <2>4 DEF Abstract!Open
  <2> QED BY <2>5 DEF Abstract!Next
<1> QED BY <1>1, <1>3, <1>4, OpenFiles

LEMMA MapNext ==
  ASSUME RefInv, RefInv', [Next]_vars
  PROVE  Abstract!Next \/ UNCHANGED Abstract!vars
<1>1. HeadInv /\ DirInv /\ CommandsSound /\ OrderInv
  BY DEF RefInv, DurableInv
<1>2. \/ AllRecs(files') = AllRecs(files)
      \/ place \/ io_error \/ process_crash \/ power_loss
  BY <1>1, NextOrder
<1>3. ASSUME UNCHANGED <<committed_lsn, promised, acked>>, Mode' = Mode,
             AllRecs(files') = AllRecs(files)
      PROVE  UNCHANGED Abstract!vars
  BY <1>3, Stutter
<1>4. CASE \/ \E c \in Clients, size \in Sizes, p \in PhysClock : append(c, size, p)
           \/ \E c \in Clients : flush(c) \/ send_timeout(c)
           \/ UNCHANGED vars
  <2>1. UNCHANGED <<files, committed_lsn, promised, acked, pc>>
    BY <1>4, Zenon DEF append, flush, send_timeout, vars, ghosts, worker
  <2>2. Mode' = Mode /\ AllRecs(files') = AllRecs(files)
    BY <2>1 DEF Mode, Opened
  <2> QED BY <1>3, <2>1, <2>2
<1>5. CASE \E c \in Clients, k \in DOMAIN Leader : append_replicated(c, k)
  BY <1>5, MapReplicated
<1>6. CASE recv \/ write_flush \/ reject \/ fsync \/ roll_seal \/ roll_create \/ publish
  <2>1. UNCHANGED <<committed_lsn, promised, acked>>
    BY <1>6 DEF recv, write_flush, reject, fsync, roll_seal, roll_create, publish, ghosts
  <2>2. Mode' = Mode
    BY <1>6 DEF recv, write_flush, reject, fsync, roll_seal, roll_create, publish, Mode, Opened
  <2>3. pc' \in {"write", "publish", "roll_create", "roll_header", "commit"}
    BY <1>6 DEF recv, write_flush, reject, fsync, roll_seal, roll_create, publish
  <2>4. CASE AllRecs(files') = AllRecs(files)
    BY <1>3, <2>1, <2>2, <2>4
  <2>5. CASE place
    BY <2>5, MapPlace
  <2>6. ~io_error /\ ~process_crash /\ ~power_loss
    BY <2>3 DEF io_error, process_crash, power_loss, Restart
  <2> QED BY <1>2, <2>4, <2>5, <2>6
<1>7. ASSUME NEW p \in PhysClock, roll_header(p) \/ open_header(p)
      PROVE  Abstract!Next \/ UNCHANGED Abstract!vars
  <2>1. UNCHANGED <<committed_lsn, promised, acked>> /\ Mode' = Mode
    BY <1>7 DEF roll_header, open_header, ghosts, Mode, Opened
  <2>2. AllRecs(files') = AllRecs(files)
    BY <1>1, <1>7, HeaderDir
  <2> QED BY <1>3, <2>1, <2>2
<1>8. CASE place
  BY <1>8, MapPlace
<1>9. CASE commit
  BY <1>9, MapCommit
<1>10. CASE ack
  BY <1>10, MapAck
<1>11. CASE open
  BY <1>11, MapOpen
<1>12. CASE io_error
  BY <1>12, MapError
<1>13. CASE process_crash \/ power_loss
  BY <1>13, MapCrash
<1> QED BY <1>4, <1>5, <1>6, <1>7, <1>8, <1>9, <1>10, <1>11, <1>12, <1>13 DEF Next, WorkerStep

LEMMA InitRef ==
  ASSUME Leader # <<>> => ~OldTail, Init
  PROVE  RefInv /\ Abstract!Init
<1>1. DurableInv /\ OrderInv
  BY InitDurable, InitOrder
<1>2. Carried = {} /\ promised = {} /\ acked = {} /\ pc = "closed"
  BY NoElements DEF Init, Carried
<1>3. FollowInv
  <2>1. CASE Leader = <<>>
    BY <2>1 DEF FollowInv, FollowerMatchesLeader
  <2>2. CASE Leader # <<>>
    <3>1. files = <<>>
      BY <2>2, Zenon DEF Init
    <3>2. AllRecs(files) = {}
      BY <3>1 DEF AllRecs
    <3> QED BY <1>2, <3>2 DEF FollowInv, FollowerMatchesLeader
  <2> QED BY <2>1, <2>2
<1>4. RefInv
  BY <1>1, <1>3 DEF RefInv
<1>5. Mode = "down" /\ History \in Seq(Nat)
  BY <1>2, <1>4, ShownIs, HistoryIs
<1>6. Promise = 0
  <2>1. 0 \in NextLsn({})
    BY DEF NextLsn
  <2>2. EndOf({}) = 0
    BY <2>1, EndUnique
  <2>3. Marks(promised) = {}
    BY <1>2 DEF Marks
  <2> QED BY <2>2, <2>3 DEF Promise, Marks
<1> QED BY <1>2, <1>4, <1>5, <1>6 DEF Abstract!Init

\* The segmented log implements one history of episodes: a roll, a rollback, a
\* crash at any point and the recovery after it show as steps of that history
\* or not at all (lib.rs: the worker's phases, Log::open).  A follower's
\* directory must not start with another log's tail.
THEOREM ImplementsHistory ==
  ASSUME Leader # <<>> => ~OldTail
  PROVE  Spec => ImplementsEpisodeLog
<1>1. Init => RefInv /\ Abstract!Init
  BY InitRef
<1>2. RefInv /\ [Next]_vars => RefInv'
  BY NextDurable, NextFollow, NextOrder DEF RefInv, DurableInv
<1>3. RefInv /\ RefInv' /\ [Next]_vars => [Abstract!Next]_(Abstract!vars)
  BY MapNext
<1> QED BY <1>1, <1>2, <1>3, PTL DEF Spec, ImplementsEpisodeLog, Abstract!Spec

Promised == INSTANCE EpisodeLogProofs WITH
  Episodes <- Nat, mode <- Mode, hist <- History, safe <- Promise, acked <- acked

\* What EpisodeLog promises its callers, heraclitus-log keeps: an acknowledged
\* episode is in the history at its LSN, what is promised is in it, and no step
\* changes the promised part, a crash and the recovery after it included.
THEOREM HistoryKeepsPromises ==
  ASSUME Leader # <<>> => ~OldTail
  PROVE  Spec => /\ [](Promised!AckedInHistory /\ Promised!PromiseCovered)
                 /\ Promised!PromiseStable
<1>1. Abstract!Init => Promised!Init
  BY DEF Abstract!Init, Promised!Init
<1>2. Abstract!Next => Promised!Next
  BY DEF Abstract!Next, Abstract!Commit, Abstract!Answer, Abstract!Poison, Abstract!Crash,
         Abstract!Open, Abstract!Continues, Promised!Next, Promised!Commit, Promised!Answer,
         Promised!Poison, Promised!Crash, Promised!Open, Promised!Continues
<1>3. UNCHANGED Abstract!vars => UNCHANGED Promised!vars
  BY DEF Abstract!vars, Promised!vars
<1>4. Spec => Promised!Spec
  BY <1>1, <1>2, <1>3, ImplementsHistory, PTL DEF ImplementsEpisodeLog, Abstract!Spec, Promised!Spec
<1>5. Promised!Spec => [](Promised!AckedInHistory /\ Promised!PromiseCovered)
  BY Promised!AckedAndPromisedThere
<1>6. Promised!Spec => Promised!PromiseStable
  BY Promised!PromisesNeverTakenBack
<1> QED BY <1>4, <1>5, <1>6
-----------------------------------------------------------------------------
(* What reads find.                                                         *)

\* The entry e of an index points at the record r.
PointsAt(e, r) == e.lsn = r.lsn /\ e.off = r.off

\* The first m records of a file have their entries.
Pointed(c, recs, m) == \A j \in 1..m : PointsAt(c.entries[j], recs[j])

\* The container has an entry for each record of the file.
Indexes(c, recs) == Len(c.entries) = Len(recs) /\ Pointed(c, recs, Len(recs))

\* It has, with those that the updates from p + 1 on will add.
WillIndex(c, recs, u, p) ==
  /\ Len(c.entries) + (Len(u) - p) = Len(recs)
  /\ Pointed(c, recs, Len(c.entries))
  /\ \A k \in 1..(Len(u) - p) : PointsAt(u[p + k], recs[Len(c.entries) + k])

\* Entries and records below n are the same.
Locates(c, recs, n) ==
  /\ \A i \in 1..Len(c.entries) : c.entries[i].lsn < n =>
       \E j \in 1..Len(recs) : PointsAt(c.entries[i], recs[j])
  /\ \A j \in 1..Len(recs) : recs[j].lsn < n =>
       \E i \in 1..Len(c.entries) : PointsAt(c.entries[i], recs[j])

\* A sealed file, and the active one behind the last, hold the LSNs from their
\* base to the next one.
Base(cat, i) == IF i <= Len(cat.sealed) THEN cat.sealed[i].base ELSE cat.active.base
BaseOrder(cat, fs) ==
  \A i \in 1..(Len(cat.sealed) + 1) : \A j \in 1..Len(fs[i].recs) :
    /\ Base(cat, i) <= fs[i].recs[j].lsn
    /\ \A k \in 1..(Len(cat.sealed) + 1) : i < k => fs[i].recs[j].lsn < Base(cat, k)

\* The sealed containers are those of the files before the active one.
SealedShown ==
  pc \notin {"closed", "refused"} =>
    /\ catalog.active.seg = active.seg /\ catalog.active.base = active.base
    /\ Len(catalog.sealed) = active.seg
    /\ \A i \in 1..active.seg : catalog.sealed[i].seg = i - 1
                                /\ Indexes(catalog.sealed[i], files[i].recs)
    /\ BaseOrder(catalog, files)

\* Phases in which the stash has updates that the catalogue lacks.
Unshown == pc \in {"write", "place", "roll_create", "roll_header", "publish"}

ActiveShown ==
  /\ Running => IF Unshown THEN WillIndex(catalog.active, ActiveFile.recs, stash, pending)
                ELSE Indexes(catalog.active, ActiveFile.recs)
  /\ pc \in {"roll_create", "roll_header"} => pending = Len(stash)
  /\ pc = "dead" => Locates(catalog.active, ActiveFile.recs, committed_lsn)
  /\ Running => catalog.active.base <= NextPlace

\* The index is told where the record really is: the worker counts the bytes
\* of a file that has its header.
HeadersWritten == \A i \in DOMAIN files : files[i].hdr = "none" => Creating /\ i = Len(files)
BytesExact ==
  Running => active.bytes = IF pc = "open_header" THEN HeaderLen ELSE PhysLen(ActiveFile)

CatalogInv == HeadersWritten /\ BytesExact /\ SealedShown /\ ActiveShown

Own(f) == {f.recs[j] : j \in DOMAIN f.recs}

LEMMA OwnIs ==
  ASSUME NEW fs \in Seq(File)
  PROVE  /\ AllRecs(fs) = UNION {Own(fs[i]) : i \in DOMAIN fs}
         /\ \A i \in DOMAIN fs : \A r :
              r \in Own(fs[i]) <=> \E j \in 1..Len(fs[i].recs) : r = fs[i].recs[j]
<1>1. AllRecs(fs) = UNION {Own(fs[i]) : i \in DOMAIN fs}
  BY Zenon DEF AllRecs, Own
<1>2. ASSUME NEW i \in DOMAIN fs
      PROVE  \A r : r \in Own(fs[i]) <=> \E j \in 1..Len(fs[i].recs) : r = fs[i].recs[j]
  <2>1. fs[i] \in File
    BY ElementOfSeq, LenProperties
  <2>2. DOMAIN fs[i].recs = 1..Len(fs[i].recs)
    BY <2>1, FileRecs, LenProperties
  <2> QED BY <2>2 DEF Own
<1> QED BY <1>1, <1>2

\* A lookup in the container of a file gives the record with that LSN.
Lookup(c, fs, lsn) ==
  LET k == lsn - c.base + 1
      hit == IF k \in DOMAIN c.entries /\ c.entries[k].lsn = lsn
             THEN {k}
             ELSE {j \in DOMAIN c.entries : c.entries[j].lsn = lsn}
  IN  UNION {ler_registo_em(fs, c.seg, c.entries[j].off) : j \in hit}

LEMMA LookupFinds ==
  ASSUME NEW fs \in Seq(File), NEW c \in SegmentContainer, c.seg + 1 \in DOMAIN fs,
         FileSound(fs[c.seg + 1]), NEW n \in Nat, NEW lsn \in Nat, lsn < n,
         Locates(c, fs[c.seg + 1].recs, n)
  PROVE  Lookup(c, fs, lsn) = {r \in Own(fs[c.seg + 1]) : r.lsn = lsn}
<1> DEFINE f == fs[c.seg + 1]
           k == lsn - c.base + 1
           all == {j \in DOMAIN c.entries : c.entries[j].lsn = lsn}
           hit == IF k \in DOMAIN c.entries /\ c.entries[k].lsn = lsn THEN {k} ELSE all
           at(j) == ler_registo_em(fs, c.seg, c.entries[j].off)
<1>1. /\ f \in File /\ f.recs \in Seq(Record) /\ Len(f.recs) \in Nat
      /\ \A j \in 1..Len(f.recs) : f.recs[j] \in Record
      /\ DOMAIN f.recs = 1..Len(f.recs)
  BY ElementOfSeq, LenProperties, FileRecs
<1>2. c.entries \in Seq(Entry) /\ DOMAIN c.entries = 1..Len(c.entries)
      /\ \A i \in 1..Len(c.entries) : c.entries[i] \in Entry
  BY ElementOfSeq, LenProperties DEF SegmentContainer
<1>3. Lookup(c, fs, lsn) = UNION {at(j) : j \in hit}
  BY DEF Lookup
<1>4. hit \subseteq all /\ (all # {} => hit # {})
  <2> DEFINE there == k \in DOMAIN c.entries /\ c.entries[k].lsn = lsn
  <2>1. CASE there
    <3>1. hit = {k} /\ k \in all
      BY <2>1
    <3> HIDE DEF hit, all, k
    <3> QED BY <3>1
  <2>2. CASE ~there
    <3>1. hit = all
      BY <2>2
    <3> QED BY <3>1
  <2> QED BY <2>1, <2>2
<1>5. \A i, j \in 1..Len(f.recs) :
        f.recs[i].off = f.recs[j].off \/ f.recs[i].lsn = f.recs[j].lsn => i = j
  <2>1. ASSUME NEW i \in 1..Len(f.recs), NEW j \in 1..Len(f.recs), i < j
        PROVE  f.recs[i].off # f.recs[j].off /\ f.recs[i].lsn # f.recs[j].lsn
    <3>1. /\ f.recs[i].size > 0 /\ f.recs[i].lsn < f.recs[j].lsn
          /\ f.recs[i].off + f.recs[i].size <= f.recs[j].off
      BY <2>1 DEF FileSound
    <3>2. /\ f.recs[i].size \in Nat /\ f.recs[i].lsn \in Nat /\ f.recs[j].lsn \in Nat
          /\ f.recs[i].off \in Nat /\ f.recs[j].off \in Nat
      <4>1. f.recs[i] \in Record /\ f.recs[j] \in Record
        BY <1>1
      <4> HIDE DEF f
      <4> QED BY <4>1 DEF Record
    <3> HIDE DEF f
    <3> QED BY <3>1, <3>2, SMTT(30)
  <2>2. \A i, j \in 1..Len(f.recs) : i < j \/ j < i \/ i = j
    BY <1>1
  <2> HIDE DEF f
  <2> QED BY <2>1, <2>2
<1> HIDE DEF f
<1>6. \A j : at(j) = {r \in Own(f) : r.off = c.entries[j].off}
  BY DEF ler_registo_em, Own, f
<1>7. \A r : r \in Own(f) <=> \E i \in 1..Len(f.recs) : r = f.recs[i]
  BY <1>1 DEF Own
<1>8. ASSUME NEW j \in all
      PROVE  at(j) = {r \in Own(f) : r.lsn = lsn}
  <2>1. j \in 1..Len(c.entries) /\ c.entries[j].lsn = lsn
    BY <1>2
  <2>2. PICK i \in 1..Len(f.recs) : PointsAt(c.entries[j], f.recs[i])
    BY <2>1 DEF Locates, f
  <2>3. f.recs[i].lsn = lsn /\ f.recs[i].off = c.entries[j].off
    BY <2>1, <2>2 DEF PointsAt
  <2>4. \A r \in Own(f) : r.off = c.entries[j].off <=> r.lsn = lsn
    BY <1>5, <1>7, <2>3
  <2> HIDE DEF at, all
  <2> QED BY <1>6, <2>4
<1>9. all = {} => {r \in Own(f) : r.lsn = lsn} = {}
  <2> SUFFICES ASSUME NEW r \in Own(f), r.lsn = lsn PROVE all # {}
    OBVIOUS
  <2>1. PICK j \in 1..Len(f.recs) : r = f.recs[j]
    BY <1>7
  <2>2. PICK i \in 1..Len(c.entries) : PointsAt(c.entries[i], f.recs[j])
    BY <2>1 DEF Locates, f
  <2>3. i \in all
    BY <1>2, <2>1, <2>2 DEF PointsAt
  <2> QED BY <2>3
<1> HIDE DEF at, hit, all
<1>10. CASE all = {}
  <2>1. hit = {}
    BY <1>4, <1>10
  <2> QED BY <1>3, <1>9, <1>10, <2>1 DEF f
<1>11. CASE all # {}
  <2>1. hit # {} /\ \A j \in hit : at(j) = {r \in Own(f) : r.lsn = lsn}
    BY <1>4, <1>8, <1>11
  <2> QED BY <1>3, <2>1 DEF f
<1> QED BY <1>10, <1>11

LEMMA IndexesLocate ==
  ASSUME NEW c, NEW recs, NEW n, Indexes(c, recs)
  PROVE  Locates(c, recs, n)
<1> QED BY DEF Indexes, Pointed, Locates

\* The updates still to come are at n or above.
LEMMA WillLocate ==
  ASSUME NEW c \in SegmentContainer, NEW recs \in Seq(Record), NEW u \in Seq(Update), NEW p \in Nat,
         p <= Len(u), NEW n \in Nat, WillIndex(c, recs, u, p),
         \A k \in 1..Len(u) : u[k].lsn >= n
  PROVE  Locates(c, recs, n)
<1> DEFINE e == Len(c.entries)
           d == Len(u) - p
<1>1. e \in Nat /\ Len(u) \in Nat /\ Len(recs) \in Nat /\ d \in Nat /\ e + d = Len(recs)
  BY LenProperties DEF SegmentContainer, WillIndex
<1>2. \A j \in 1..Len(recs) : recs[j].lsn \in Nat
  <2>1. \A j \in 1..Len(recs) : recs[j] \in Record
    BY ElementOfSeq
  <2> QED BY <2>1 DEF Record
<1>3. \A k \in 1..d : u[p + k].lsn >= n /\ PointsAt(u[p + k], recs[e + k])
  <2>1. \A k \in 1..d : p + k \in 1..Len(u)
    BY <1>1
  <2> QED BY <2>1 DEF WillIndex
<1>4. \A j \in 1..Len(recs) : j \in 1..e \/ \E k \in 1..d : j = e + k
  <2> HIDE DEF e, d
  <2>1. ASSUME NEW j \in 1..Len(recs), ~(j \in 1..e) PROVE \E k \in 1..d : j = e + k
    <3>1. j - e \in 1..d /\ j = e + (j - e)
      BY <1>1, <2>1
    <3> QED BY <3>1
  <2> QED BY <2>1
<1>5. \A j \in 1..Len(recs) : recs[j].lsn < n => j \in 1..e
  <2> SUFFICES ASSUME NEW k \in 1..d, NEW j \in 1..Len(recs), j = e + k PROVE ~(recs[j].lsn < n)
    BY <1>4
  <2>1. recs[j].lsn >= n /\ recs[j].lsn \in Nat
    BY <1>2, <1>3 DEF PointsAt
  <2> QED BY <2>1
<1>6. 1..e \subseteq 1..Len(recs) /\ \A j \in 1..e : PointsAt(c.entries[j], recs[j])
  BY <1>1 DEF WillIndex, Pointed
<1> QED BY <1>5, <1>6 DEF Locates

\* The container of file i in a catalogue.
ContainerOf(cat, i) == IF i <= Len(cat.sealed) THEN cat.sealed[i] ELSE cat.active

\* Below the head every container has the records of its file and no others.
LEMMA ContainersLocate ==
  ASSUME HeadInv, CatalogInv, Opened
  PROVE  /\ active.seg \in Nat /\ active.seg + 1 \in DOMAIN files /\ Len(catalog.sealed) = active.seg
         /\ \A i \in 1..(active.seg + 1) :
              /\ ContainerOf(catalog, i) \in SegmentContainer
              /\ ContainerOf(catalog, i).seg + 1 = i /\ i \in DOMAIN files
              /\ Locates(ContainerOf(catalog, i), files[i].recs, committed_lsn)
<1> DEFINE m == active.seg
<1>1. /\ TypeInv /\ pc \notin {"closed", "refused", "open_header"} /\ m \in Nat /\ m + 1 \in DOMAIN files
      /\ DOMAIN files = 1..Len(files) /\ Len(files) \in Nat /\ \A i \in DOMAIN files : files[i] \in File
  BY FilesAre DEF HeadInv, Opened
<1>2. /\ catalog.sealed \in Seq(SegmentContainer) /\ catalog.active \in SegmentContainer
      /\ Len(catalog.sealed) = m /\ catalog.active.seg = m
      /\ \A i \in 1..m : catalog.sealed[i].seg = i - 1 /\ Indexes(catalog.sealed[i], files[i].recs)
  BY <1>1 DEF TypeInv, TypeOK, DirectoryType, Catalog, CatalogInv, SealedShown
<1>3. \A i \in 1..m : catalog.sealed[i] \in SegmentContainer /\ catalog.sealed[i].seg + 1 = i
  BY <1>2, ElementOfSeq
<1>4. Locates(catalog.active, files[m + 1].recs, committed_lsn)
  <2>1. CASE pc = "dead"
    BY <2>1 DEF CatalogInv, ActiveShown, ActiveFile
  <2>2. CASE Running /\ ~Unshown
    BY <2>2, IndexesLocate DEF CatalogInv, ActiveShown, ActiveFile
  <2>3. CASE Running /\ Unshown
    <3>1. /\ stash \in Seq(Update) /\ pending \in Nat /\ pending <= Len(stash)
          /\ committed_lsn = current_lsn /\ committed_lsn \in Nat
      BY <1>1, <2>3 DEF TypeInv, TypeOK, CallsType, WorkerType, WorkerShape, HeadInv,
         HeadIsPublished, CountersType, Running
    <3>2. \A k \in 1..Len(stash) : stash[k].lsn >= committed_lsn
      <4>1. \A k \in DOMAIN stash : stash[k].lsn = current_lsn + k - 1
        BY <2>3 DEF HeadInv, StashDense, Unshown, InBatch
      <4>2. DOMAIN stash = 1..Len(stash) /\ Len(stash) \in Nat
        BY <3>1, LenProperties
      <4>3. \A k \in 1..Len(stash) : current_lsn + k - 1 >= committed_lsn
        BY <3>1, <4>2
      <4> QED BY <4>1, <4>2, <4>3
    <3>3. files[m + 1].recs \in Seq(Record)
      BY <1>1, FileRecs
    <3>4. WillIndex(catalog.active, files[m + 1].recs, stash, pending)
      BY <2>3 DEF CatalogInv, ActiveShown, ActiveFile
    <3> HIDE DEF m
    <3> QED BY <1>2, <3>1, <3>2, <3>3, <3>4, WillLocate
  <2> QED BY <1>1, <2>1, <2>2, <2>3 DEF Running
<1>5. ASSUME NEW i \in 1..(m + 1)
      PROVE  /\ ContainerOf(catalog, i) \in SegmentContainer
             /\ ContainerOf(catalog, i).seg + 1 = i /\ i \in DOMAIN files
             /\ Locates(ContainerOf(catalog, i), files[i].recs, committed_lsn)
  <2>1. i \in DOMAIN files
    BY <1>1
  <2>2. CASE i <= m
    <3>1. i \in 1..m /\ ContainerOf(catalog, i) = catalog.sealed[i]
      BY <1>1, <1>2, <2>2 DEF ContainerOf
    <3>2. Locates(catalog.sealed[i], files[i].recs, committed_lsn)
      BY <1>2, <3>1, IndexesLocate
    <3> QED BY <1>3, <2>1, <3>1, <3>2
  <2>3. CASE ~(i <= m)
    <3>1. i = m + 1 /\ ContainerOf(catalog, i) = catalog.active
      BY <1>1, <1>2, <2>3 DEF ContainerOf
    <3> QED BY <1>2, <1>4, <2>1, <3>1
  <2> QED BY <2>2, <2>3
<1> QED BY <1>1, <1>2, <1>5

\* A read below the head finds what the log has of that LSN, no more and no
\* less.
LEMMA ReadIs ==
  ASSUME HeadInv, DirInv, DeadTail, CatalogInv, Opened, NEW lsn \in Nat, lsn < committed_lsn
  PROVE  read(catalog, files, committed_lsn, lsn) = {r \in AllRecs(files) : r.lsn = lsn}
<1> DEFINE m == active.seg
           con(i) == ContainerOf(catalog, i)
           chosen == ContainersFor(catalog, lsn)
           found == UNION {Lookup(c, files, lsn) : c \in chosen}
<1>1. /\ TypeInv /\ files \in Seq(File) /\ m \in Nat /\ m + 1 \in DOMAIN files
      /\ DOMAIN files = 1..Len(files) /\ Len(files) \in Nat /\ committed_lsn \in Nat
      /\ \A i \in DOMAIN files : files[i] \in File /\ FileSound(files[i])
      /\ pc \notin {"closed", "refused"}
  BY ContainersLocate, FilesAre
     DEF HeadInv, DirInv, FilesSound, TypeInv, TypeOK, DirectoryType, CountersType, Opened
<1>2. \A i \in 1..(m + 1) :
        /\ con(i) \in SegmentContainer /\ con(i).seg + 1 = i /\ i \in DOMAIN files
        /\ Locates(con(i), files[i].recs, committed_lsn)
  BY ContainersLocate
<1>3. \A i \in 1..(m + 1) : Lookup(con(i), files, lsn) = {r \in Own(files[i]) : r.lsn = lsn}
  <2> SUFFICES ASSUME NEW i \in 1..(m + 1)
               PROVE  Lookup(con(i), files, lsn) = {r \in Own(files[i]) : r.lsn = lsn}
    OBVIOUS
  <2>1. /\ con(i) \in SegmentContainer /\ con(i).seg + 1 = i /\ con(i).seg + 1 \in DOMAIN files
        /\ Locates(con(i), files[con(i).seg + 1].recs, committed_lsn)
        /\ FileSound(files[con(i).seg + 1])
    BY <1>1, <1>2
  <2> HIDE DEF con, m
  <2>2. Lookup(con(i), files, lsn) = {r \in Own(files[con(i).seg + 1]) : r.lsn = lsn}
    BY <1>1, <2>1, LookupFinds
  <2> QED BY <2>1, <2>2
<1>4. read(catalog, files, committed_lsn, lsn) = found
  <2>1. ~(lsn >= committed_lsn)
    BY <1>1
  <2> QED BY <2>1 DEF read, Lookup
<1>5. \A c \in chosen : \E i \in 1..(m + 1) : c = con(i)
  <2>1. con(m + 1) = catalog.active /\ m + 1 \in 1..(m + 1)
    BY <1>1, ContainersLocate DEF ContainerOf
  <2>2. \A i \in DOMAIN catalog.sealed : i \in 1..(m + 1) /\ con(i) = catalog.sealed[i]
    <3>1. catalog.sealed \in Seq(SegmentContainer) /\ Len(catalog.sealed) = m
      BY <1>1, ContainersLocate DEF TypeInv, TypeOK, DirectoryType, Catalog
    <3>2. DOMAIN catalog.sealed = 1..m
      BY <3>1, LenProperties
    <3> QED BY <1>1, <3>1, <3>2 DEF ContainerOf
  <2>3. \A c \in chosen : c = catalog.active \/ \E i \in DOMAIN catalog.sealed : c = catalog.sealed[i]
    BY DEF ContainersFor, SealedFor
  <2> HIDE DEF chosen, con, m
  <2> QED BY <2>1, <2>2, <2>3
<1>6. \A i \in 1..(m + 1) : \A r \in Own(files[i]) : r.lsn = lsn => con(i) \in chosen
  <2> SUFFICES ASSUME NEW i \in 1..(m + 1), NEW r \in Own(files[i]), r.lsn = lsn
               PROVE  con(i) \in chosen
    OBVIOUS
  <2>1. Len(catalog.sealed) = m /\ BaseOrder(catalog, files)
    BY <1>1, ContainersLocate DEF CatalogInv, SealedShown
  <2>2. PICK j \in 1..Len(files[i].recs) : r = files[i].recs[j]
    BY <1>1, <1>2, OwnIs
  <2>3. Base(catalog, i) <= lsn /\ \A k \in 1..(m + 1) : i < k => lsn < Base(catalog, k)
    BY <2>1, <2>2 DEF BaseOrder
  <2>4. catalog.sealed \in Seq(SegmentContainer) /\ catalog.active \in SegmentContainer
    BY <1>1 DEF TypeInv, TypeOK, DirectoryType, Catalog
  <2>5. catalog.active.base \in Nat /\ DOMAIN catalog.sealed = 1..m
        /\ \A k \in 1..m : catalog.sealed[k].base \in Nat
    <3>1. \A k \in 1..m : catalog.sealed[k] \in SegmentContainer
      BY <2>1, <2>4, ElementOfSeq
    <3> QED BY <2>1, <2>4, <3>1, LenProperties DEF SegmentContainer
  <2>6. /\ Base(catalog, m + 1) = catalog.active.base
        /\ \A k \in 1..m : Base(catalog, k) = catalog.sealed[k].base
    BY <1>1, <2>1 DEF Base
  <2> HIDE DEF m
  <2>7. CASE i = m + 1
    <3>1. lsn >= catalog.active.base /\ con(i) = catalog.active
      BY <1>1, <2>1, <2>3, <2>5, <2>6, <2>7 DEF ContainerOf
    <3> QED BY <3>1 DEF ContainersFor
  <2>8. CASE i # m + 1
    <3>1. i \in 1..m /\ i < m + 1 /\ m + 1 \in 1..(m + 1)
      BY <1>1, <2>8
    <3>2. ~(lsn >= catalog.active.base)
      BY <2>3, <2>5, <2>6, <3>1
    <3>3. \A k \in 1..m : catalog.sealed[k].base <= lsn => k <= i
      <4> SUFFICES ASSUME NEW k \in 1..m, i < k PROVE ~(catalog.sealed[k].base <= lsn)
        BY <1>1
      <4>1. k \in 1..(m + 1)
        BY <1>1
      <4>2. lsn < catalog.sealed[k].base
        BY <2>3, <2>6, <4>1
      <4> QED BY <2>5, <4>2
    <3>4. i \in SealedFor(catalog, lsn)
      BY <2>3, <2>5, <2>6, <3>1, <3>3 DEF SealedFor
    <3>5. con(i) = catalog.sealed[i]
      BY <2>1, <3>1 DEF ContainerOf
    <3> QED BY <3>2, <3>4, <3>5 DEF ContainersFor
  <2> QED BY <2>7, <2>8
<1>7. \A i \in DOMAIN files : i \in 1..(m + 1) \/ Own(files[i]) = {}
  <2> SUFFICES ASSUME NEW i \in DOMAIN files, i > m + 1 PROVE Own(files[i]) = {}
    BY <1>1
  <2>1. files[i].recs = <<>>
    BY <1>1, TailIsActive
  <2> QED BY <2>1 DEF Own
<1> HIDE DEF chosen, con, m, found
<1>8. \A r : r \in found <=> \E c \in chosen : r \in Lookup(c, files, lsn)
  BY DEF found
<1>9. \A r : r \in AllRecs(files) <=> \E i \in DOMAIN files : r \in Own(files[i])
  BY <1>1, OwnIs
<1>10. ASSUME NEW r \in found PROVE r \in AllRecs(files) /\ r.lsn = lsn
  <2>1. PICK c \in chosen : r \in Lookup(c, files, lsn)
    BY <1>8
  <2>2. PICK i \in 1..(m + 1) : c = con(i)
    BY <1>5
  <2> QED BY <1>2, <1>3, <1>9, <2>1, <2>2
<1>11. ASSUME NEW r \in AllRecs(files), r.lsn = lsn PROVE r \in found
  <2>1. PICK i \in DOMAIN files : r \in Own(files[i])
    BY <1>9
  <2>2. i \in 1..(m + 1)
    BY <1>7, <2>1
  <2> QED BY <1>3, <1>6, <1>8, <1>11, <2>1, <2>2
<1> QED BY <1>4, <1>10, <1>11
-----------------------------------------------------------------------------
(* Headers and lengths.                                                     *)

\* No failure and no recovery takes a header away.
LEMMA LossHeader ==
  ASSUME TypeInv, NEW i \in DOMAIN files, NEW kind, NEW g, Loss(kind, g, i)
  PROVE  g.hdr = files[i].hdr
<1> DEFINE f == files[i]
<1>1. f \in File
  BY FilesAre
<1>2. CASE g = f
  BY <1>2
<1>3. CASE g \in SurvivingImages(f)
  <2>1. CASE \E n \in f.dur..Len(f.recs), half \in BOOLEAN : g = CutAt(f, n, half)
    BY <1>1, <2>1 DEF CutAt, File
  <2>2. CASE g = [f EXCEPT !.dur = Len(f.recs), !.fdur = TRUE]
    BY <1>1, <2>2 DEF File
  <2> HIDE DEF f
  <2> QED BY <1>3, <2>1, <2>2 DEF SurvivingImages
<1>4. CASE \E half \in BOOLEAN : g = [f EXCEPT !.torn = half]
  BY <1>1, <1>4 DEF File
<1>5. CASE g = rollback_active_file(f)
  BY <1>1, <1>5 DEF rollback_active_file, File
<1> QED BY <1>2, <1>3, <1>4, <1>5, Zenon DEF Loss

LEMMA RecoverHeader ==
  ASSUME NEW f \in File, FileSound(f), f.hdr # "none", NEW keep \in BOOLEAN
  PROVE  LET g == Recovered(f, keep)
             found == scan_segment_file(f)
         IN  g.hdr # "none" /\ (~found.sealed /\ keep => PhysLen(g) = found.valid_len)
<1> DEFINE found == scan_segment_file(f)
           h == Repaired(f)
           g == Recovered(f, keep)
<1>1. /\ found.recs = f.recs /\ (f.hdr = "torn" => found.corrupt)
      /\ found.valid_len = IF f.recs = <<>> THEN HeaderLen ELSE LastOf(f.recs).off + LastOf(f.recs).size
  <2>1. found.recs = f.recs
    BY ScanSound
  <2>2. found.valid_len = IF found.recs = <<>> THEN HeaderLen
                         ELSE LastOf(found.recs).off + LastOf(found.recs).size
    BY DEF scan_segment_file
  <2>3. f.hdr = "torn" => found.corrupt
    BY DEF scan_segment_file
  <2> HIDE DEF found
  <2> QED BY <2>1, <2>2, <2>3
<1>2. f.hdr \in {"none", "torn", "ok"} /\ h \in File /\ h.recs = f.recs
  BY RepairSound DEF File
<1>3. h.hdr # "none" /\ (~found.sealed => h.hdr = "ok")
  <2>1. CASE found.corrupt /\ found.sealed
    <3>1. h = [f EXCEPT !.dur = Len(f.recs), !.fdur = TRUE]
      BY <2>1 DEF Repaired, execute_physical_repair
    <3> HIDE DEF h, found
    <3> QED BY <2>1, <3>1 DEF File
  <2>2. CASE found.corrupt /\ ~found.sealed
    <3>1. h = [f EXCEPT !.recs = found.recs, !.foot = NoFooter, !.torn = FALSE,
                        !.dur = Len(found.recs), !.fdur = FALSE, !.hdr = "ok",
                        !.ver = IF found.recs = <<>> THEN "cur" ELSE @]
      BY <2>2 DEF Repaired, execute_physical_repair
    <3> HIDE DEF h, found
    <3> QED BY <3>1 DEF File
  <2>3. CASE ~found.corrupt
    <3>1. h = f
      BY <2>3 DEF Repaired
    <3> QED BY <1>1, <1>2, <2>3, <3>1
  <2> QED BY <2>1, <2>2, <2>3
<1>4. CASE found.sealed \/ keep
  <2>1. g = h
    BY <1>4 DEF Recovered
  <2> HIDE DEF g, h, found
  <2>2. ~found.sealed => PhysLen(g) = found.valid_len
    BY <1>1, <1>2, <1>3, <2>1 DEF PhysLen
  <2> QED BY <1>3, <2>1, <2>2 DEF g, found
<1>5. CASE ~found.sealed /\ ~keep
  <2>1. g = seal_file(h, found)
    BY <1>5 DEF Recovered
  <2> HIDE DEF g, h, found
  <2>2. PICK foot : g = [h EXCEPT !.dur = Len(h.recs), !.fdur = TRUE, !.foot = foot]
    BY <2>1, ZenonT(40) DEF seal_file
  <2>3. g.hdr = h.hdr
    BY <1>2, <2>2 DEF File
  <2> QED BY <1>3, <1>5, <2>3 DEF g, found
<1> QED BY <1>4, <1>5

\* A file without a header is only ever the one being created.
LEMMA NextHeaders ==
  ASSUME HeadInv, DirInv, HeadersWritten, ~EmptyFileSurvives, [Next]_vars
  PROVE  HeadersWritten'
<1>1. TypeInv /\ TypeInv' /\ DOMAIN files = 1..Len(files) /\ Len(files) \in Nat
      /\ \A i \in DOMAIN files : files[i] \in File /\ FileSound(files[i])
  BY NextType, FilesAre DEF HeadInv, DirInv, FilesSound
<1>2. CASE io_error \/ process_crash \/ power_loss
  <2>1. PICK kind \in {"io", "process", "power"} :
          \E hs \in Seq(File), new \in NewFileImages : LostTo(kind, hs, new)
    <3>1. CASE io_error
      BY <1>1, <3>1, IoErrorLoss
    <3>2. CASE process_crash
      BY <1>1, <3>2, ProcessCrashLoss
    <3>3. CASE power_loss
      BY <1>1, <3>3, PowerLoss
    <3> QED BY <1>2, <3>1, <3>2, <3>3
  <2>2. PICK hs \in Seq(File), new \in NewFileImages : LostTo(kind, hs, new)
    BY <2>1
  <2>3. /\ files' = hs \o new /\ Len(hs) \in Nat
        /\ IF Creating THEN Len(hs) + 1 = Len(files) ELSE Len(hs) = Len(files)
        /\ \A m \in 1..Len(hs) : Loss(kind, hs[m], m)
    BY <2>2, LenProperties DEF LostTo
  <2>4. \A m \in 1..Len(hs) : m \in DOMAIN files /\ ~(Creating /\ m = Len(files))
    <3>1. CASE Creating
      <4>1. Len(hs) + 1 = Len(files)
        BY <2>3, <3>1
      <4>2. Len(hs) \in Nat
        BY <2>3
      <4>3. \A m \in 1..Len(hs) : m \in 1..Len(files) /\ m # Len(files)
        BY <4>1, <4>2
      <4> QED BY <1>1, <4>3, ZenonT(40)
    <3>2. CASE ~Creating
      <4>1. Len(hs) = Len(files)
        BY <2>3, <3>2
      <4> QED BY <1>1, <3>2, <4>1, ZenonT(40)
    <3> QED BY <3>1, <3>2
  <2>5. \A m \in 1..Len(hs) : hs[m].hdr # "none"
    BY <1>1, <2>3, <2>4, LossHeader, ZenonT(40) DEF HeadersWritten
  <2>6. \A m \in DOMAIN (hs \o new) :
          \/ m \in 1..Len(hs) /\ (hs \o new)[m] = hs[m]
          \/ (hs \o new)[m] = [EmptyFile EXCEPT !.hdr = "torn"]
    BY NewImageOpen
  <2>7. [EmptyFile EXCEPT !.hdr = "torn"].hdr = "torn"
    BY DEF EmptyFile
  <2> QED BY <2>3, <2>5, <2>6, <2>7 DEF HeadersWritten
<1>3. ASSUME DOMAIN files' = DOMAIN files, Len(files') = Len(files), Creating => Creating',
             \A i \in DOMAIN files : files'[i].hdr = files[i].hdr
      PROVE  HeadersWritten'
  BY <1>3 DEF HeadersWritten
<1>4. CASE \/ \E c \in Clients, size \in Sizes, p \in PhysClock : append(c, size, p)
           \/ \E c \in Clients, k \in DOMAIN Leader : append_replicated(c, k)
           \/ \E c \in Clients : flush(c) \/ send_timeout(c)
           \/ UNCHANGED vars
  <2>1. files' = files /\ pc' = pc
    BY <1>4, Zenon DEF append, append_replicated, flush, send_timeout, vars, worker
  <2> QED BY <1>3, <2>1 DEF Creating
<1>5. CASE recv \/ write_flush \/ reject \/ publish \/ commit \/ ack
  <2>1. files' = files /\ ~Creating /\ ~Creating'
    BY <1>5 DEF recv, write_flush, reject, publish, commit, ack, Creating
  <2> QED BY <1>3, <2>1
<1>6. CASE fsync
  <2>1. ~Creating /\ ~Creating'
    BY <1>6 DEF fsync, Creating
  <2> QED BY <1>1, <1>3, <1>6, <2>1, FsyncFiles
<1>7. CASE roll_seal
  <2>1. ~Creating /\ ~Creating'
    BY <1>7 DEF roll_seal, Creating
  <2> QED BY <1>1, <1>3, <1>7, <2>1, RollSealFiles
<1>8. CASE place
  <2> QED BY <1>1, <1>3, <1>8, PlaceFiles
<1>9. CASE roll_create
  <2> DEFINE n == Len(files)
  <2>1. /\ Creating' /\ ~Creating /\ Len(files') = n + 1
        /\ \A i \in DOMAIN files : files'[i].hdr = files[i].hdr
        /\ \A i \in DOMAIN files' : i \in DOMAIN files \/ i = n + 1
    BY <1>1, <1>9, RollCreateFiles DEF Creating
  <2> QED BY <2>1 DEF HeadersWritten
<1>10. ASSUME NEW p \in PhysClock, roll_header(p) \/ open_header(p)
       PROVE  HeadersWritten'
  <2> DEFINE n == Len(files)
  <2>1. /\ DOMAIN files' = DOMAIN files /\ files'[n].hdr = "ok"
        /\ \A i \in DOMAIN files : i # n => files'[i] = files[i]
    BY <1>1, <1>10, HeaderFiles
  <2> QED BY <2>1 DEF HeadersWritten
<1>11. CASE open
  <2>1. pc = "closed" /\ ~Creating
    BY <1>11 DEF open, Creating
  <2>2. CASE pc' = "refused" /\ files' = files
    <3>1. ~Creating'
      BY <2>2 DEF Creating
    <3> QED BY <1>3, <2>1, <2>2, <3>1
  <2>3. ASSUME NEW lsn0, Reopens(lsn0) PROVE HeadersWritten'
    <3>1. ASSUME NEW i \in DOMAIN files PROVE files'[i].hdr # "none"
      <4> DEFINE keep == i = Len(files) /\ KeepsTail
      <4>1. keep \in BOOLEAN /\ files'[i] = Recovered(files[i], keep)
        BY <2>3 DEF Reopens, KeepsTail
      <4>2. files[i].hdr # "none"
        BY <2>1 DEF HeadersWritten
      <4> HIDE DEF keep
      <4> QED BY <1>1, <4>1, <4>2, RecoverHeader
    <3>2. DOMAIN files' = 1..Len(files')
      BY <1>1, LenProperties DEF TypeInv, TypeOK, DirectoryType
    <3>3. CASE TailKept(lsn0)
      <4>1. DOMAIN files' = DOMAIN files
        BY <1>1, <3>2, <3>3 DEF TailKept
      <4> QED BY <3>1, <4>1 DEF HeadersWritten
    <3>4. CASE TailStarted(lsn0)
      <4>1. Creating' /\ Len(files') = Len(files) + 1
        BY <3>4 DEF TailStarted, Creating
      <4>2. \A i \in DOMAIN files' : i \in DOMAIN files \/ i = Len(files')
        BY <1>1, <3>2, <4>1
      <4> QED BY <3>1, <4>1, <4>2 DEF HeadersWritten
    <3> QED BY <2>3, <3>3, <3>4 DEF Reopens
  <2> QED BY <1>1, <1>11, <2>2, <2>3, OpenFiles DEF DirInv
<1> QED BY <1>2, <1>4, <1>5, <1>6, <1>7, <1>8, <1>9, <1>10, <1>11 DEF Next, WorkerStep

\* The active file and the worker's counts when a record has been placed.
LEMMA PlaceRecs ==
  ASSUME HeadInv, DirInv, CommandsSound, place
  PROVE  /\ Placed \in Record /\ Placed.lsn = tentative_lsn /\ Placed.off = PhysLen(ActiveFile)
         /\ Placed.size = Cmd.size /\ Placed.id = Cmd.id /\ Cmd.size \in Nat
         /\ ActiveFile.recs \in Seq(Record) /\ ActiveFile'.recs = Append(ActiveFile.recs, Placed)
         /\ active.seg + 1 \in DOMAIN files /\ active'.seg = active.seg /\ active'.base = active.base
         /\ active'.bytes = active.bytes + Cmd.size
<1> DEFINE k == active.seg + 1
           f == ActiveFile
           r == Placed
           recs == Append(f.recs, r)
           g == [f EXCEPT !.recs = recs]
<1>1. TypeInv /\ Running
  BY DEF HeadInv, place, Running
<1>2. files \in Seq(File) /\ k \in DOMAIN files /\ f \in File /\ FileSound(f) /\ f.recs \in Seq(Record)
  BY <1>1, FilesAre, FileRecs DEF ActiveFile, DirInv, FilesSound, Running
<1>3. r \in Record /\ r.lsn = tentative_lsn /\ r.off = PhysLen(f) /\ r.size = Cmd.size
      /\ r.id = Cmd.id /\ Cmd.size \in Nat
  <2>1. Cmd \in Command
    BY PlaceDir
  <2>2. PhysLen(f) \in Nat /\ tentative_lsn \in Nat
    BY <1>1, <1>2, PhysLenEnd DEF TypeInv, TypeOK, CountersType
  <2>3. Cmd.size \in Nat /\ Cmd.ts \in Nat /\ Cmd.id \in Nat
    BY <2>1 DEF Command
  <2> HIDE DEF f
  <2> QED BY <2>2, <2>3 DEF Placed, Record, f
<1>4. files' = [files EXCEPT ![k] = g]
  BY DEF place, Placed, ActiveFile
<1>5. /\ active'.seg = active.seg /\ active'.base = active.base
      /\ active'.bytes = active.bytes + Cmd.size
  <2>1. active \in ActiveSegment
    BY <1>1 DEF TypeInv, TypeOK, WorkerType
  <2>2. \E h, m : active' = [active EXCEPT !.bytes = @ + Cmd.size, !.hashes = h, !.max = m]
    BY Zenon DEF place
  <2> QED BY <2>1, <2>2 DEF ActiveSegment
<1> HIDE DEF r, f
<1>6. g.recs = recs
  BY <1>2 DEF File
<1>7. ActiveFile' = g
  BY <1>2, <1>4, <1>5 DEF ActiveFile
<1> QED BY <1>2, <1>3, <1>5, <1>6, <1>7 DEF f, r

\* The worker knows where the active file ends.
LEMMA NextBytes ==
  ASSUME HeadInv, DirInv, CommandsSound, HeadersWritten, BytesExact, [Next]_vars
  PROVE  BytesExact'
<1>1. TypeInv /\ TypeInv' /\ DOMAIN files = 1..Len(files) /\ Len(files) \in Nat
      /\ \A i \in DOMAIN files : files[i] \in File /\ FileSound(files[i])
  BY NextType, FilesAre DEF HeadInv, DirInv, FilesSound
<1>2. ASSUME Running, pc # "open_header", pc' # "open_header", active' = active,
             ActiveFile'.recs = ActiveFile.recs, ActiveFile'.hdr = ActiveFile.hdr
      PROVE  BytesExact'
  <2>1. PhysLen(ActiveFile') = PhysLen(ActiveFile)
    BY <1>2 DEF PhysLen
  <2> QED BY <1>2, <2>1 DEF BytesExact
<1>3. CASE io_error \/ process_crash \/ power_loss
  <2>1. ~Running'
    BY <1>3 DEF io_error, process_crash, power_loss, Restart, Running
  <2> QED BY <2>1 DEF BytesExact
<1>4. CASE UNCHANGED <<files, worker>>
  BY <1>4 DEF BytesExact, Running, ActiveFile, worker
<1>5. \/ \E c \in Clients, size \in Sizes, p \in PhysClock : append(c, size, p)
      \/ \E c \in Clients, k \in DOMAIN Leader : append_replicated(c, k)
      \/ \E c \in Clients : flush(c) \/ send_timeout(c)
      \/ UNCHANGED vars
      => UNCHANGED <<files, worker>>
  BY Zenon DEF append, append_replicated, flush, send_timeout, vars
<1>6. CASE recv \/ write_flush \/ reject \/ publish \/ commit \/ ack
  <2>1. /\ files' = files /\ active' = active /\ Running /\ pc # "open_header"
        /\ pc' # "open_header"
    BY <1>6 DEF recv, write_flush, reject, publish, commit, ack, Running
  <2> QED BY <1>2, <2>1 DEF ActiveFile
<1>7. CASE fsync
  <2>1. active.seg + 1 \in DOMAIN files
    BY <1>1, <1>7, FilesAre, FsyncFiles DEF Running
  <2> QED BY <1>1, <1>2, <1>7, <2>1, FsyncFiles DEF ActiveFile
<1>8. CASE roll_seal
  BY <1>1, <1>2, <1>8, RollSealFiles DEF ActiveFile
<1>9. CASE roll_create
  BY <1>1, <1>2, <1>9, RollCreateFiles DEF ActiveFile
<1>10. CASE place
  <2>1. /\ Placed \in Record /\ Placed.off = PhysLen(ActiveFile) /\ Placed.size = Cmd.size
        /\ ActiveFile.recs \in Seq(Record) /\ ActiveFile'.recs = Append(ActiveFile.recs, Placed)
        /\ active'.bytes = active.bytes + Cmd.size
    BY <1>10, PlaceRecs
  <2>2. LastOf(ActiveFile'.recs) = Placed /\ ActiveFile'.recs # <<>>
    <3>1. /\ Len(ActiveFile'.recs) = Len(ActiveFile.recs) + 1 /\ Len(ActiveFile.recs) \in Nat
          /\ ActiveFile'.recs[Len(ActiveFile.recs) + 1] = Placed /\ Len(<<>>) = 0
      BY <2>1, AppendProperties, LenProperties
    <3> QED BY <3>1 DEF LastOf
  <2>3. PhysLen(ActiveFile') = PhysLen(ActiveFile) + Cmd.size
    BY <2>1, <2>2 DEF PhysLen
  <2>4. Running /\ Running' /\ pc # "open_header" /\ pc' # "open_header"
    BY <1>10 DEF place, Running
  <2> QED BY <2>1, <2>3, <2>4 DEF BytesExact
<1>11. ASSUME NEW p \in PhysClock, roll_header(p) \/ open_header(p)
       PROVE  BytesExact'
  <2> DEFINE n == Len(files)
  <2>1. /\ Running /\ Creating /\ files'[n].hdr = "ok" /\ files'[n].recs = files[n].recs
        /\ n \in DOMAIN files
    BY <1>1, <1>11, HeaderFiles
  <2>2. files[n].recs = <<>>
    BY <2>1 DEF DirInv, CreatedEmpty
  <2>3. PhysLen(files'[n]) = HeaderLen
    BY <2>1, <2>2 DEF PhysLen
  <2>4. active'.seg + 1 = n /\ active'.bytes = HeaderLen /\ pc' # "open_header"
    <3>1. CASE roll_header(p)
      <4>1. active' = new_active(active.seg + 1, tentative_lsn) /\ pc' = "place" /\ pc = "roll_header"
        BY <3>1 DEF roll_header
      <4>2. active.seg + 2 = Len(files) /\ active.seg \in Nat
        BY <1>1, <4>1, FilesAre DEF TypeInv, TypeOK, WorkerShape
      <4>3. active'.seg = active.seg + 1 /\ active'.bytes = HeaderLen
        BY <4>1 DEF new_active
      <4>4. active.seg + 1 + 1 = Len(files)
        BY <4>2
      <4> QED BY <4>1, <4>3, <4>4
    <3>2. CASE open_header(p)
      <4>1. active' = active /\ pc' = "recv" /\ pc = "open_header"
        BY <3>2 DEF open_header
      <4> QED BY <1>1, <2>1, <4>1 DEF BytesExact, TypeInv, ActiveIsLast
    <3> QED BY <1>11, <3>1, <3>2
  <2> HIDE DEF n
  <2> QED BY <2>3, <2>4 DEF BytesExact, ActiveFile
<1>12. CASE open
  <2>1. pc = "closed" /\ ~Creating
    BY <1>12 DEF open, Creating
  <2>2. CASE pc' = "refused"
    BY <2>2 DEF BytesExact, Running
  <2>3. ASSUME NEW lsn0, Reopens(lsn0) PROVE BytesExact'
    <3>1. CASE TailKept(lsn0)
      <4> DEFINE n == Len(files)
      <4>1. /\ KeepsTail /\ n \in DOMAIN files /\ files'[n] = Recovered(files[n], TRUE)
        <5>1. KeepsTail /\ n \in DOMAIN files
          BY <1>1, <3>1 DEF TailKept, KeepsTail
        <5> QED BY <2>3, <5>1 DEF Reopens
      <4>2. active'.seg = n - 1 /\ active'.bytes = scan_segment_file(files[n]).valid_len /\ pc' = "recv"
        BY <3>1 DEF TailKept, LastFile
      <4>3. files[n].hdr # "none" /\ ~scan_segment_file(files[n]).sealed
        BY <2>1, <4>1 DEF HeadersWritten, KeepsTail, LastFile
      <4>4. PhysLen(files'[n]) = scan_segment_file(files[n]).valid_len
        BY <1>1, <4>1, <4>3, RecoverHeader
      <4>5. active'.seg + 1 = n
        BY <1>1, <4>2
      <4> HIDE DEF n
      <4> QED BY <4>2, <4>4, <4>5 DEF BytesExact, ActiveFile
    <3>2. CASE TailStarted(lsn0)
      BY <3>2 DEF TailStarted, BytesExact, new_active
    <3> QED BY <2>3, <3>1, <3>2 DEF Reopens
  <2> QED BY <1>1, <1>12, <2>2, <2>3, OpenFiles DEF DirInv
<1> QED BY <1>3, <1>4, <1>5, <1>6, <1>7, <1>8, <1>9, <1>10, <1>11, <1>12 DEF Next, WorkerStep
-----------------------------------------------------------------------------
(* The sealed containers.                                                   *)

\* What the invariant says of the files at and behind the active segment.
LEMMA SealedSays ==
  ASSUME TypeInv, SealedShown, pc \notin {"closed", "refused"}
  PROVE  /\ active.seg \in Nat /\ active.seg + 1 \in DOMAIN files /\ active.base \in Nat
         /\ \A i \in 1..(active.seg + 1) : i \in DOMAIN files /\ files[i] \in File
         /\ catalog.sealed \in Seq(SegmentContainer) /\ catalog.active \in SegmentContainer
         /\ DOMAIN catalog.sealed = 1..active.seg /\ Len(catalog.sealed) = active.seg
         /\ \A j \in 1..Len(ActiveFile.recs) : active.base <= ActiveFile.recs[j].lsn
<1>1. /\ active.seg \in Nat /\ active.base \in Nat /\ active.seg + 1 \in DOMAIN files
      /\ DOMAIN files = 1..Len(files) /\ Len(files) \in Nat
      /\ \A i \in DOMAIN files : files[i] \in File
  BY FilesAre DEF TypeInv, TypeOK, WorkerType, WorkerShape, ActiveSegment
<1>2. \A i \in 1..(active.seg + 1) : i \in DOMAIN files
  BY <1>1
<1>3. /\ catalog.sealed \in Seq(SegmentContainer) /\ catalog.active \in SegmentContainer
      /\ Len(catalog.sealed) = active.seg
  BY DEF TypeInv, TypeOK, DirectoryType, Catalog, SealedShown
<1>4. \A j \in 1..Len(ActiveFile.recs) : active.base <= ActiveFile.recs[j].lsn
  <2>1. Base(catalog, active.seg + 1) = active.base
    BY <1>1, <1>3 DEF Base, SealedShown
  <2>2. active.seg + 1 \in 1..(Len(catalog.sealed) + 1)
    BY <1>1, <1>3
  <2> QED BY <2>1, <2>2 DEF SealedShown, BaseOrder, ActiveFile
<1> QED BY <1>1, <1>2, <1>3, <1>4, LenProperties

LEMMA SealedKept ==
  ASSUME TypeInv, TypeInv', SealedShown, pc \notin {"closed", "refused"},
         catalog'.sealed = catalog.sealed, catalog'.active.seg = catalog.active.seg,
         catalog'.active.base = catalog.active.base,
         active'.seg = active.seg, active'.base = active.base,
         \A i \in 1..active.seg : files'[i].recs = files[i].recs,
         \A j \in 1..Len(ActiveFile'.recs) : active.base <= ActiveFile'.recs[j].lsn
  PROVE  SealedShown'
<1> DEFINE m == active.seg
<1>1. m \in Nat /\ Len(catalog.sealed) = m
  BY SealedSays
<1>2. \A i : Base(catalog', i) = Base(catalog, i)
  BY DEF Base
<1>3. BaseOrder(catalog', files')
  <2> SUFFICES ASSUME NEW i \in 1..(m + 1), NEW j \in 1..Len(files'[i].recs)
               PROVE  /\ Base(catalog, i) <= files'[i].recs[j].lsn
                      /\ \A k \in 1..(m + 1) : i < k => files'[i].recs[j].lsn < Base(catalog, k)
    BY <1>1, <1>2 DEF BaseOrder
  <2>1. CASE i \in 1..m
    <3>1. files'[i].recs = files[i].recs
      BY <2>1
    <3> QED BY <1>1, <3>1 DEF SealedShown, BaseOrder
  <2>2. CASE i = m + 1
    <3>1. Base(catalog, m + 1) = active.base
      BY <1>1 DEF Base, SealedShown
    <3>2. files'[i] = ActiveFile'
      BY <2>2 DEF ActiveFile
    <3>3. \A k \in 1..(m + 1) : ~(i < k)
      BY <1>1, <2>2
    <3> QED BY <2>2, <3>1, <3>2, <3>3
  <2> QED BY <1>1, <2>1, <2>2
<1> QED BY <1>1, <1>3 DEF SealedShown

\* Steps that leave the worker in its segment.
LEMMA SameSealed ==
  ASSUME TypeInv, TypeInv', SealedShown, pc \notin {"closed", "refused"},
         pc' \notin {"closed", "refused"},
         catalog'.sealed = catalog.sealed, catalog'.active.seg = catalog.active.seg,
         catalog'.active.base = catalog.active.base,
         active'.seg = active.seg, active'.base = active.base,
         \A i \in 1..(active.seg + 1) : Shorter(files'[i], files[i]),
         \A i \in 1..active.seg : files'[i].recs = files[i].recs
  PROVE  SealedShown'
<1>1. /\ active.seg + 1 \in 1..(active.seg + 1) /\ ActiveFile' = files'[active.seg + 1]
      /\ Len(ActiveFile.recs) \in Nat /\ Len(ActiveFile'.recs) \in Nat
  <2>1. active.seg \in Nat /\ active.seg + 1 \in DOMAIN files /\ ActiveFile \in File
    BY SealedSays DEF ActiveFile
  <2>2. ActiveFile' = files'[active.seg + 1]
    BY DEF ActiveFile
  <2>3. active'.seg + 1 \in DOMAIN files'
    BY DEF TypeInv, TypeOK, WorkerShape
  <2>4. files'[active.seg + 1] \in File
    BY <2>3, ElementOfSeq, LenProperties DEF TypeInv, TypeOK, DirectoryType
  <2> QED BY <2>1, <2>2, <2>4, FileRecs
<1>2. ASSUME NEW j \in 1..Len(ActiveFile'.recs) PROVE active.base <= ActiveFile'.recs[j].lsn
  <2>1. Shorter(ActiveFile', ActiveFile)
    BY <1>1 DEF ActiveFile
  <2>2. j \in 1..Len(ActiveFile.recs) /\ ActiveFile'.recs[j] = ActiveFile.recs[j]
    BY <1>1, <2>1 DEF Shorter
  <2> QED BY <2>2, SealedSays
<1> QED BY <1>2, SealedKept
-----------------------------------------------------------------------------
(* The active container.                                                    *)

\* Phase 4 gives the catalogue the entries it lacks.
LEMMA PublishedIndexes ==
  ASSUME TypeInv, NEW recs, WillIndex(catalog.active, recs, stash, pending)
  PROVE  /\ publish_active.sealed = catalog.sealed
         /\ publish_active.active.seg = catalog.active.seg
         /\ publish_active.active.base = catalog.active.base
         /\ Indexes(publish_active.active, recs)
<1> DEFINE old == catalog.active.entries
           new == IndexOf(Unindexed)
           e == Len(old)
           d == Len(stash) - pending
<1>1. /\ catalog \in Catalog /\ catalog.active \in SegmentContainer /\ old \in Seq(Entry) /\ e \in Nat
      /\ stash \in Seq(Update) /\ Len(stash) \in Nat /\ pending \in Nat /\ pending <= Len(stash)
  BY LenProperties
     DEF TypeInv, TypeOK, DirectoryType, CallsType, WorkerType, WorkerShape, Catalog, SegmentContainer
<1>2. d \in Nat /\ e + d = Len(recs) /\ Pointed(catalog.active, recs, e)
      /\ \A k \in 1..d : PointsAt(stash[pending + k], recs[e + k])
  BY <1>1 DEF WillIndex
<1>3. CASE pending < Len(stash)
  <2>1. publish_active = [catalog EXCEPT !.active = Extended(@)]
    BY <1>3 DEF publish_active
  <2>2. /\ publish_active.sealed = catalog.sealed
        /\ publish_active.active = Extended(catalog.active)
    BY <1>1, <2>1 DEF Catalog
  <2>3. /\ Extended(catalog.active).seg = catalog.active.seg
        /\ Extended(catalog.active).base = catalog.active.base
        /\ Extended(catalog.active).entries = old \o new
    BY <1>1 DEF Extended, SegmentContainer
  <2>4. /\ Unindexed \in Seq(Update) /\ Len(Unindexed) = d /\ DOMAIN Unindexed = 1..d
        /\ \A k \in 1..d : Unindexed[k] = stash[pending + k]
    <3>1. pending + 1 \in 1..(Len(stash) + 1) /\ Len(stash) \in 0..Len(stash)
      BY <1>1
    <3>2. /\ Unindexed \in Seq(Update)
          /\ Len(Unindexed) = IF pending + 1 <= Len(stash) THEN Len(stash) - (pending + 1) + 1 ELSE 0
          /\ \A k \in 1..Len(Unindexed) : Unindexed[k] = stash[pending + 1 + k - 1]
      BY <1>1, <3>1, SubSeqProperties DEF Unindexed
    <3>3. Len(Unindexed) = d
      BY <1>1, <1>3, <3>2
    <3>4. \A k \in 1..d : pending + 1 + k - 1 = pending + k
      BY <1>1
    <3> QED BY <3>2, <3>3, <3>4, LenProperties
  <2>5. /\ new \in Seq(Entry) /\ Len(new) = d
        /\ \A k \in 1..d : new[k].lsn = stash[pending + k].lsn /\ new[k].off = stash[pending + k].off
    <3>1. \A u \in Update : u.lsn \in Nat /\ u.off \in Nat
      BY DEF Update
    <3>2. new \in Seq(Entry)
      BY <2>4, <3>1, IndexType
    <3>3. DOMAIN new = 1..d
      BY <2>4 DEF IndexOf
    <3>4. Len(new) = d
      BY <1>2, <3>2, <3>3, LenProperties
    <3> QED BY <2>4, <3>2, <3>4 DEF IndexOf
  <2> HIDE DEF new, d, e, old
  <2>6. /\ Len(old \o new) = e + d
        /\ \A j \in 1..e : (old \o new)[j] = old[j]
        /\ \A k \in 1..d : (old \o new)[e + k] = new[k]
    <3>1. /\ Len(old \o new) = Len(old) + Len(new)
          /\ \A j \in 1..(Len(old) + Len(new)) :
               (old \o new)[j] = IF j <= Len(old) THEN old[j] ELSE new[j - Len(old)]
      BY <1>1, <2>5, ConcatProperties
    <3>2. Len(old) = e
      BY DEF e
    <3>3. \A k \in 1..d : e + k \in 1..(e + d) /\ ~(e + k <= e) /\ e + k - e = k
      BY <1>1, <1>2
    <3>4. \A j \in 1..e : j \in 1..(e + d) /\ j <= e
      BY <1>1, <1>2
    <3> QED BY <2>5, <3>1, <3>2, <3>3, <3>4
  <2>7. ASSUME NEW j \in 1..Len(recs) PROVE PointsAt((old \o new)[j], recs[j])
    <3>1. CASE j \in 1..e
      BY <1>2, <2>6, <3>1 DEF Pointed, old
    <3>2. CASE ~(j \in 1..e)
      <4>1. j - e \in 1..d /\ j = e + (j - e)
        BY <1>1, <1>2, <3>2
      <4>2. PICK k \in 1..d : j = e + k
        BY <4>1
      <4> QED BY <1>2, <2>5, <2>6, <4>2 DEF PointsAt
    <3> QED BY <3>1, <3>2
  <2> QED BY <1>2, <2>2, <2>3, <2>6, <2>7 DEF Indexes, Pointed
<1>4. CASE ~(pending < Len(stash))
  <2>1. publish_active = catalog
    BY <1>4 DEF publish_active
  <2>2. d = 0
    BY <1>1, <1>4
  <2>3. e = Len(recs)
    BY <1>1, <1>2, <2>2
  <2> HIDE DEF d
  <2> QED BY <1>2, <2>1, <2>3 DEF Indexes
<1> QED BY <1>3, <1>4

LEMMA IndexedWill ==
  ASSUME NEW c \in SegmentContainer, NEW recs, Indexes(c, recs), NEW u, Len(u) \in Nat
  PROVE  WillIndex(c, recs, u, Len(u))
<1>1. Len(c.entries) \in Nat /\ Len(u) - Len(u) = 0
  BY LenProperties DEF SegmentContainer
<1>2. Len(c.entries) + (Len(u) - Len(u)) = Len(recs)
  BY <1>1 DEF Indexes
<1>3. Pointed(c, recs, Len(c.entries))
  BY DEF Indexes
<1>4. \A k : k \notin 1..(Len(u) - Len(u))
  BY <1>1
<1> QED BY <1>2, <1>3, <1>4 DEF WillIndex

\* A record is written with the offset the index will give it.
LEMMA PlacedWill ==
  ASSUME NEW c \in SegmentContainer, NEW recs \in Seq(Record), NEW u \in Seq(Update),
         NEW p \in Nat, p <= Len(u), WillIndex(c, recs, u, p),
         NEW r \in Record, NEW x \in Update, PointsAt(x, r)
  PROVE  WillIndex(c, Append(recs, r), Append(u, x), p)
<1> DEFINE e == Len(c.entries)
           d == Len(u) - p
           rs == Append(recs, r)
           us == Append(u, x)
<1>1. /\ e \in Nat /\ d \in Nat /\ Len(recs) = e + d /\ Len(u) = p + d
      /\ Len(rs) = e + d + 1 /\ Len(us) - p = d + 1
  <2>1. e \in Nat /\ Len(u) \in Nat /\ Len(recs) \in Nat
    BY LenProperties DEF SegmentContainer
  <2>2. Len(rs) = Len(recs) + 1 /\ Len(us) = Len(u) + 1
    BY AppendProperties
  <2>3. e + d = Len(recs)
    BY DEF WillIndex
  <2> HIDE DEF e, rs, us
  <2> QED BY <2>1, <2>2, <2>3, SMTT(30)
<1>2. \A j \in 1..(e + d) : rs[j] = recs[j]
  BY <1>1, AppendProperties
<1>3. \A k \in 1..(p + d) : us[k] = u[k]
  BY <1>1, AppendProperties
<1>4. rs[e + d + 1] = r /\ us[p + d + 1] = x
  BY <1>1, AppendProperties
<1>5. Pointed(c, recs, e) /\ \A k \in 1..d : PointsAt(u[p + k], recs[e + k])
  BY DEF WillIndex
<1> HIDE DEF e, d, rs, us
<1>6. Pointed(c, rs, e)
  <2>1. \A j \in 1..e : j \in 1..(e + d)
    BY <1>1
  <2> QED BY <1>2, <1>5, <2>1 DEF Pointed
<1>7. ASSUME NEW k \in 1..(d + 1) PROVE PointsAt(us[p + k], rs[e + k])
  <2>1. CASE k \in 1..d
    <3>1. p + k \in 1..(p + d) /\ e + k \in 1..(e + d)
      BY <1>1, <2>1
    <3> QED BY <1>2, <1>3, <1>5, <2>1, <3>1
  <2>2. CASE k = d + 1
    <3>1. p + k = p + d + 1 /\ e + k = e + d + 1
      BY <1>1, <2>2
    <3> QED BY <1>4, <3>1
  <2> QED BY <1>1, <2>1, <2>2
<1>8. e + (Len(us) - p) = Len(rs)
  BY <1>1, SMTT(30)
<1> QED BY <1>1, <1>6, <1>7, <1>8 DEF WillIndex, e, rs, us
-----------------------------------------------------------------------------
(* The catalogue that open makes.                                           *)

\* A strictly increasing function on 1..n is the identity.
LEMMA IncreasingSelf ==
  ASSUME NEW n \in Nat, NEW q \in [1..n -> 1..n], \A k, l \in 1..n : k < l => q[k] < q[l]
  PROVE  \A k \in 1..n : q[k] = k
<1> DEFINE low == {k \in 1..n : q[k] < k}
           high == {k \in 1..n : k < q[k]}
<1>1. low = {}
  <2> SUFFICES ASSUME low # {} PROVE FALSE
    OBVIOUS
  <2>1. low \subseteq Nat
    OBVIOUS
  <2>2. PICK k \in low : \A l \in low : k <= l
    <3> HIDE DEF low
    <3> QED BY <2>1, LeastNat
  <2>3. k \in 1..n /\ q[k] \in 1..n /\ q[k] < k
    OBVIOUS
  <2>4. q[q[k]] < q[k]
    BY <2>3
  <2>5. q[k] \in low
    BY <2>3, <2>4
  <2>6. k <= q[k]
    BY <2>2, <2>5
  <2> QED BY <2>3, <2>6
<1>2. high = {}
  <2> SUFFICES ASSUME high # {} PROVE FALSE
    OBVIOUS
  <2>1. high \subseteq Nat /\ IsFiniteSet(high)
    <3>1. IsFiniteSet(1..n) /\ high \in SUBSET (1..n)
      BY FS_Interval
    <3>2. IsFiniteSet(high)
      BY <3>1, FS_Subset
    <3> QED BY <3>1, <3>2
  <2>2. PICK k \in high : \A l \in high : l <= k
    <3> HIDE DEF high
    <3> QED BY <2>1, FiniteMax
  <2>3. k \in 1..n /\ q[k] \in 1..n /\ k < q[k]
    OBVIOUS
  <2>4. q[k] < q[q[k]]
    BY <2>3
  <2>5. q[k] \in high
    BY <2>3, <2>4
  <2>6. q[k] <= k
    BY <2>2, <2>5
  <2> QED BY <2>3, <2>6
<1>3. ASSUME NEW k \in 1..n PROVE q[k] = k
  <2>1. ~(q[k] < k) /\ ~(k < q[k])
    BY <1>1, <1>2
  <2>2. q[k] \in 1..n
    OBVIOUS
  <2> QED BY <2>1, <2>2
<1> QED BY <1>3

\* The stable sort leaves alone what is in order.
LEMMA SortedSame ==
  ASSUME NEW s \in Seq(SegmentContainer), \A i, j \in DOMAIN s : i < j => s[i].base <= s[j].base,
         NEW t \in SortedByBase(s)
  PROVE  t = s
<1> DEFINE n == Len(s)
           before(i, j) == s[i].base < s[j].base \/ (s[i].base = s[j].base /\ i < j)
<1>1. /\ n \in Nat /\ DOMAIN s = 1..n /\ s = [k \in 1..n |-> s[k]]
      /\ \A i \in 1..n : s[i].base \in Nat
  <2>1. n \in Nat /\ DOMAIN s = 1..n /\ s \in [1..n -> SegmentContainer]
    BY LenProperties
  <2>2. \A i \in 1..n : s[i] \in SegmentContainer
    BY <2>1
  <2> QED BY <2>1, <2>2 DEF SegmentContainer
<1>2. PICK q \in [1..n -> 1..n] : /\ \A k, l \in 1..n : k < l => before(q[k], q[l])
                                  /\ t = [k \in 1..n |-> s[q[k]]]
  BY <1>1 DEF SortedByBase
<1>3. ASSUME NEW k \in 1..n, NEW l \in 1..n, k < l PROVE q[k] < q[l]
  <2>1. q[k] \in 1..n /\ q[l] \in 1..n /\ before(q[k], q[l])
    BY <1>2, <1>3
  <2>2. ASSUME NEW i \in 1..n, NEW j \in 1..n, before(i, j) PROVE i < j
    <3>1. s[i].base \in Nat /\ s[j].base \in Nat
      BY <1>1
    <3>2. CASE j < i
      <4>1. s[j].base <= s[i].base
        BY <1>1, <3>2
      <4> QED BY <1>1, <2>2, <3>1, <3>2, <4>1
    <3>3. CASE i = j
      BY <1>1, <2>2, <3>1, <3>3
    <3> QED BY <1>1, <3>2, <3>3
  <2> HIDE DEF before
  <2> QED BY <2>1, <2>2
<1>4. \A k \in 1..n : q[k] = k
  <2> HIDE DEF n
  <2> QED BY <1>1, <1>3, IncreasingSelf
<1> QED BY <1>1, <1>2, <1>4

\* Where a file begins: with its first record or, if it has none, after those
\* of the files before it.
StartsAt(fs, i, b) ==
  IF fs[i].recs # <<>> THEN b = fs[i].recs[1].lsn
  ELSE b \in NextLsn(UNION {Own(fs[j]) : j \in 1..i})

InFileOrder(fs) ==
  \A i, j \in DOMAIN fs : i < j =>
    \A a \in 1..Len(fs[i].recs), b \in 1..Len(fs[j].recs) : fs[i].recs[a].lsn < fs[j].recs[b].lsn

\* Then the bases are in the order of the files and separate their records.
LEMMA StartsSeparate ==
  ASSUME NEW fs \in Seq(File), \A i \in DOMAIN fs : FileSound(fs[i]), InFileOrder(fs),
         NEW b, \A i \in DOMAIN fs : b[i] \in Nat /\ StartsAt(fs, i, b[i])
  PROVE  \A i, k \in DOMAIN fs :
           /\ i < k => b[i] <= b[k]
           /\ \A j \in 1..Len(fs[i].recs) :
                b[i] <= fs[i].recs[j].lsn /\ (i < k => fs[i].recs[j].lsn < b[k])
<1>1. DOMAIN fs = 1..Len(fs) /\ Len(fs) \in Nat
  BY LenProperties
<1>2. \A i \in DOMAIN fs : /\ Len(fs[i].recs) \in Nat /\ (fs[i].recs = <<>> <=> Len(fs[i].recs) = 0)
                           /\ \A j \in 1..Len(fs[i].recs) : fs[i].recs[j].lsn \in Nat
  <2> SUFFICES ASSUME NEW i \in DOMAIN fs
               PROVE  /\ Len(fs[i].recs) \in Nat /\ (fs[i].recs = <<>> <=> Len(fs[i].recs) = 0)
                      /\ \A j \in 1..Len(fs[i].recs) : fs[i].recs[j].lsn \in Nat
    OBVIOUS
  <2>1. fs[i].recs \in Seq(Record) /\ \A j \in 1..Len(fs[i].recs) : fs[i].recs[j] \in Record
    BY <1>1, ElementOfSeq, FileRecs
  <2>2. \A j \in 1..Len(fs[i].recs) : fs[i].recs[j].lsn \in Nat
    BY <2>1 DEF Record
  <2>3. fs[i].recs = <<>> <=> Len(fs[i].recs) = 0
    BY <2>1, EmptySeq
  <2> QED BY <2>1, <2>2, <2>3, LenProperties
<1>3. \A i \in DOMAIN fs : \A r : r \in Own(fs[i]) <=> \E j \in 1..Len(fs[i].recs) : r = fs[i].recs[j]
  BY OwnIs
<1>4. ASSUME NEW i \in DOMAIN fs, NEW j \in 1..Len(fs[i].recs)
      PROVE  b[i] <= fs[i].recs[j].lsn
  <2>1. fs[i].recs # <<>> /\ 1 \in 1..Len(fs[i].recs)
    BY <1>2
  <2>2. b[i] = fs[i].recs[1].lsn
    BY <2>1 DEF StartsAt
  <2>3. 1 = j \/ fs[i].recs[1].lsn < fs[i].recs[j].lsn
    BY <1>2, <2>1 DEF FileSound
  <2> QED BY <1>2, <2>1, <2>2, <2>3
<1>5. ASSUME NEW i \in DOMAIN fs, NEW k \in DOMAIN fs, i < k, NEW j \in 1..Len(fs[i].recs)
      PROVE  fs[i].recs[j].lsn < b[k]
  <2>1. CASE fs[k].recs # <<>>
    <3>1. 1 \in 1..Len(fs[k].recs) /\ b[k] = fs[k].recs[1].lsn
      <4>1. b[k] = fs[k].recs[1].lsn
        BY <2>1 DEF StartsAt
      <4> QED BY <1>2, <2>1, <4>1
    <3> QED BY <1>5, <3>1 DEF InFileOrder
  <2>2. CASE fs[k].recs = <<>>
    <3>1. b[k] \in NextLsn(UNION {Own(fs[h]) : h \in 1..k})
      BY <2>2 DEF StartsAt
    <3>2. fs[i].recs[j] \in Own(fs[i]) /\ i \in 1..k
      BY <1>1, <1>3, <1>5
    <3>3. fs[i].recs[j] \in UNION {Own(fs[h]) : h \in 1..k}
      BY <3>2
    <3> QED BY <3>1, <3>3 DEF NextLsn
  <2> QED BY <2>1, <2>2
<1>6. ASSUME NEW i \in DOMAIN fs, NEW k \in DOMAIN fs, i < k
      PROVE  b[i] <= b[k]
  <2>1. CASE fs[i].recs # <<>>
    <3>1. 1 \in 1..Len(fs[i].recs) /\ b[i] = fs[i].recs[1].lsn
      <4>1. b[i] = fs[i].recs[1].lsn
        BY <2>1 DEF StartsAt
      <4> QED BY <1>2, <2>1, <4>1
    <3>2. b[i] < b[k]
      BY <1>5, <1>6, <3>1
    <3> QED BY <3>2
  <2>2. CASE fs[i].recs = <<>>
    <3> DEFINE recs == UNION {Own(fs[h]) : h \in 1..i}
    <3>1. b[i] \in NextLsn(recs)
      BY <2>2 DEF StartsAt
    <3>2. b[i] = 0 \/ \E r \in recs : b[i] = r.lsn + 1
      <4> HIDE DEF recs
      <4> QED BY <3>1 DEF NextLsn
    <3>3. CASE b[i] = 0
      BY <3>3
    <3>4. ASSUME NEW r \in recs, b[i] = r.lsn + 1 PROVE b[i] <= b[k]
      <4>1. PICK h \in 1..i : r \in Own(fs[h])
        OBVIOUS
      <4>2. h \in DOMAIN fs /\ h < k
        BY <1>1, <1>6
      <4>3. PICK j \in 1..Len(fs[h].recs) : r = fs[h].recs[j]
        BY <1>3, <4>1, <4>2
      <4>4. r.lsn < b[k] /\ r.lsn \in Nat
        BY <1>2, <1>5, <4>2, <4>3
      <4> QED BY <3>4, <4>4, SMTT(30)
    <3> QED BY <3>2, <3>3, <3>4
  <2> QED BY <2>1, <2>2
<1> QED BY <1>4, <1>5, <1>6

\* The container open makes of a sealed file.
LEMMA SealedIs ==
  ASSUME TypeInv, FilesSound, NEW i \in DOMAIN files
  PROVE  LET c == SealedContainer(Scans, i)
         IN  /\ c \in SegmentContainer /\ c.seg = i - 1 /\ c.entries = IndexOf(files[i].recs)
             /\ StartsAt(files, i, c.base)
<1> DEFINE n == Len(files)
           c == SealedContainer(Scans, i)
           recs == UNION {Own(files[j]) : j \in 1..i}
<1>1. /\ n \in Nat /\ DOMAIN files = 1..n /\ DOMAIN Scans = 1..n /\ i \in Nat
      /\ \A j \in 1..n : files[j] \in File /\ FileSound(files[j])
  BY FilesAre DEF Scans, FilesSound
<1>2. \A j \in 1..n : Scans[j].recs = files[j].recs /\ Scans[j] \in Scan
  BY <1>1, ScanSound, ScanType DEF Scans
<1>3. c \in SegmentContainer
  BY <1>1, <1>2, SealedContainerType
<1>4. UNION {{Scans[j].recs[k] : k \in DOMAIN Scans[j].recs} : j \in 1..i} = recs
  <2>1. \A j \in 1..i : {Scans[j].recs[k] : k \in DOMAIN Scans[j].recs} = Own(files[j])
    <3>1. \A j \in 1..i : Scans[j].recs = files[j].recs
      BY <1>1, <1>2
    <3> QED BY <3>1 DEF Own
  <2> QED BY <2>1, SMTT(30)
<1>5. NextLsn(recs) # {}
  <2> DEFINE f == [j \in 1..i |-> files[j].recs]
  <2>1. f \in [1..i -> Seq(Record)]
    <3>1. \A j \in 1..i : files[j] \in File
      BY <1>1
    <3> QED BY <3>1, FileRecs
  <2>2. UNION {{f[j][k] : k \in DOMAIN f[j]} : j \in 1..i} = recs
    BY DEF Own
  <2> HIDE DEF f, recs
  <2>3. IsFiniteSet(recs) /\ recs \subseteq Record
    BY <1>1, <2>1, <2>2, UnionOfRecs
  <2> QED BY <2>3, NextLsnType
<1>6. BaseOf(Scans, i) = IF files[i].recs # <<>> THEN {files[i].recs[1].lsn} ELSE NextLsn(recs)
  BY <1>1, <1>2, <1>4 DEF BaseOf
<1> DEFINE base == CHOOSE x \in BaseOf(Scans, i) : TRUE
<1>7. base \in BaseOf(Scans, i)
  <2>1. BaseOf(Scans, i) # {}
    <3> HIDE DEF recs
    <3> QED BY <1>5, <1>6
  <2> QED BY <2>1
<1>8. /\ c = Container(i - 1, base, IF Scans[i].recs = <<>> THEN base ELSE LastOf(Scans[i].recs).lsn,
                       IndexOf(Scans[i].recs))
  BY DEF SealedContainer
<1> HIDE DEF base
<1>9. c.seg = i - 1 /\ c.base = base /\ c.entries = IndexOf(files[i].recs)
  BY <1>1, <1>2, <1>8 DEF Container
<1>10. StartsAt(files, i, base)
  <2> HIDE DEF recs
  <2> QED BY <1>6, <1>7 DEF StartsAt, recs
<1> QED BY <1>3, <1>9, <1>10

\* The index of the records of a file is complete.
LEMMA IndexedFile ==
  ASSUME NEW recs \in Seq(Record), NEW c, c.entries = IndexOf(recs)
  PROVE  Indexes(c, recs)
<1>1. DOMAIN c.entries = 1..Len(recs) /\ Len(recs) \in Nat /\ c.entries \in Seq(Entry)
  <2>1. \A r \in Record : r.lsn \in Nat /\ r.off \in Nat
    BY DEF Record
  <2>2. c.entries \in Seq(Entry)
    BY <2>1, IndexType
  <2>3. DOMAIN recs = 1..Len(recs) /\ Len(recs) \in Nat
    BY LenProperties
  <2> QED BY <2>2, <2>3 DEF IndexOf
<1>2. Len(c.entries) = Len(recs)
  BY <1>1, LenProperties
<1>3. DOMAIN recs = 1..Len(recs)
  BY LenProperties
<1>4. \A j \in 1..Len(recs) : /\ IndexOf(recs)[j].lsn = recs[j].lsn
                             /\ IndexOf(recs)[j].off = recs[j].off
  BY <1>3 DEF IndexOf
<1>5. Pointed(c, recs, Len(recs))
  BY <1>4 DEF Pointed, PointsAt
<1> QED BY <1>2, <1>5 DEF Indexes

LEMMA OpenCatalog ==
  ASSUME TypeInv, FilesSound, open, ~open_refuses(Scans)
  PROVE  LET n == Len(files)
             m == IF KeepsTail THEN n - 1 ELSE n
         IN  /\ catalog'.sealed \in SortedByBase([i \in 1..m |-> SealedContainer(Scans, i)])
             /\ KeepsTail =>
                  catalog'.active =
                    Container(n - 1,
                              IF LastFile.recs = <<>> THEN current_lsn' ELSE LastFile.recs[1].lsn,
                              U64Max, IndexOf(LastFile.recs))
             /\ ~KeepsTail => catalog'.active = Container(n, current_lsn', U64Max, <<>>)
<1> DEFINE n == Len(files)
           scans == Scans
           recs == UNION {{scans[i].recs[k] : k \in DOMAIN scans[i].recs} : i \in DOMAIN scans}
           tail == n > 0 /\ ~scans[n].sealed /\ scans[n].ver = "cur"
           containers == [i \in 1..(IF tail THEN n - 1 ELSE n) |-> SealedContainer(scans, i)]
           last == scans[n].recs
           kept(lsn0) == Container(n - 1, IF last = <<>> THEN lsn0 ELSE last[1].lsn, U64Max,
                                   IndexOf(last))
           started(lsn0) == Container(n, lsn0, U64Max, <<>>)
<1>1. /\ n \in Nat /\ DOMAIN files = 1..n
      /\ \A i \in DOMAIN files : files[i] \in File /\ FileSound(files[i])
  BY FilesAre DEF FilesSound
<1>2. \E lsn0 \in NextLsn(recs), sealed \in SortedByBase(containers) :
        /\ current_lsn' = lsn0
        /\ \/ tail /\ catalog' = [sealed |-> sealed, active |-> kept(lsn0)]
           \/ ~tail /\ catalog' = [sealed |-> sealed, active |-> started(lsn0)]
  BY Zenon DEF open, Scans
<1>3. \A i \in DOMAIN files : scans[i] = scan_segment_file(files[i])
                              /\ scans[i].recs = files[i].recs
  BY <1>1, ScanSound DEF Scans
<1>4. (tail <=> KeepsTail) /\ (tail => last = LastFile.recs)
  <2>1. n > 0 => n \in DOMAIN files
    BY <1>1
  <2> HIDE DEF scans
  <2> QED BY <1>3, <2>1 DEF KeepsTail, LastFile
<1>5. containers = [i \in 1..(IF KeepsTail THEN n - 1 ELSE n) |-> SealedContainer(Scans, i)]
  <2>1. CASE tail
    BY <1>4, <2>1
  <2>2. CASE ~tail
    BY <1>4, <2>2
  <2> QED BY <2>1, <2>2
<1> HIDE DEF containers, recs, scans, tail, last, kept, started
<1>6. /\ catalog'.sealed \in SortedByBase(containers)
      /\ tail => catalog'.active = kept(current_lsn')
      /\ ~tail => catalog'.active = started(current_lsn')
  BY <1>2
<1>7. tail => kept(current_lsn') =
                Container(n - 1, IF LastFile.recs = <<>> THEN current_lsn' ELSE LastFile.recs[1].lsn,
                          U64Max, IndexOf(LastFile.recs))
  BY <1>4 DEF kept
<1>8. started(current_lsn') = Container(n, current_lsn', U64Max, <<>>)
  BY DEF started
<1> QED BY <1>4, <1>5, <1>6, <1>7, <1>8

\* A file that open seals, and the one it goes on with, are as they begin.
LEMMA SameStart ==
  ASSUME NEW fs, NEW gs, NEW i \in Nat, \A j \in 1..i : gs[j].recs = fs[j].recs, i >= 1,
         NEW b, StartsAt(fs, i, b)
  PROVE  StartsAt(gs, i, b)
<1>1. \A j \in 1..i : Own(gs[j]) = Own(fs[j])
  BY DEF Own
<1>2. UNION {Own(gs[j]) : j \in 1..i} = UNION {Own(fs[j]) : j \in 1..i}
  BY <1>1
<1>3. gs[i].recs = fs[i].recs
  OBVIOUS
<1> QED BY <1>2, <1>3 DEF StartsAt

\* What open makes of the catalogue agrees with what it makes of the files.
LEMMA OpenShown ==
  ASSUME HeadInv, TypeInv', DirInv, DirInv', FileOrder', open, NEW lsn0, Reopens(lsn0),
         ~open_refuses(Scans)
  PROVE  SealedShown' /\ Indexes(catalog'.active, ActiveFile'.recs) /\ catalog'.active.base <= lsn0
<1> DEFINE n == Len(files)
           m == IF KeepsTail THEN n - 1 ELSE n
           con(i) == SealedContainer(Scans, i)
           cons == [i \in 1..m |-> con(i)]
           base == catalog'.active.base
           b == [i \in 1..(m + 1) |-> IF i <= m THEN con(i).base ELSE base]
<1>1. /\ TypeInv /\ FilesSound /\ n \in Nat /\ DOMAIN files = 1..n
      /\ \A i \in DOMAIN files : files[i] \in File /\ FileSound(files[i])
      /\ files' \in Seq(File) /\ DOMAIN files' = 1..Len(files')
      /\ \A i \in DOMAIN files' : files'[i] \in File /\ FileSound(files'[i])
      /\ AllRecs(files') = AllRecs(files)
  <2>1. AllRecs(files') = AllRecs(files)
    BY OpenDir
  <2>2. /\ TypeInv /\ FilesSound /\ FilesSound' /\ files' \in Seq(File)
    BY DEF HeadInv, DirInv, TypeInv, TypeOK, DirectoryType
  <2>3. \A i \in DOMAIN files' : files'[i] \in File
    BY <2>2, ElementOfSeq, LenProperties
  <2> QED BY <2>1, <2>2, <2>3, FilesAre, LenProperties DEF FilesSound
<1>0. n \in Nat /\ DOMAIN files = 1..n /\ DOMAIN files' = 1..Len(files')
  BY <1>1
<1>2. ASSUME NEW i \in DOMAIN files PROVE files'[i].recs = files[i].recs
  <2> DEFINE keep == i = Len(files) /\ KeepsTail
  <2>1. keep \in BOOLEAN /\ files'[i] = Recovered(files[i], keep)
    BY DEF Reopens, KeepsTail
  <2> HIDE DEF keep
  <2> QED BY <1>1, <2>1, RecoverSound
<1>3. /\ m \in Nat /\ Len(files') = m + 1 /\ (KeepsTail => n \in DOMAIN files /\ n = m + 1)
      /\ (~KeepsTail => m = n) /\ m <= n
  <2>1. CASE KeepsTail
    <3>1. n > 0 /\ Len(files') = n
      BY <2>1 DEF Reopens, TailKept, TailStarted, KeepsTail
    <3>2. n - 1 \in Nat /\ n = n - 1 + 1 /\ n - 1 <= n /\ n \in DOMAIN files
      BY <1>0, <3>1
    <3>3. m = n - 1
      BY <2>1
    <3> HIDE DEF m, n
    <3> QED BY <2>1, <3>1, <3>2, <3>3
  <2>2. CASE ~KeepsTail
    <3>1. Len(files') = n + 1
      BY <2>2 DEF Reopens, TailKept, TailStarted
    <3>2. m = n /\ n <= n
      BY <1>0, <2>2
    <3> HIDE DEF m, n
    <3> QED BY <1>0, <2>2, <3>1, <3>2
  <2> QED BY <2>1, <2>2
<1> HIDE DEF m, n
<1>4. \A i \in 1..m : i \in DOMAIN files /\ i \in DOMAIN files'
  BY <1>0, <1>3
<1>5. /\ catalog'.sealed \in SortedByBase(cons)
      /\ KeepsTail =>
           catalog'.active = Container(m, IF LastFile.recs = <<>> THEN lsn0 ELSE LastFile.recs[1].lsn,
                                       U64Max, IndexOf(LastFile.recs))
      /\ ~KeepsTail => catalog'.active = Container(m, lsn0, U64Max, <<>>)
  <2>1. current_lsn' = lsn0
    BY DEF Reopens
  <2>2. /\ catalog'.sealed \in SortedByBase([i \in 1..m |-> SealedContainer(Scans, i)])
        /\ KeepsTail =>
             catalog'.active =
               Container(n - 1,
                         IF LastFile.recs = <<>> THEN current_lsn' ELSE LastFile.recs[1].lsn,
                         U64Max, IndexOf(LastFile.recs))
        /\ ~KeepsTail => catalog'.active = Container(n, current_lsn', U64Max, <<>>)
    BY <1>1, OpenCatalog DEF m, n
  <2>3. KeepsTail => n - 1 = m
    BY <1>0, <1>3
  <2> QED BY <1>3, <2>1, <2>2, <2>3
<1>6. lsn0 \in NextLsn(AllRecs(files)) /\ lsn0 \in Nat /\ current_lsn' = lsn0
      /\ \A r \in AllRecs(files) : r.lsn < lsn0
  <2>1. lsn0 \in NextLsn(AllRecs(files)) /\ current_lsn' = lsn0
    BY DEF Reopens
  <2>2. current_lsn' \in Nat
    BY DEF TypeInv, TypeOK, CountersType
  <2> QED BY <2>1, <2>2 DEF NextLsn
<1>7. /\ active'.seg = m /\ active'.base = base /\ catalog'.active.seg = m /\ base \in Nat
      /\ catalog'.active \in SegmentContainer
  <2>1. catalog'.active \in SegmentContainer
    BY DEF TypeInv, TypeOK, DirectoryType, Catalog
  <2>2. CASE KeepsTail
    <3>1. /\ active'.seg = n - 1
          /\ active'.base = IF LastFile.recs = <<>> THEN lsn0 ELSE LastFile.recs[1].lsn
      BY <2>2 DEF Reopens, TailKept, TailStarted, n
    <3>2. catalog'.active.seg = m /\ base = IF LastFile.recs = <<>> THEN lsn0 ELSE LastFile.recs[1].lsn
      BY <1>5, <2>2 DEF Container
    <3>3. m = n - 1
      BY <1>0, <1>3, <2>2
    <3> HIDE DEF base
    <3> QED BY <2>1, <3>1, <3>2, <3>3 DEF SegmentContainer, base
  <2>3. CASE ~KeepsTail
    <3>1. active'.seg = n /\ active'.base = lsn0
      BY <2>3 DEF Reopens, TailKept, TailStarted, new_active, n
    <3>2. catalog'.active.seg = m /\ base = lsn0
      BY <1>5, <2>3 DEF Container
    <3>3. m = n
      BY <1>3, <2>3
    <3> HIDE DEF base
    <3> QED BY <1>6, <2>1, <3>1, <3>2, <3>3 DEF SegmentContainer, base
  <2> QED BY <2>2, <2>3
<1>8. /\ m + 1 \in DOMAIN files' /\ ActiveFile' = files'[m + 1]
      /\ KeepsTail => files'[m + 1].recs = LastFile.recs
      /\ ~KeepsTail => files'[m + 1].recs = <<>>
  <2>1. m + 1 \in DOMAIN files'
    BY <1>0, <1>3
  <2>4. ActiveFile' = files'[m + 1]
    BY <1>7 DEF ActiveFile
  <2>2. ASSUME KeepsTail PROVE files'[m + 1].recs = LastFile.recs
    BY <1>2, <1>3, <2>2 DEF LastFile, n
  <2>3. ASSUME ~KeepsTail PROVE files'[m + 1].recs = <<>>
    <3>1. files'[n + 1] = EmptyFile
      BY <2>3 DEF Reopens, TailKept, TailStarted, n
    <3> QED BY <1>3, <2>3, <3>1 DEF EmptyFile
  <2> QED BY <2>1, <2>2, <2>3, <2>4
<1>9. Indexes(catalog'.active, ActiveFile'.recs)
  <2>1. CASE KeepsTail
    <3>1. catalog'.active.entries = IndexOf(LastFile.recs)
      BY <1>5, <2>1 DEF Container
    <3>2. LastFile.recs \in Seq(Record)
      BY <1>1, <1>3, <2>1, FileRecs DEF LastFile, n
    <3> QED BY <1>8, <2>1, <3>1, <3>2, IndexedFile
  <2>2. CASE ~KeepsTail
    <3>1. catalog'.active.entries = <<>> /\ Len(<<>>) = 0
      BY <1>5, <2>2 DEF Container
    <3> QED BY <1>8, <2>2, <3>1 DEF Indexes, Pointed
  <2> QED BY <2>1, <2>2
<1>10. \A i \in 1..m : /\ con(i) \in SegmentContainer /\ con(i).seg = i - 1
                       /\ con(i).entries = IndexOf(files'[i].recs)
                       /\ StartsAt(files', i, con(i).base)
  <2> SUFFICES ASSUME NEW i \in 1..m
               PROVE  /\ con(i) \in SegmentContainer /\ con(i).seg = i - 1
                      /\ con(i).entries = IndexOf(files'[i].recs)
                      /\ StartsAt(files', i, con(i).base)
    OBVIOUS
  <2>1. /\ con(i) \in SegmentContainer /\ con(i).seg = i - 1
        /\ con(i).entries = IndexOf(files[i].recs) /\ StartsAt(files, i, con(i).base)
    BY <1>1, <1>4, SealedIs
  <2>2. \A j \in 1..i : files'[j].recs = files[j].recs
    <3>1. \A j \in 1..i : j \in 1..m
      BY <1>3
    <3> QED BY <1>2, <1>4, <3>1
  <2>3. i \in Nat /\ i >= 1 /\ files'[i].recs = files[i].recs
    BY <1>2, <1>3, <1>4
  <2> HIDE DEF con
  <2>4. StartsAt(files', i, con(i).base)
    BY <2>1, <2>2, <2>3, SameStart
  <2> QED BY <2>1, <2>3, <2>4
<1> HIDE DEF con
<1>11. StartsAt(files', m + 1, base)
  <2>1. CASE files'[m + 1].recs # <<>>
    <3>1. KeepsTail /\ files'[m + 1].recs = LastFile.recs
      BY <1>8, <2>1
    <3>2. base = LastFile.recs[1].lsn
      BY <1>5, <2>1, <3>1 DEF Container
    <3> QED BY <2>1, <3>1, <3>2 DEF StartsAt
  <2>2. CASE files'[m + 1].recs = <<>>
    <3>1. base = lsn0
      <4>1. KeepsTail => LastFile.recs = <<>>
        BY <1>8, <2>2
      <4> QED BY <1>5, <4>1 DEF Container
    <3>2. AllRecs(files') = UNION {Own(files'[j]) : j \in 1..(m + 1)}
      BY <1>1, <1>3, OwnIs
    <3> QED BY <1>1, <1>6, <2>2, <3>1, <3>2 DEF StartsAt
  <2> QED BY <2>1, <2>2
<1>12. DOMAIN files' = 1..(m + 1) /\ \A i \in DOMAIN files' : b[i] \in Nat /\ StartsAt(files', i, b[i])
  <2>1. \A i \in 1..m : b[i] = con(i).base /\ con(i).base \in Nat
    <3>1. \A i \in 1..m : b[i] = con(i).base
      BY <1>3
    <3>2. \A i \in 1..m : con(i).base \in Nat
      BY <1>10 DEF SegmentContainer
    <3> QED BY <3>1, <3>2
  <2>2. b[m + 1] = base
    BY <1>3
  <2>3. DOMAIN files' = 1..(m + 1) /\ \A i \in 1..(m + 1) : i \in 1..m \/ i = m + 1
    BY <1>1, <1>3
  <2> HIDE DEF b, base
  <2> QED BY <1>7, <1>10, <1>11, <2>1, <2>2, <2>3
<1>13. InFileOrder(files')
  BY DEF FileOrder, InFileOrder
<1> HIDE DEF b
<1>14. \A i, k \in 1..(m + 1) :
         /\ i < k => b[i] <= b[k]
         /\ \A j \in 1..Len(files'[i].recs) :
              b[i] <= files'[i].recs[j].lsn /\ (i < k => files'[i].recs[j].lsn < b[k])
  BY <1>1, <1>12, <1>13, StartsSeparate
<1>15. \A i \in 1..m : i \in 1..(m + 1) /\ b[i] = con(i).base
  BY <1>3 DEF b
<1>16. catalog'.sealed = cons
  <2>1. DOMAIN cons = 1..m /\ \A i \in 1..m : cons[i] = con(i)
    OBVIOUS
  <2>2. cons \in Seq(SegmentContainer)
    <3>1. cons \in [1..m -> SegmentContainer]
      BY <1>10
    <3> QED BY <1>3, <3>1 DEF Seq
  <2>3. \A i, j \in DOMAIN cons : i < j => cons[i].base <= cons[j].base
    BY <1>14, <1>15, <2>1
  <2> HIDE DEF cons
  <2> QED BY <1>5, <2>2, <2>3, SortedSame
<1>17. /\ Len(catalog'.sealed) = m /\ \A i \in 1..m : catalog'.sealed[i] = con(i)
  <2>1. DOMAIN catalog'.sealed = 1..m /\ catalog'.sealed \in Seq(SegmentContainer)
    BY <1>16 DEF TypeInv, TypeOK, DirectoryType, Catalog
  <2>2. Len(catalog'.sealed) = m
    BY <1>3, <2>1, LenProperties
  <2> QED BY <1>16, <2>2
<1> HIDE DEF cons
<1>18. \A i \in 1..(m + 1) : Base(catalog', i) = b[i]
  <2>1. \A i \in 1..m : Base(catalog', i) = b[i]
    BY <1>3, <1>15, <1>17 DEF Base
  <2>2. Base(catalog', m + 1) = base /\ b[m + 1] = base
    BY <1>3, <1>17 DEF Base, b
  <2>3. \A i \in 1..(m + 1) : i \in 1..m \/ i = m + 1
    BY <1>3
  <2> QED BY <2>1, <2>2, <2>3
<1>19. BaseOrder(catalog', files')
  BY <1>14, <1>17, <1>18 DEF BaseOrder
<1>20. \A i \in 1..m : Indexes(catalog'.sealed[i], files'[i].recs)
  <2>1. \A i \in 1..m : files'[i].recs \in Seq(Record)
    BY <1>1, <1>4, FileRecs
  <2> QED BY <1>10, <1>17, <2>1, IndexedFile
<1>21. SealedShown'
  BY <1>7, <1>10, <1>17, <1>19, <1>20 DEF SealedShown
<1>22. base <= lsn0
  <2>1. CASE files'[m + 1].recs = <<>>
    <3>1. base = lsn0
      <4>1. KeepsTail => LastFile.recs = <<>>
        BY <1>8, <2>1
      <4> QED BY <1>5, <4>1 DEF Container
    <3> QED BY <1>6, <3>1
  <2>2. CASE files'[m + 1].recs # <<>>
    <3>1. base = files'[m + 1].recs[1].lsn
      BY <1>11, <2>2 DEF StartsAt
    <3>2. 1 \in 1..Len(files'[m + 1].recs)
      BY <1>1, <1>8, <2>2, FileRecs, EmptySeq
    <3>3. files'[m + 1].recs[1] \in AllRecs(files')
      BY <1>1, <1>8, <3>2, RecordPlaces
    <3>4. base < lsn0
      BY <1>1, <1>6, <3>1, <3>3
    <3> HIDE DEF base
    <3> QED BY <1>6, <1>7, <3>4
  <2> QED BY <2>1, <2>2
<1> QED BY <1>9, <1>21, <1>22
-----------------------------------------------------------------------------
(* The catalogue and the directory in every step.                           *)

LEMMA StillSealed ==
  ASSUME TypeInv, TypeInv', SealedShown, pc \notin {"closed", "refused"},
         catalog'.sealed = catalog.sealed, catalog'.active.seg = catalog.active.seg,
         catalog'.active.base = catalog.active.base,
         active'.seg = active.seg, active'.base = active.base,
         \A i \in DOMAIN files : files'[i].recs = files[i].recs
  PROVE  SealedShown'
<1>1. /\ active.seg \in Nat /\ active.seg + 1 \in DOMAIN files
      /\ \A i \in 1..(active.seg + 1) : i \in DOMAIN files
      /\ \A j \in 1..Len(ActiveFile.recs) : active.base <= ActiveFile.recs[j].lsn
  BY SealedSays
<1>2. \A i \in 1..active.seg : files'[i].recs = files[i].recs
  BY <1>1
<1>3. ActiveFile'.recs = ActiveFile.recs
  BY <1>1 DEF ActiveFile
<1> QED BY <1>1, <1>2, <1>3, SealedKept

\* Before the answers the catalogue is told of all records, after a roll too.
LEMMA WillNone ==
  ASSUME NEW c \in SegmentContainer, NEW recs, NEW u, Len(u) \in Nat, WillIndex(c, recs, u, Len(u))
  PROVE  Indexes(c, recs)
<1>1. Len(c.entries) \in Nat /\ Len(u) - Len(u) = 0
  BY LenProperties DEF SegmentContainer
<1>2. Len(c.entries) = Len(recs)
  BY <1>1 DEF WillIndex
<1> QED BY <1>2 DEF WillIndex, Indexes

\* An I/O error leaves of the active file what the head covers.
LEMMA ActiveKeeps ==
  ASSUME TypeInv, TypeInv', DirInv, InBatch, Running,
         NEW hs \in Seq(File), NEW new \in NewFileImages, LostTo("io", hs, new)
  PROVE  /\ active.seg + 1 \in DOMAIN files' /\ active.seg + 1 \in DOMAIN files
         /\ LET f == files[active.seg + 1]
                g == files'[active.seg + 1]
            IN  \A j \in 1..Len(f.recs) :
                  f.recs[j].lsn < current_lsn => j \in 1..Len(g.recs) /\ g.recs[j] = f.recs[j]
<1> DEFINE k == active.seg + 1
<1>1. /\ files \in Seq(File) /\ DOMAIN files = 1..Len(files) /\ Len(files) \in Nat
      /\ files' \in Seq(File) /\ \A i \in DOMAIN files : files[i] \in File
      /\ k \in DOMAIN files /\ pc \notin {"closed", "refused"}
  BY FilesAre DEF TypeInv, TypeOK, DirectoryType, Running
<1>3. k \in 1..Len(hs) /\ Len(hs) \in Nat
  <2>1. Len(hs) \in Nat /\ (Creating => k + 1 = Len(files)) /\ k \in Nat
    <3>1. active.seg \in Nat
      BY FilesAre
    <3>2. Creating => active.seg + 2 = Len(files)
      BY DEF Creating, InBatch, TypeInv, TypeOK, WorkerShape
    <3>3. Len(hs) \in Nat
      BY LenProperties
    <3> QED BY <3>1, <3>2, <3>3
  <2>2. IF Creating THEN Len(hs) + 1 = Len(files) ELSE Len(hs) = Len(files)
    BY DEF LostTo
  <2>3. k \in 1..Len(files) /\ Len(files) \in Nat
    BY <1>1
  <2> HIDE DEF k
  <2>4. CASE Creating
    BY <2>1, <2>2, <2>3, <2>4
  <2>5. CASE ~Creating
    BY <2>1, <2>2, <2>3, <2>5
  <2> QED BY <2>4, <2>5
<1>4. k \in DOMAIN files' /\ files'[k] = hs[k] /\ Loss("io", hs[k], k)
  <2>1. WithCreated(files', hs) /\ DOMAIN files' = 1..Len(files') /\ Len(files') \in Nat
    BY <1>1, NewImage, LenProperties, ZenonT(40) DEF LostTo
  <2>2. Loss("io", hs[k], k)
    BY <1>3 DEF LostTo
  <2> HIDE DEF k
  <2> QED BY <1>3, <2>1, <2>2 DEF WithCreated
<1>5. \A j \in 1..Len(files[k].recs) : files[k].recs[j].lsn < current_lsn =>
        j \in 1..Len(files'[k].recs) /\ files'[k].recs[j] = files[k].recs[j]
  BY <1>4, RollbackKeeps DEF ActiveFile
<1> QED BY <1>1, <1>4, <1>5

LEMMA ErrorShown ==
  ASSUME HeadInv, TypeInv', DirInv, OrderInv, CatalogInv, io_error
  PROVE  SealedShown' /\ Locates(catalog'.active, ActiveFile'.recs, committed_lsn')
<1> DEFINE m == active.seg
<1>1. TypeInv /\ SealedShown /\ DeadTail /\ InBatch /\ Running /\ pc \notin {"closed", "refused"}
      /\ Opened
  BY DEF HeadInv, CatalogInv, OrderInv, io_error, Writing, InBatch, Running, Opened
<1>2. PICK hs \in Seq(File), new \in NewFileImages : LostTo("io", hs, new)
  BY <1>1, IoErrorLoss
<1>3. /\ Within(files', files)
      /\ \A i \in DOMAIN files : \/ files[i].recs = <<>> \/ i = m + 1
                                 \/ i \in DOMAIN files' /\ files'[i].recs = files[i].recs
  BY <1>1, <1>2, LostRecs
<1>4. /\ UNCHANGED <<catalog, committed_lsn>> /\ active'.seg = m /\ active'.base = active.base
      /\ pc' = "dead"
  <2>1. active \in ActiveSegment
    BY <1>1 DEF TypeInv, TypeOK, WorkerType
  <2>2. \E x, y, z : active' = [active EXCEPT !.bytes = x, !.hashes = y, !.max = z]
    BY Zenon DEF io_error
  <2>3. active'.seg = m /\ active'.base = active.base
    BY <2>1, <2>2 DEF ActiveSegment
  <2> QED BY <2>3 DEF io_error
<1>5. /\ m \in Nat /\ \A i \in 1..(m + 1) : i \in DOMAIN files /\ files[i] \in File
      /\ \A j \in 1..Len(ActiveFile.recs) : active.base <= ActiveFile.recs[j].lsn
  BY <1>1, SealedSays
<1>6. /\ \A i \in 1..(m + 1) : i \in DOMAIN files' /\ files'[i] \in File
  <2>1. m + 1 \in DOMAIN files' /\ DOMAIN files' = 1..Len(files') /\ Len(files') \in Nat
        /\ \A i \in DOMAIN files' : files'[i] \in File
    BY <1>4, ElementOfSeq, LenProperties DEF TypeInv, TypeOK, DirectoryType, WorkerShape
  <2> HIDE DEF m
  <2> QED BY <1>5, <2>1
<1> HIDE DEF m
<1>7. \A i \in 1..(m + 1) : Shorter(files'[i], files[i])
  <2> SUFFICES ASSUME NEW i \in 1..(m + 1) PROVE Shorter(files'[i], files[i])
    OBVIOUS
  <2>1. CASE files'[i].recs # <<>>
    BY <1>3, <1>6, <2>1 DEF Within
  <2>2. CASE files'[i].recs = <<>>
    <3>1. Len(files'[i].recs) = 0 /\ Len(files[i].recs) \in Nat
      BY <1>5, <2>2, FileRecs
    <3> QED BY <3>1 DEF Shorter
  <2> QED BY <2>1, <2>2
<1>8. \A i \in 1..m : files'[i].recs = files[i].recs
  <2> SUFFICES ASSUME NEW i \in 1..m PROVE files'[i].recs = files[i].recs
    OBVIOUS
  <2>1. i \in 1..(m + 1) /\ i # m + 1
    BY <1>5
  <2>2. CASE files[i].recs = <<>>
    <3>1. Len(files[i].recs) = 0 /\ Len(files'[i].recs) \in Nat /\ files'[i].recs \in Seq(Record)
      BY <1>6, <2>1, <2>2, FileRecs
    <3>2. Len(files'[i].recs) = 0
      BY <1>7, <2>1, <3>1 DEF Shorter
    <3> QED BY <2>2, <3>1, <3>2, EmptySeq
  <2>3. CASE files[i].recs # <<>>
    BY <1>3, <1>5, <2>1, <2>3
  <2> QED BY <2>2, <2>3
<1>9. /\ ActiveFile' = files'[m + 1] /\ ActiveFile = files[m + 1] /\ m + 1 \in 1..(m + 1)
      /\ Len(ActiveFile.recs) \in Nat /\ Len(ActiveFile'.recs) \in Nat
  <2>1. m + 1 \in 1..(m + 1) /\ ActiveFile' = files'[m + 1] /\ ActiveFile = files[m + 1]
    BY <1>4, <1>5 DEF ActiveFile, m
  <2> QED BY <1>5, <1>6, <2>1, FileRecs
<1>10. SealedShown'
  BY <1>1, <1>4, <1>7, <1>8, SameSealed DEF m
<1>11. Locates(catalog.active, ActiveFile.recs, committed_lsn)
  <2>1. Locates(ContainerOf(catalog, m + 1), files[m + 1].recs, committed_lsn)
        /\ Len(catalog.sealed) = m
    BY <1>1, <1>9, ContainersLocate DEF m
  <2>2. ContainerOf(catalog, m + 1) = catalog.active
    BY <1>5, <2>1 DEF ContainerOf
  <2> QED BY <1>9, <2>1, <2>2
<1>12. current_lsn = committed_lsn
  BY <1>1 DEF HeadInv, HeadIsPublished, Running
<1>13. \A j \in 1..Len(ActiveFile.recs) : ActiveFile.recs[j].lsn < committed_lsn =>
          j \in 1..Len(ActiveFile'.recs) /\ ActiveFile'.recs[j] = ActiveFile.recs[j]
  BY <1>1, <1>2, <1>9, <1>12, ActiveKeeps DEF m
<1>14. \A j \in 1..Len(ActiveFile'.recs) :
          j \in 1..Len(ActiveFile.recs) /\ ActiveFile'.recs[j] = ActiveFile.recs[j]
  <2>1. Shorter(ActiveFile', ActiveFile)
    BY <1>7, <1>9
  <2> QED BY <1>9, <2>1 DEF Shorter
<1>15. Locates(catalog.active, ActiveFile'.recs, committed_lsn)
  <2>1. ASSUME NEW i \in 1..Len(catalog.active.entries), catalog.active.entries[i].lsn < committed_lsn
        PROVE  \E j \in 1..Len(ActiveFile'.recs) :
                 PointsAt(catalog.active.entries[i], ActiveFile'.recs[j])
    <3>1. PICK j \in 1..Len(ActiveFile.recs) : PointsAt(catalog.active.entries[i], ActiveFile.recs[j])
      BY <1>11, <2>1 DEF Locates
    <3>2. ActiveFile.recs[j].lsn < committed_lsn
      BY <2>1, <3>1 DEF PointsAt
    <3> QED BY <1>13, <3>1, <3>2
  <2>2. ASSUME NEW j \in 1..Len(ActiveFile'.recs), ActiveFile'.recs[j].lsn < committed_lsn
        PROVE  \E i \in 1..Len(catalog.active.entries) :
                 PointsAt(catalog.active.entries[i], ActiveFile'.recs[j])
    BY <1>11, <1>14, <2>2 DEF Locates
  <2> QED BY <2>1, <2>2 DEF Locates
<1> QED BY <1>4, <1>10, <1>15

\* The roll seals the container of the full file and starts an empty one.
LEMMA RollShown ==
  ASSUME HeadInv, TypeInv', DirInv, CatalogInv, NEW p \in PhysClock, roll_header(p)
  PROVE  SealedShown' /\ ActiveShown'
<1> DEFINE m == active.seg
           full == Container(active.seg, active.base, active.max, catalog.active.entries)
           fresh == Container(m + 1, tentative_lsn, U64Max, <<>>)
<1>1. /\ TypeInv /\ SealedShown /\ ActiveShown /\ pc = "roll_header" /\ Running
      /\ pc \notin {"closed", "refused"} /\ NextPlace = tentative_lsn /\ tentative_lsn \in Nat
  BY DEF HeadInv, CatalogInv, roll_header, Running, NextPlace, InBatch, TypeInv, TypeOK, CountersType
<1>2. /\ m \in Nat /\ m + 1 \in DOMAIN files /\ active.base \in Nat
      /\ \A i \in 1..(m + 1) : i \in DOMAIN files /\ files[i] \in File
      /\ catalog.sealed \in Seq(SegmentContainer) /\ catalog.active \in SegmentContainer
      /\ DOMAIN catalog.sealed = 1..m /\ Len(catalog.sealed) = m
      /\ \A j \in 1..Len(ActiveFile.recs) : active.base <= ActiveFile.recs[j].lsn
  BY <1>1, SealedSays
<1>3. /\ catalog' = [sealed |-> Append(catalog.sealed, full), active |-> fresh]
      /\ active' = new_active(m + 1, tentative_lsn) /\ pc' = "place"
      /\ UNCHANGED <<stash, pending, tentative_lsn>>
  BY DEF roll_header
<1>4. /\ DOMAIN files' = DOMAIN files /\ \A i \in DOMAIN files : files'[i].recs = files[i].recs
      /\ files[Len(files)].recs = <<>> /\ m + 2 = Len(files) /\ Len(files) \in DOMAIN files
  <2>1. LET n == Len(files)
        IN  /\ Creating /\ DOMAIN files' = DOMAIN files /\ n \in DOMAIN files
            /\ files'[n].recs = files[n].recs
            /\ \A i \in DOMAIN files : i # n => files'[i] = files[i]
    BY <1>1, HeaderFiles
  <2> QED BY <1>1, <2>1 DEF DirInv, CreatedEmpty, TypeInv, TypeOK, WorkerShape
<1>5. full \in SegmentContainer
  BY <1>1, <1>2 DEF Container, SegmentContainer, TypeInv, TypeOK, WorkerType, ActiveSegment
<1>6. /\ Len(Append(catalog.sealed, full)) = m + 1 /\ Append(catalog.sealed, full)[m + 1] = full
      /\ \A i \in 1..m : Append(catalog.sealed, full)[i] = catalog.sealed[i]
  BY <1>2, <1>5, AppendProperties
<1>7. /\ catalog'.active = fresh /\ Len(catalog'.sealed) = m + 1 /\ catalog'.sealed[m + 1] = full
      /\ \A i \in 1..m : catalog'.sealed[i] = catalog.sealed[i]
      /\ active'.seg = m + 1 /\ active'.base = tentative_lsn
      /\ catalog'.active.seg = m + 1 /\ catalog'.active.base = tentative_lsn
      /\ catalog'.active.entries = <<>>
  <2>1. catalog'.active = fresh /\ catalog'.sealed = Append(catalog.sealed, full)
    BY <1>3
  <2>2. active'.seg = m + 1 /\ active'.base = tentative_lsn
    BY <1>3 DEF new_active
  <2>3. fresh.seg = m + 1 /\ fresh.base = tentative_lsn /\ fresh.entries = <<>>
    BY DEF Container
  <2> HIDE DEF fresh, full, m
  <2> QED BY <1>6, <2>1, <2>2, <2>3
<1>8. full.seg = m /\ full.base = active.base /\ full.entries = catalog.active.entries
  BY DEF Container
<1> HIDE DEF full, fresh, m
<1>9. Indexes(full, ActiveFile.recs)
  <2>1. WillIndex(catalog.active, ActiveFile.recs, stash, Len(stash))
    BY <1>1 DEF ActiveShown, Unshown
  <2>2. Len(stash) \in Nat
    BY <1>1, LenProperties DEF TypeInv, TypeOK, CallsType
  <2>3. Indexes(catalog.active, ActiveFile.recs)
    BY <1>2, <2>1, <2>2, WillNone
  <2> QED BY <1>8, <2>3 DEF Indexes, Pointed
<1>10. ActiveFile.recs = files[m + 1].recs /\ ActiveFile'.recs = <<>>
  <2>1. ActiveFile' = files'[m + 2]
    <3>1. active'.seg + 1 = m + 2
      BY <1>2, <1>7
    <3> QED BY <3>1 DEF ActiveFile
  <2>2. ActiveFile' = files'[Len(files)]
    BY <1>4, <2>1
  <2> QED BY <1>4, <2>2 DEF ActiveFile, m
<1>11. ASSUME NEW i \in 1..(m + 1)
       PROVE  /\ catalog'.sealed[i].seg = i - 1
              /\ Indexes(catalog'.sealed[i], files'[i].recs)
  <2>1. CASE i \in 1..m
    BY <1>1, <1>2, <1>4, <1>7, <2>1 DEF SealedShown, m
  <2>2. CASE i = m + 1
    BY <1>2, <1>4, <1>7, <1>8, <1>9, <1>10, <2>2
  <2> QED BY <1>2, <2>1, <2>2
<1>12. /\ \A i \in 1..m : Base(catalog', i) = Base(catalog, i)
       /\ Base(catalog', m + 1) = Base(catalog, m + 1)
       /\ Base(catalog', m + 2) = tentative_lsn
  <2>1. \A i \in 1..m : i <= m /\ i <= m + 1
    BY <1>2
  <2>2. \A i \in 1..m : Base(catalog', i) = Base(catalog, i)
    BY <1>2, <1>7, <2>1 DEF Base
  <2>3. Base(catalog', m + 1) = active.base /\ Base(catalog, m + 1) = active.base
    <3>1. m + 1 <= m + 1 /\ ~(m + 1 <= m)
      BY <1>2
    <3> QED BY <1>1, <1>2, <1>7, <1>8, <3>1 DEF Base, SealedShown
  <2>4. Base(catalog', m + 2) = tentative_lsn
    <3>1. ~(m + 2 <= m + 1)
      BY <1>2
    <3> QED BY <1>7, <3>1 DEF Base
  <2> QED BY <2>2, <2>3, <2>4
<1>13. BaseOrder(catalog', files')
  <2> SUFFICES ASSUME NEW i \in 1..(m + 2), NEW j \in 1..Len(files'[i].recs)
               PROVE  /\ Base(catalog', i) <= files'[i].recs[j].lsn
                      /\ \A k \in 1..(m + 2) : i < k => files'[i].recs[j].lsn < Base(catalog', k)
    <3>1. Len(catalog'.sealed) + 1 = m + 2
      BY <1>2, <1>7
    <3> QED BY <3>1 DEF BaseOrder
  <2>1. CASE i = m + 2
    <3>1. files'[i].recs = <<>> /\ Len(<<>>) = 0
      BY <1>4, <2>1
    <3> QED BY <3>1
  <2>2. CASE i \in 1..(m + 1)
    <3>1. files'[i].recs = files[i].recs
      BY <1>2, <1>4, <2>2
    <3>2. /\ Base(catalog, i) <= files[i].recs[j].lsn
          /\ \A k \in 1..(m + 1) : i < k => files[i].recs[j].lsn < Base(catalog, k)
      BY <1>1, <1>2, <2>2, <3>1 DEF SealedShown, BaseOrder
    <3>3. files[i].recs[j] \in AllRecs(files)
      BY <1>1, <1>2, <2>2, <3>1, FilesAre, RecordPlaces
    <3>4. files[i].recs[j].lsn < tentative_lsn
      BY <1>1, <3>3 DEF DirInv, RecordsBelow
    <3>5. \A k \in 1..(m + 1) : Base(catalog', k) = Base(catalog, k)
      <4>1. \A k \in 1..(m + 1) : k \in 1..m \/ k = m + 1
        BY <1>2
      <4> QED BY <1>12, <4>1
    <3>6. \A k \in 1..(m + 2) : k \in 1..(m + 1) \/ k = m + 2
      BY <1>2
    <3> QED BY <1>12, <2>2, <3>1, <3>2, <3>4, <3>5, <3>6
  <2>3. i \in 1..(m + 1) \/ i = m + 2
    BY <1>2
  <2> QED BY <2>1, <2>2, <2>3
<1>14. SealedShown'
  BY <1>7, <1>11, <1>13 DEF SealedShown
<1>15. WillIndex(catalog'.active, ActiveFile'.recs, stash', pending')
  <2>1. Indexes(catalog'.active, ActiveFile'.recs)
    BY <1>7, <1>10 DEF Indexes, Pointed
  <2>2. catalog'.active \in SegmentContainer
    BY DEF TypeInv, TypeOK, DirectoryType, Catalog
  <2>3. Len(stash) \in Nat /\ pending = Len(stash)
    BY <1>1, LenProperties DEF TypeInv, TypeOK, CallsType, ActiveShown
  <2> QED BY <1>3, <2>1, <2>2, <2>3, IndexedWill
<1>16. ActiveShown'
  <2>1. NextPlace' = tentative_lsn /\ tentative_lsn <= tentative_lsn
    BY <1>1, <1>3 DEF NextPlace, InBatch
  <2> QED BY <1>3, <1>7, <1>15, <2>1 DEF ActiveShown, Unshown
<1> QED BY <1>14, <1>16

\* Steps that neither write a record nor publish one.
LEMMA ActiveKept ==
  ASSUME ActiveShown, Running, Running', catalog' = catalog, NextPlace' = NextPlace,
         ActiveFile'.recs = ActiveFile.recs, Unshown <=> Unshown',
         Unshown => UNCHANGED <<stash, pending>>,
         pc' \in {"roll_create", "roll_header"} => pc \in {"roll_create", "roll_header"}
  PROVE  ActiveShown'
<1>1. CASE Unshown
  <2>1. WillIndex(catalog.active, ActiveFile.recs, stash, pending)
    BY <1>1 DEF ActiveShown
  <2>2. WillIndex(catalog'.active, ActiveFile'.recs, stash', pending')
    BY <1>1, <2>1
  <2>3. pc' \in {"roll_create", "roll_header"} => pending' = Len(stash')
    BY <1>1 DEF ActiveShown
  <2>4. pc' # "dead" /\ catalog'.active.base <= NextPlace'
    BY DEF ActiveShown, Running
  <2> QED BY <1>1, <2>2, <2>3, <2>4 DEF ActiveShown
<1>2. CASE ~Unshown
  <2>1. Indexes(catalog.active, ActiveFile.recs)
    BY <1>2 DEF ActiveShown
  <2>2. Indexes(catalog'.active, ActiveFile'.recs)
    BY <2>1
  <2>3. pc' \notin {"roll_create", "roll_header"}
    BY <1>2 DEF Unshown
  <2>4. pc' # "dead" /\ catalog'.active.base <= NextPlace'
    BY DEF ActiveShown, Running
  <2> QED BY <1>2, <2>2, <2>3, <2>4 DEF ActiveShown
<1> QED BY <1>1, <1>2

LEMMA PlaceShown ==
  ASSUME HeadInv, TypeInv', DirInv, CommandsSound, CatalogInv, place
  PROVE  SealedShown' /\ ActiveShown'
<1> DEFINE r == Placed
           x == [lsn |-> tentative_lsn, id |-> Cmd.id, off |-> active.bytes, client |-> Cmd.client]
<1>1. /\ TypeInv /\ SealedShown /\ ActiveShown /\ BytesExact /\ Running /\ Unshown
      /\ pc \notin {"closed", "refused", "open_header"}
  BY DEF HeadInv, CatalogInv, place, Running, Unshown
<1>2. /\ r \in Record /\ r.lsn = tentative_lsn /\ r.off = PhysLen(ActiveFile)
      /\ ActiveFile.recs \in Seq(Record) /\ ActiveFile'.recs = Append(ActiveFile.recs, r)
      /\ active'.seg = active.seg /\ active'.base = active.base
  BY PlaceRecs
<1>3. /\ catalog' = catalog /\ stash' = Append(stash, x) /\ pending' = pending /\ pc' = "write"
      /\ tentative_lsn' = tentative_lsn + 1
  BY DEF place
<1>4. /\ tentative_lsn \in Nat /\ active.bytes \in Nat /\ stash \in Seq(Update)
      /\ pending \in Nat /\ pending <= Len(stash) /\ catalog.active \in SegmentContainer
  BY <1>1 DEF TypeInv, TypeOK, CountersType, WorkerType, CallsType, WorkerShape, ActiveSegment,
     DirectoryType, Catalog
<1>5. x \in Update
  <2>1. Cmd \in Command
    BY PlaceDir
  <2>2. Cmd.id \in Nat /\ Cmd.client \in Clients
    BY <2>1 DEF Command
  <2> QED BY <1>4, <2>2 DEF Update
<1>6. PointsAt(x, r)
  BY <1>1, <1>2 DEF PointsAt, BytesExact
<1>7. NextPlace = tentative_lsn /\ NextPlace' = tentative_lsn + 1
  <2>1. InBatch /\ InBatch'
    BY <1>3 DEF place, InBatch
  <2> QED BY <1>3, <2>1 DEF NextPlace
<1> HIDE DEF r, x
<1>8. WillIndex(catalog'.active, ActiveFile'.recs, stash', pending')
  <2>1. WillIndex(catalog.active, ActiveFile.recs, stash, pending)
    BY <1>1 DEF ActiveShown
  <2>2. WillIndex(catalog.active, Append(ActiveFile.recs, r), Append(stash, x), pending)
    BY <1>2, <1>4, <1>5, <1>6, <2>1, PlacedWill
  <2> QED BY <1>2, <1>3, <2>2
<1>9. catalog.active.base <= tentative_lsn /\ catalog.active.base \in Nat
  BY <1>1, <1>4, <1>7 DEF ActiveShown, SegmentContainer
<1>10. ActiveShown'
  <2>1. catalog'.active.base <= NextPlace'
    BY <1>3, <1>4, <1>7, <1>9
  <2> QED BY <1>3, <1>8, <2>1 DEF ActiveShown, Unshown
<1>11. /\ active.seg \in Nat /\ \A i \in 1..(active.seg + 1) : i \in DOMAIN files
       /\ \A j \in 1..Len(ActiveFile.recs) : active.base <= ActiveFile.recs[j].lsn
  BY <1>1, SealedSays
<1>12. \A i \in 1..active.seg : files'[i].recs = files[i].recs
  <2>1. \A i \in DOMAIN files : i # active.seg + 1 => files'[i] = files[i]
    BY <1>1, PlaceFiles
  <2>2. \A i \in 1..active.seg : i \in 1..(active.seg + 1) /\ i # active.seg + 1
    BY <1>11
  <2> QED BY <1>11, <2>1, <2>2
<1>13. ASSUME NEW j \in 1..Len(ActiveFile'.recs) PROVE active.base <= ActiveFile'.recs[j].lsn
  <2>1. /\ Len(ActiveFile'.recs) = Len(ActiveFile.recs) + 1 /\ Len(ActiveFile.recs) \in Nat
        /\ ActiveFile'.recs[Len(ActiveFile.recs) + 1] = r
        /\ \A k \in 1..Len(ActiveFile.recs) : ActiveFile'.recs[k] = ActiveFile.recs[k]
    BY <1>2, AppendProperties, LenProperties
  <2>2. active.base <= r.lsn
    BY <1>1, <1>2, <1>9 DEF SealedShown
  <2>3. j \in 1..Len(ActiveFile.recs) \/ j = Len(ActiveFile.recs) + 1
    BY <2>1
  <2> QED BY <1>11, <2>1, <2>2, <2>3
<1>14. SealedShown'
  BY <1>1, <1>2, <1>3, <1>12, <1>13, SealedKept
<1> QED BY <1>10, <1>14

\* Phase 4, and the same before a roll.
LEMMA PublishShown ==
  ASSUME HeadInv, TypeInv', CatalogInv, publish \/ roll_seal
  PROVE  SealedShown' /\ ActiveShown'
<1>1. /\ TypeInv /\ SealedShown /\ ActiveShown /\ Running /\ Unshown
      /\ pc \notin {"closed", "refused"}
  BY DEF HeadInv, CatalogInv, publish, roll_seal, Running, Unshown
<1>2. catalog' = publish_active /\ active' = active /\ stash' = stash
  BY DEF publish, roll_seal
<1>3. /\ DOMAIN files' = DOMAIN files /\ \A i \in DOMAIN files : files'[i].recs = files[i].recs
      /\ NextPlace' = NextPlace
  <2>1. CASE publish
    <3>1. files' = files
      BY <2>1 DEF publish
    <3> QED BY <2>1, <3>1, NextPlaceKept
  <2>2. CASE roll_seal
    BY <1>1, <2>2, RollSealFiles
  <2> QED BY <2>1, <2>2
<1>4. ActiveFile'.recs = ActiveFile.recs
  BY <1>1, <1>2, <1>3, SealedSays DEF ActiveFile
<1>5. WillIndex(catalog.active, ActiveFile.recs, stash, pending)
  BY <1>1 DEF ActiveShown
<1>6. /\ catalog'.sealed = catalog.sealed /\ catalog'.active.seg = catalog.active.seg
      /\ catalog'.active.base = catalog.active.base
      /\ Indexes(catalog'.active, ActiveFile'.recs)
  BY <1>1, <1>2, <1>4, <1>5, PublishedIndexes
<1>7. SealedShown'
  BY <1>1, <1>2, <1>3, <1>6, StillSealed
<1>8. catalog'.active.base <= NextPlace'
  BY <1>1, <1>3, <1>6 DEF ActiveShown
<1>9. CASE publish
  <2>1. pc' = "commit"
    BY <1>9 DEF publish
  <2> QED BY <1>6, <1>7, <1>8, <2>1 DEF ActiveShown, Unshown
<1>10. CASE roll_seal
  <2>1. pc' = "roll_create" /\ pending' = Len(stash')
    BY <1>2, <1>10 DEF roll_seal
  <2>2. catalog'.active \in SegmentContainer /\ Len(stash') \in Nat
    BY LenProperties DEF TypeInv, TypeOK, DirectoryType, Catalog, CallsType
  <2>3. WillIndex(catalog'.active, ActiveFile'.recs, stash', pending')
    BY <1>6, <2>1, <2>2, IndexedWill
  <2> QED BY <1>7, <1>8, <2>1, <2>3 DEF ActiveShown, Unshown
<1> QED BY <1>9, <1>10

LEMMA NextCatalog ==
  ASSUME HeadInv, DirInv, CommandsSound, OrderInv, CatalogInv, ~EmptyFileSurvives, [Next]_vars
  PROVE  CatalogInv'
<1>1. TypeInv /\ TypeInv' /\ DirInv' /\ OrderInv' /\ HeadersWritten' /\ BytesExact'
  BY NextType, NextDir, NextOrder, NextHeaders, NextBytes DEF HeadInv, CatalogInv
<1> SUFFICES SealedShown' /\ ActiveShown'
  BY <1>1 DEF CatalogInv
<1>2. SealedShown /\ ActiveShown
  BY DEF CatalogInv
<1>3. CASE UNCHANGED <<worker, files, catalog, committed_lsn>>
  <2>1. SealedShown'
    BY <1>2, <1>3 DEF SealedShown, worker
  <2>2. ActiveShown'
    BY <1>2, <1>3 DEF ActiveShown, Unshown, ActiveFile, Running, NextPlace, InBatch, worker
  <2> QED BY <2>1, <2>2
<1>4. \/ \E c \in Clients, size \in Sizes, p \in PhysClock : append(c, size, p)
      \/ \E c \in Clients, k \in DOMAIN Leader : append_replicated(c, k)
      \/ \E c \in Clients : flush(c) \/ send_timeout(c)
      \/ UNCHANGED vars
      => UNCHANGED <<worker, files, catalog, committed_lsn>>
  BY Zenon DEF append, append_replicated, flush, send_timeout, vars
<1>5. ASSUME Running, Running', catalog' = catalog, active' = active,
             \A i \in DOMAIN files : files'[i].recs = files[i].recs
      PROVE  SealedShown' /\ ActiveFile'.recs = ActiveFile.recs
  <2>1. SealedShown'
    BY <1>1, <1>2, <1>5, StillSealed DEF Running
  <2>2. active.seg + 1 \in DOMAIN files
    BY <1>1, <1>2, <1>5, SealedSays DEF Running
  <2> QED BY <1>5, <2>1, <2>2 DEF ActiveFile
<1>6. CASE recv
  <2>1. /\ Running /\ Running' /\ catalog' = catalog /\ active' = active /\ files' = files
        /\ stash' = <<>> /\ pending' = 0 /\ pc = "recv" /\ pc' = "write"
    BY <1>6 DEF recv, Running
  <2>2. SealedShown' /\ ActiveFile'.recs = ActiveFile.recs
    BY <1>5, <2>1
  <2>3. Indexes(catalog'.active, ActiveFile'.recs)
    BY <1>2, <2>1, <2>2 DEF ActiveShown, Unshown
  <2>4. catalog'.active \in SegmentContainer /\ Len(<<>>) = 0
    BY <1>1 DEF TypeInv, TypeOK, DirectoryType, Catalog
  <2>5. WillIndex(catalog'.active, ActiveFile'.recs, stash', pending')
    BY <2>1, <2>3, <2>4, IndexedWill
  <2>6. catalog'.active.base <= NextPlace'
    BY <1>2, <1>6, <2>1, NextPlaceKept DEF ActiveShown
  <2> QED BY <2>1, <2>2, <2>5, <2>6 DEF ActiveShown, Unshown
<1>7. CASE write_flush \/ reject
  <2>1. /\ Running /\ Running' /\ catalog' = catalog /\ active' = active /\ files' = files
        /\ UNCHANGED <<stash, pending, pc>>
    BY <1>7 DEF write_flush, reject, Running
  <2>2. SealedShown' /\ ActiveFile'.recs = ActiveFile.recs /\ NextPlace' = NextPlace
    BY <1>5, <1>7, <2>1, NextPlaceKept
  <2>3. Unshown <=> Unshown'
    BY <2>1 DEF Unshown
  <2> QED BY <1>2, <2>1, <2>2, <2>3, ActiveKept
<1>8. CASE commit \/ ack
  <2>1. /\ Running /\ Running' /\ catalog' = catalog /\ active' = active /\ files' = files
        /\ ~Unshown /\ ~Unshown' /\ pc' \notin {"roll_create", "roll_header"}
    BY <1>8 DEF commit, ack, Running, Unshown
  <2>2. SealedShown' /\ ActiveFile'.recs = ActiveFile.recs /\ NextPlace' = NextPlace
    BY <1>5, <1>8, <2>1, NextPlaceKept
  <2> QED BY <1>2, <2>1, <2>2, ActiveKept
<1>9. CASE fsync
  <2>1. /\ Running /\ Running' /\ active' = active /\ NextPlace' = NextPlace
        /\ pc = "write" /\ pc' = "publish"
        /\ \A i \in DOMAIN files : files'[i].recs = files[i].recs
    BY <1>1, <1>9, FsyncFiles
  <2>2. catalog' = catalog /\ UNCHANGED <<stash, pending>>
    BY <1>9 DEF fsync
  <2>3. SealedShown' /\ ActiveFile'.recs = ActiveFile.recs
    BY <1>5, <2>1, <2>2
  <2>4. Unshown /\ Unshown'
    BY <2>1 DEF Unshown
  <2> QED BY <1>2, <2>1, <2>2, <2>3, <2>4, ActiveKept
<1>10. CASE roll_create
  <2>1. LET k == active.seg + 1
        IN  /\ Running /\ Running' /\ pc = "roll_create" /\ pc' = "roll_header" /\ UNCHANGED active
            /\ files'[k].recs = files[k].recs
            /\ \A i \in DOMAIN files : i # k => files'[i] = files[i]
    BY <1>1, <1>10, RollCreateFiles
  <2>2. \A i \in DOMAIN files : files'[i].recs = files[i].recs
    BY <2>1
  <2>3. catalog' = catalog /\ UNCHANGED <<stash, pending, tentative_lsn>>
    BY <1>10 DEF roll_create
  <2>4. SealedShown' /\ ActiveFile'.recs = ActiveFile.recs
    BY <1>5, <2>1, <2>2, <2>3
  <2>5. Unshown /\ Unshown' /\ NextPlace' = NextPlace
    BY <2>1, <2>3 DEF Unshown, NextPlace, InBatch
  <2> QED BY <1>2, <2>1, <2>3, <2>4, <2>5, ActiveKept
<1>11. ASSUME NEW p \in PhysClock, open_header(p)
       PROVE  SealedShown' /\ ActiveShown'
  <2>1. LET n == Len(files)
        IN  /\ Running /\ Running' /\ NextPlace' = NextPlace
            /\ files'[n].recs = files[n].recs
            /\ \A i \in DOMAIN files : i # n => files'[i] = files[i]
    BY <1>1, <1>11, HeaderFiles
  <2>2. \A i \in DOMAIN files : files'[i].recs = files[i].recs
    BY <2>1
  <2>3. /\ catalog' = catalog /\ active' = active /\ ~Unshown /\ ~Unshown'
        /\ pc' \notin {"roll_create", "roll_header"}
    BY <1>11 DEF open_header, Unshown
  <2>4. SealedShown' /\ ActiveFile'.recs = ActiveFile.recs
    BY <1>5, <2>1, <2>2, <2>3
  <2> QED BY <1>2, <2>1, <2>3, <2>4, ActiveKept
<1>12. CASE place
  BY <1>1, <1>12, PlaceShown
<1>13. CASE publish \/ roll_seal
  BY <1>1, <1>13, PublishShown
<1>14. ASSUME NEW p \in PhysClock, roll_header(p)
       PROVE  SealedShown' /\ ActiveShown'
  BY <1>1, <1>14, RollShown
<1>15. CASE io_error
  <2>1. SealedShown' /\ Locates(catalog'.active, ActiveFile'.recs, committed_lsn') /\ pc' = "dead"
    BY <1>1, <1>15, ErrorShown DEF io_error
  <2> QED BY <2>1 DEF ActiveShown, Running
<1>16. CASE process_crash \/ power_loss
  <2>1. pc' = "closed"
    BY <1>16 DEF process_crash, power_loss, Restart
  <2> QED BY <2>1 DEF SealedShown, ActiveShown, Running
<1>17. CASE open
  <2>1. CASE pc' = "refused"
    BY <2>1 DEF SealedShown, ActiveShown, Running
  <2>2. ASSUME NEW lsn0, Reopens(lsn0), ~open_refuses(Scans)
        PROVE  SealedShown' /\ ActiveShown'
    <3>1. SealedShown' /\ Indexes(catalog'.active, ActiveFile'.recs) /\ catalog'.active.base <= lsn0
      BY <1>1, <1>17, <2>2, OpenShown DEF OrderInv
    <3>2. pc' \in {"recv", "open_header"} /\ current_lsn' = lsn0
      BY <2>2 DEF Reopens, TailKept, TailStarted
    <3>3. NextPlace' = lsn0 /\ ~Unshown' /\ pc' \notin {"roll_create", "roll_header", "dead"}
      BY <3>2 DEF NextPlace, InBatch, Unshown
    <3> QED BY <3>1, <3>3 DEF ActiveShown
  <2> QED BY <1>1, <1>17, <2>1, <2>2, OpenFiles DEF DirInv
<1> QED BY <1>3, <1>4, <1>6, <1>7, <1>8, <1>9, <1>10, <1>11, <1>12, <1>13, <1>14, <1>15, <1>16,
   <1>17 DEF Next, WorkerStep

LEMMA InitCatalog == Init => CatalogInv
<1> SUFFICES ASSUME Init PROVE CatalogInv
  OBVIOUS
<1>1. pc = "closed" /\ files \in {<<>>, <<OldSegment>>}
  BY DEF Init
<1>2. \A i \in DOMAIN files : files[i].hdr # "none"
  <2>1. OldSegment.hdr = "ok"
    BY DEF OldSegment, EmptyFile
  <2>2. CASE files = <<>>
    BY <2>2
  <2>3. CASE files = <<OldSegment>>
    <3>1. DOMAIN files = 1..1 /\ files[1] = OldSegment
      BY <2>3
    <3>2. \A i \in DOMAIN files : i = 1
      BY <3>1
    <3> QED BY <2>1, <3>1, <3>2
  <2> QED BY <1>1, <2>2, <2>3
<1> QED BY <1>1, <1>2 DEF CatalogInv, HeadersWritten, BytesExact, SealedShown, ActiveShown, Running
-----------------------------------------------------------------------------
(* Reads are exact, and stay so.                                            *)

\* What a caller was answered Ok for is in the directory.
AckedThere == \A a \in acked : \E r \in AllRecs(files) : r.lsn = a[1] /\ r.id = a[2]

ReadInv == DurableInv /\ OrderInv /\ CatalogInv /\ AckedThere

\* Below the head a read and the directory say the same of an LSN.
ReadsExact ==
  Opened => \A lsn \in Nat : lsn < committed_lsn =>
    read(catalog, files, committed_lsn, lsn) = {r \in AllRecs(files) : r.lsn = lsn}

LEMMA ReadsAreExact == ReadInv => ReadsExact
<1> SUFFICES ASSUME ReadInv, Opened, NEW lsn \in Nat, lsn < committed_lsn
             PROVE  read(catalog, files, committed_lsn, lsn) = {r \in AllRecs(files) : r.lsn = lsn}
  BY DEF ReadsExact
<1>1. HeadInv /\ DirInv /\ DeadTail /\ CatalogInv
  BY DEF ReadInv, DurableInv, OrderInv
<1> QED BY <1>1, ReadIs

\* While the log is open nothing below the head comes or goes.
LEMMA RecordsStay ==
  ASSUME DurableInv, OrderInv, [Next]_vars, Opened, Opened'
  PROVE  \A r : r \in Record /\ r.lsn < committed_lsn =>
                  (r \in AllRecs(files) <=> r \in AllRecs(files'))
<1>1. /\ HeadInv /\ DirInv /\ CommandsSound /\ TypeInv /\ TypeInv' /\ DirStep
      /\ committed_lsn \in Nat /\ current_lsn \in Nat
  BY NextType, NextDir DEF DurableInv, HeadInv, TypeInv, TypeOK, CountersType
<1>2. ASSUME NEW r \in AllRecs(files), r.lsn < committed_lsn
      PROVE  r \in AllRecs(files')
  <2>1. CASE Running'
    BY <1>1, <2>1 DEF DirStep
  <2>2. CASE io_error
    BY <1>1, <1>2, <2>2, FailureOrder
  <2>3. CASE ~Running' /\ ~io_error
    <3>1. ~open /\ ~process_crash /\ ~power_loss /\ pc' = "dead"
      BY <2>3 DEF open, process_crash, power_loss, Restart, Opened, Running
    <3>2. commit => pc' = "ack"
      BY DEF commit
    <3>3. UNCHANGED files \/ Running \/ commit
      BY <3>1, HeadUnmoved
    <3>4. WorkerStep \/ (\E p \in PhysClock : open_header(p)) => Running'
      BY DEF WorkerStep, recv, write_flush, reject, place, roll_seal, roll_create, roll_header,
         fsync, publish, commit, ack, open_header, Running
    <3>5. UNCHANGED files
      BY <2>3, <3>1, <3>4 DEF Next, append, append_replicated, flush, send_timeout, vars
    <3> QED BY <3>5
  <2> QED BY <2>1, <2>2, <2>3
<1>3. ASSUME NEW r \in AllRecs(files'), r \notin AllRecs(files)
      PROVE  ~(r.lsn < committed_lsn)
  <2>1. place /\ r = Placed
    BY <1>1, <1>3 DEF DirStep
  <2>2. tentative_lsn = current_lsn + Len(stash) /\ current_lsn = committed_lsn
    BY <1>1, <2>1 DEF HeadInv, StashDense, HeadIsPublished, InBatch, place
  <2>3. Len(stash) \in Nat /\ r.lsn = tentative_lsn
    BY <1>1, <2>1, LenProperties DEF TypeInv, TypeOK, CallsType, Placed
  <2> QED BY <1>1, <2>2, <2>3
<1> QED BY <1>2, <1>3

LEMMA NextAcked ==
  ASSUME ReadInv, [Next]_vars
  PROVE  AckedThere'
<1>1. /\ DurableInv /\ OrderInv /\ CatalogInv /\ AckedThere /\ HeadInv /\ Stashed /\ TypeInv
      /\ files \in Seq(File)
  BY FilesAre DEF ReadInv, DurableInv, HeadInv
<1>2. CASE acked' = {}
  BY <1>2 DEF AckedThere
<1>3. CASE ack
  <2>1. acked' = acked \cup {<<stash[i].lsn, stash[i].id>> : i \in DOMAIN stash}
        /\ files' = files /\ Answering
    BY <1>3 DEF ack, Answering
  <2>2. ASSUME NEW a \in acked'
        PROVE  \E r \in AllRecs(files') : r.lsn = a[1] /\ r.id = a[2]
    <3>1. CASE a \in acked
      BY <1>1, <2>1, <3>1 DEF AckedThere
    <3>2. CASE a \notin acked
      <4>1. PICK k \in DOMAIN stash : a = <<stash[k].lsn, stash[k].id>>
        BY <2>1, <3>2
      <4> QED BY <1>1, <2>1, <4>1 DEF Stashed
    <3> QED BY <3>1, <3>2
  <2> QED BY <2>2 DEF AckedThere
<1>4. ASSUME NEW c \in Clients, NEW k \in DOMAIN Leader, append_replicated(c, k)
      PROVE  AckedThere'
  <2> DEFINE lsn == k - 1
  <2>1. k \in Nat /\ k >= 1 /\ lsn \in Nat
    BY LeaderAssumption, LenProperties
  <2>2. files' = files /\ Opened
    BY <1>4 DEF append_replicated, Serving
  <2>3. CASE acked' = acked
    BY <1>1, <2>2, <2>3 DEF AckedThere
  <2>4. CASE acked' # acked
    <3>1. /\ lsn < committed_lsn /\ acked' = acked \cup {<<lsn, Leader[k].id>>}
          /\ \E r \in read(catalog, files, committed_lsn, lsn) : r.id = Leader[k].id
      BY <1>4, <2>4 DEF append_replicated
    <3>2. read(catalog, files, committed_lsn, lsn) = {r \in AllRecs(files) : r.lsn = lsn}
      BY <2>1, <2>2, <3>1, ReadsAreExact DEF ReadsExact
    <3>3. \E r \in AllRecs(files) : r.lsn = lsn /\ r.id = Leader[k].id
      BY <3>1, <3>2
    <3> HIDE DEF lsn
    <3> QED BY <1>1, <2>2, <3>1, <3>3 DEF AckedThere
  <2> QED BY <2>3, <2>4
<1>5. CASE UNCHANGED acked /\ Opened /\ Opened'
  <2>1. ASSUME NEW a \in acked
        PROVE  \E r \in AllRecs(files') : r.lsn = a[1] /\ r.id = a[2]
    <3>1. a[1] < committed_lsn
      BY <1>1 DEF HeadInv, HeadCoversAcked
    <3>2. PICK r \in AllRecs(files) : r.lsn = a[1] /\ r.id = a[2]
      BY <1>1 DEF AckedThere
    <3>3. r \in Record
      BY <1>1, RecordPlaces
    <3>4. r \in AllRecs(files')
      BY <1>1, <1>5, <3>1, <3>2, <3>3, RecordsStay
    <3> QED BY <3>2, <3>4
  <2> QED BY <1>5, <2>1 DEF AckedThere
<1>6. CASE open
  <2>1. acked = {} /\ acked' = acked
    BY <1>1, <1>6 DEF open, HeadInv, NoAckedWhileClosed, ghosts
  <2> QED BY <2>1 DEF AckedThere
<1>7. CASE \E p \in PhysClock : open_header(p)
  <2>1. acked' = acked /\ AllRecs(files') = AllRecs(files)
    BY <1>1, <1>7, HeaderDir DEF open_header, ghosts, DurableInv
  <2> QED BY <1>1, <2>1 DEF AckedThere
<1>8. CASE UNCHANGED <<files, acked>>
  BY <1>1, <1>8 DEF AckedThere
<1>9. CASE process_crash \/ power_loss
  <2>1. acked' = {}
    BY <1>9 DEF process_crash, power_loss, Restart
  <2> QED BY <1>2, <2>1
<1>10. CASE WorkerStep /\ ~ack
  <2>1. UNCHANGED acked /\ pc' \notin {"closed", "open_header", "refused"}
        /\ pc \notin {"closed", "open_header", "refused"}
    BY <1>10 DEF WorkerStep, recv, write_flush, reject, place, roll_seal, roll_create,
       roll_header, fsync, publish, commit, ghosts
  <2> QED BY <1>5, <2>1 DEF Opened
<1>11. CASE io_error
  <2>1. UNCHANGED acked /\ pc' = "dead" /\ pc \notin {"closed", "open_header", "refused"}
    BY <1>11 DEF io_error, ghosts, Writing
  <2> QED BY <1>5, <2>1 DEF Opened
<1>12. \/ \E c \in Clients, size \in Sizes, p \in PhysClock : append(c, size, p)
       \/ \E c \in Clients : flush(c) \/ send_timeout(c)
       \/ UNCHANGED vars
       => UNCHANGED <<files, acked>>
  BY DEF append, flush, send_timeout, vars, ghosts
<1> QED BY <1>3, <1>4, <1>6, <1>7, <1>8, <1>9, <1>10, <1>11, <1>12 DEF Next

LEMMA InitReads == Init => ReadInv
<1>1. Init => AckedThere
  BY DEF Init, AckedThere
<1> QED BY <1>1, InitDurable, InitOrder, InitCatalog DEF ReadInv

LEMMA NextReads ==
  ASSUME ~EmptyFileSurvives, ReadInv, [Next]_vars
  PROVE  ReadInv'
<1>1. DurableInv /\ HeadInv /\ DirInv /\ CommandsSound /\ OrderInv /\ CatalogInv
  BY DEF ReadInv, DurableInv
<1>2. DurableInv' /\ OrderInv' /\ CatalogInv'
  BY <1>1, NextDurable, NextOrder, NextCatalog
<1> QED BY <1>2, NextAcked DEF ReadInv

\* Read-your-writes: an episode whose append returned Ok(lsn) is what a read of
\* that LSN returns until the log is closed, whatever the worker is in the
\* middle of and whichever I/O error stops it (lib.rs phases 4 to 6 and
\* Log::read).  A file left with no byte at all is excluded: the index of what
\* is written after it is wrong.
THEOREM AckedAreReadable ==
  ASSUME ~EmptyFileSurvives
  PROVE  Spec => []AckedReadable
<1>1. Init => ReadInv
  BY InitReads
<1>2. ReadInv /\ [Next]_vars => ReadInv'
  BY NextReads
<1>3. ReadInv => AckedReadable
  <2> SUFFICES ASSUME ReadInv, Opened, NEW a \in acked
               PROVE  \E r \in read(catalog, files, committed_lsn, a[1]) :
                        r.lsn = a[1] /\ r.id = a[2]
    BY DEF AckedReadable
  <2>1. a[1] < committed_lsn /\ a[1] \in Nat
    BY DEF ReadInv, DurableInv, HeadInv, HeadCoversAcked, TypeInv, TypeOK, GhostsType
  <2>2. PICK r \in AllRecs(files) : r.lsn = a[1] /\ r.id = a[2]
    BY DEF ReadInv, AckedThere
  <2>3. read(catalog, files, committed_lsn, a[1]) = {q \in AllRecs(files) : q.lsn = a[1]}
    BY <2>1, ReadsAreExact DEF ReadsExact
  <2> QED BY <2>2, <2>3
<1> QED BY <1>1, <1>2, <1>3, PTL DEF Spec

LEMMA CommittedAreRead == ReadInv => CommittedReadable
<1> SUFFICES ASSUME ReadInv, Serving, NEW lsn \in 0..(committed_lsn - 1)
             PROVE  \E r \in read(catalog, files, committed_lsn, lsn) : r.lsn = lsn
  BY DEF CommittedReadable
<1>1. /\ HeadInv /\ Opened /\ Running /\ Full(files, NextPlace)
      /\ committed_lsn \in Nat /\ current_lsn \in Nat
  BY DEF ReadInv, DurableInv, OrderInv, Dense, HeadInv, TypeInv, TypeOK, CountersType, Serving,
     Opened, Running
<1>2. lsn \in Nat /\ lsn < committed_lsn
  BY <1>1
<1>3. committed_lsn <= NextPlace
  <2>1. current_lsn = committed_lsn
    BY <1>1 DEF HeadInv, HeadIsPublished, Running
  <2>2. InBatch => tentative_lsn = current_lsn + Len(stash) /\ Len(stash) \in Nat
    BY <1>1, LenProperties DEF HeadInv, StashDense, TypeInv, TypeOK, CallsType
  <2> QED BY <1>1, <2>1, <2>2 DEF NextPlace
<1>4. NextPlace \in Nat
  BY <1>1 DEF NextPlace, HeadInv, TypeInv, TypeOK, CountersType
<1>5. lsn < NextPlace
  BY <1>1, <1>2, <1>3, <1>4
<1>6. PICK r \in AllRecs(files) : r.lsn = lsn
  BY <1>1, <1>2, <1>5 DEF Full, Has
<1>7. read(catalog, files, committed_lsn, lsn) = {q \in AllRecs(files) : q.lsn = lsn}
  BY <1>1, <1>2, ReadsAreExact DEF ReadsExact
<1> QED BY <1>6, <1>7

\* Every LSN below the published head is readable at every moment of a batch,
\* a roll and a rollback (lib.rs phase 4 before phase 5).
THEOREM CommittedAreReadable ==
  ASSUME ~EmptyFileSurvives
  PROVE  Spec => []CommittedReadable
<1>1. Init => ReadInv
  BY InitReads
<1>2. ReadInv /\ [Next]_vars => ReadInv'
  BY NextReads
<1>3. ReadInv => CommittedReadable
  BY CommittedAreRead
<1> QED BY <1>1, <1>2, <1>3, PTL DEF Spec

\* What a read returned it returns again until the log is closed: neither a
\* roll nor a publication nor a rollback changes what an LSN means, and the
\* record is the same to the byte (lib.rs Log::read beside the worker).
THEOREM ReadsAreStable ==
  ASSUME ~EmptyFileSurvives
  PROVE  Spec => StableReads
<1>1. Init => ReadInv
  BY InitReads
<1>2. ReadInv /\ [Next]_vars => ReadInv'
  BY NextReads
<1>3. ReadInv => ReadsExact
  BY ReadsAreExact
<1>4. ReadInv /\ ReadsExact /\ ReadInv' /\ ReadsExact' /\ [Next]_vars =>
        [Opened /\ Opened' =>
           \A lsn \in 0..(committed_lsn - 1) :
             read(catalog, files, committed_lsn, lsn)' = read(catalog, files, committed_lsn, lsn)]_vars
  <2> SUFFICES ASSUME ReadInv, ReadsExact, ReadInv', ReadsExact', [Next]_vars, Opened, Opened',
                      NEW lsn \in 0..(committed_lsn - 1)
               PROVE  read(catalog, files, committed_lsn, lsn)'
                        = read(catalog, files, committed_lsn, lsn)
    OBVIOUS
  <2>1. /\ DurableInv /\ OrderInv /\ HeadInv /\ files \in Seq(File) /\ files' \in Seq(File)
        /\ committed_lsn \in Nat /\ committed_lsn' \in Nat
    BY DEF ReadInv, DurableInv, HeadInv, TypeInv, TypeOK, DirectoryType, CountersType
  <2>2. lsn \in Nat /\ lsn < committed_lsn
    BY <2>1
  <2>3. lsn < committed_lsn'
    BY <2>1, <2>2, HeadsGrow
  <2>4. read(catalog, files, committed_lsn, lsn) = {r \in AllRecs(files) : r.lsn = lsn}
    BY <2>2 DEF ReadsExact
  <2>5. read(catalog, files, committed_lsn, lsn)' = {r \in AllRecs(files') : r.lsn = lsn}
    <3>1. (\A l \in Nat : l < committed_lsn =>
             read(catalog, files, committed_lsn, l) = {r \in AllRecs(files) : r.lsn = l})'
      BY DEF ReadsExact
    <3> QED BY <2>2, <2>3, <3>1
  <2>6. AllRecs(files) \subseteq Record /\ AllRecs(files') \subseteq Record
    BY <2>1, RecordPlaces
  <2>7. \A r \in Record : r.lsn = lsn => (r \in AllRecs(files) <=> r \in AllRecs(files'))
    BY <2>1, <2>2, RecordsStay
  <2> QED BY <2>4, <2>5, <2>6, <2>7
<1> QED BY <1>1, <1>2, <1>3, <1>4, PTL DEF Spec, StableReads

-----------------------------------------------------------------------------
(* What the loop of scan_capped reads, over files that hold still.           *)

\* The LSN is in the container of file i, at its place, in the index and in the
\* file.
Indexed(cat, fs, lsn, i) ==
  LET c == ContainerOf(cat, i)
      k == lsn - c.base + 1
  IN  /\ i \in DOMAIN fs /\ c \in SegmentContainer /\ c.seg = i - 1
      /\ ContainersFor(cat, lsn) = {c}
      /\ k \in 1..Len(c.entries) /\ k \in 1..Len(fs[i].recs)
      /\ PointsAt(c.entries[k], fs[i].recs[k]) /\ c.entries[k].lsn = lsn
      /\ c = cat.active \/ lsn <= c.max

Snapshot(cat, fs, h) == \A lsn \in Nat : lsn < h => \E i \in Nat : Indexed(cat, fs, lsn, i)

\* The inner loop reads at least the record it begins with, and no more than
\* the range asked for.
LEMMA RunIs ==
  ASSUME NEW cat, NEW fs \in Seq(File), NEW c \in SegmentContainer, c.seg + 1 \in DOMAIN fs,
         FileSound(fs[c.seg + 1]), NEW lsn \in Nat, NEW to \in Nat, lsn < to,
         NEW k \in 1..Len(fs[c.seg + 1].recs), fs[c.seg + 1].recs[k].lsn = lsn,
         c = cat.active \/ lsn <= c.max
  PROVE  LET run == Run(cat, fs, c, fs[c.seg + 1].recs[k].off, lsn, to)
         IN  /\ run \in Seq(Record)
             /\ Len(run) \in 1..(to - lsn)
             /\ \A m \in 1..Len(run) :
                  /\ run[m].lsn = lsn + m - 1
                  /\ run[m] \in AllRecs(fs)
<1> DEFINE recs == fs[c.seg + 1].recs
           off == recs[k].off
           last == IF c = cat.active THEN to - 1
                   ELSE IF c.max < to - 1 THEN c.max ELSE to - 1
           first == {j \in DOMAIN recs : recs[j].off = off}
           taken == {j \in DOMAIN recs :
                       \E i \in first : /\ i <= j /\ lsn + (j - i) <= last
                                        /\ \A x \in i..j : recs[x].lsn = lsn + (x - i)}
           run == Run(cat, fs, c, off, lsn, to)
           start == CHOOSE i \in first : TRUE
           Fine(j) == /\ k <= j /\ lsn + (j - k) <= last
                      /\ \A x \in k..j : recs[x].lsn = lsn + (x - k)
<1>1. /\ recs \in Seq(Record) /\ Len(recs) \in Nat /\ DOMAIN recs = 1..Len(recs)
      /\ \A j \in 1..Len(recs) : recs[j] \in Record /\ recs[j].off \in Nat /\ recs[j].lsn \in Nat
  <2>1. fs[c.seg + 1] \in File
    BY ElementOfSeq, LenProperties
  <2>2. recs \in Seq(Record) /\ Len(recs) \in Nat /\ DOMAIN recs = 1..Len(recs)
        /\ \A j \in 1..Len(recs) : recs[j] \in Record
    BY <2>1, FileRecs, ElementOfSeq, LenProperties
  <2> HIDE DEF recs
  <2> QED BY <2>2 DEF Record
<1>2. k \in 1..Len(recs) /\ k \in Nat
  BY <1>1
<1>3. \A j \in 1..Len(recs) : recs[j].off = off => j = k
  <2> SUFFICES ASSUME NEW j \in 1..Len(recs), j # k PROVE recs[j].off # off
    OBVIOUS
  <2>1. \A a, b \in 1..Len(recs) : a < b => recs[a].off # recs[b].off
    <3> SUFFICES ASSUME NEW a \in 1..Len(recs), NEW b \in 1..Len(recs), a < b
                 PROVE  recs[a].off # recs[b].off
      OBVIOUS
    <3>1. recs[a].size > 0 /\ recs[a].off + recs[a].size <= recs[b].off
      BY DEF FileSound
    <3>2. recs[a].size \in Nat /\ recs[a].off \in Nat /\ recs[b].off \in Nat
      <4>1. recs[a] \in Record /\ recs[b] \in Record
        BY <1>1
      <4> HIDE DEF recs
      <4> QED BY <4>1 DEF Record
    <3> HIDE DEF recs
    <3> QED BY <3>1, <3>2, SMTT(30)
  <2>2. j < k \/ k < j
    BY <1>1, <1>2
  <2> HIDE DEF recs
  <2> QED BY <1>2, <2>1, <2>2
<1>4. first = {k}
  <2> HIDE DEF recs
  <2> QED BY <1>1, <1>2, <1>3
<1>5. run = [n \in 1..Cardinality(taken) |-> recs[start + n - 1]]
  BY DEF Run
<1>6. start = k
  BY <1>4
<1>7. taken = {j \in 1..Len(recs) : Fine(j)}
  BY <1>1, <1>4
<1>8. last \in Nat /\ last <= to - 1 /\ lsn <= last
  <2>1. c.max \in Nat
    BY DEF SegmentContainer
  <2> QED BY <2>1, SMTT(30)
<1>9. recs[k].lsn = lsn
  OBVIOUS
<1> HIDE DEF recs, first, taken, run, last, off, start
<1>10. k \in taken
  <2>1. Fine(k)
    <3>1. \A x \in k..k : x = k
      BY <1>2
    <3> QED BY <1>2, <1>8, <1>9, <3>1
  <2> QED BY <1>2, <1>7, <2>1
<1>11. IsFiniteSet(taken) /\ taken \subseteq Nat
  <2>1. IsFiniteSet(1..Len(recs))
    BY <1>1, FS_Interval
  <2>2. taken \subseteq 1..Len(recs)
    BY <1>7
  <2>3. IsFiniteSet(taken)
    BY <2>1, <2>2, FS_Subset
  <2>4. 1..Len(recs) \subseteq Nat
    OBVIOUS
  <2> QED BY <2>2, <2>3, <2>4
<1>12. PICK e \in taken : \A j \in taken : j <= e
  BY <1>10, <1>11, FiniteMax
<1>13. e \in 1..Len(recs) /\ Fine(e) /\ e \in Nat /\ k <= e
  BY <1>1, <1>7
<1>14. taken = k..e
  <2>1. \A j \in taken : j \in k..e
    BY <1>1, <1>7, <1>12, <1>2, SMTT(30)
  <2>2. ASSUME NEW j \in k..e PROVE j \in taken
    <3>1. j \in 1..Len(recs) /\ j \in Nat /\ k <= j /\ j <= e
      BY <1>1, <1>2, <1>13
    <3>2. lsn + (j - k) <= last
      BY <1>2, <1>8, <1>13, <3>1, SMTT(30)
    <3>3. \A x \in k..j : x \in k..e
      BY <1>2, <1>13, <3>1
    <3>4. \A x \in k..j : recs[x].lsn = lsn + (x - k)
      BY <1>13, <3>3
    <3> QED BY <1>7, <3>1, <3>2, <3>4
  <2> QED BY <2>1, <2>2
<1> DEFINE n == e - k + 1
<1>15. Cardinality(taken) = n /\ n \in Nat /\ n >= 1
  <2>1. k \in Int /\ e \in Int /\ ~(k > e)
    BY <1>2, <1>13
  <2>2. Cardinality(k..e) = IF k > e THEN 0 ELSE e - k + 1
    BY <2>1, FS_Interval, Zenon
  <2> QED BY <1>2, <1>13, <1>14, <2>1, <2>2
<1>16. n <= to - lsn
  BY <1>2, <1>8, <1>13, SMTT(30)
<1>17. run = [m \in 1..n |-> recs[k + m - 1]]
  <2> HIDE DEF n
  <2> QED BY <1>5, <1>6, <1>15
<1>18. \A m \in 1..n : /\ k + m - 1 \in 1..Len(recs)
                       /\ recs[k + m - 1].lsn = lsn + m - 1
  <2> SUFFICES ASSUME NEW m \in 1..n
               PROVE  k + m - 1 \in 1..Len(recs) /\ recs[k + m - 1].lsn = lsn + m - 1
    OBVIOUS
  <2>1. /\ k \in Nat /\ e \in Nat /\ k <= e /\ 1 <= k /\ e <= Len(recs) /\ Len(recs) \in Nat
        /\ m \in Nat /\ 1 <= m /\ m <= e - k + 1
    BY <1>1, <1>2, <1>13
  <2>2. \A x \in k..e : recs[x].lsn = lsn + (x - k)
    BY <1>13
  <2> HIDE DEF n, Fine
  <2>3. k + m - 1 \in k..e
    BY <2>1
  <2>4. k + m - 1 \in 1..Len(recs)
    BY <2>1
  <2>5. lsn + ((k + m - 1) - k) = lsn + m - 1
    BY <2>1
  <2> QED BY <2>2, <2>3, <2>4, <2>5
<1> HIDE DEF n, Fine
<1>19. run \in [1..n -> Record]
  BY <1>1, <1>17, <1>18
<1>20. run \in Seq(Record) /\ Len(run) = n
  <2>1. run \in Seq(Record)
    BY <1>15, <1>19, SMTT(30) DEF Seq
  <2> QED BY <1>15, <1>19, <2>1, LenProperties
<1>21. \A m \in 1..n : run[m].lsn = lsn + m - 1 /\ run[m] \in AllRecs(fs)
  <2> SUFFICES ASSUME NEW m \in 1..n
               PROVE  run[m].lsn = lsn + m - 1 /\ run[m] \in AllRecs(fs)
    OBVIOUS
  <2>1. run[m] = recs[k + m - 1] /\ k + m - 1 \in 1..Len(recs)
    BY <1>17, <1>18
  <2>2. run[m] \in AllRecs(fs)
    BY <1>1, <2>1 DEF AllRecs, recs
  <2> QED BY <1>18, <2>1, <2>2
<1>22. n \in 1..(to - lsn)
  BY <1>15, <1>16
<1> QED BY <1>20, <1>21, <1>22 DEF run, off, recs

\* One turn of the outer loop, the rest being g.
Turn(cat, fs, to, g, lsn) ==
  IF lsn >= to THEN <<>>
  ELSE LET c == CHOOSE x \in container_for(cat, lsn) : TRUE
           k == lsn - c.base + 1
           next(l) == IF l > to THEN to ELSE l
       IN  IF container_for(cat, lsn) = {} THEN g[lsn + 1]
           ELSE IF k > Len(c.entries) THEN g[next(Later(c.max + 1, lsn + 1))]
           ELSE LET run == Run(cat, fs, c, c.entries[k].off, lsn, to)
                IN  run \o g[next(Later(lsn + Len(run), lsn + 1))]

\* Consecutive LSNs from lsn on, of records of the directory.
Consecutive(run, fs, lsn) ==
  \A m \in 1..Len(run) : run[m].lsn = lsn + m - 1 /\ run[m] \in AllRecs(fs)

\* A turn reads something and goes on behind it.
Advances(cat, fs, to, lsn) ==
  \E run \in Seq(Record) :
    /\ Len(run) \in 1..(to - lsn) /\ Consecutive(run, fs, lsn)
    /\ \A g : Turn(cat, fs, to, g, lsn) = run \o g[lsn + Len(run)]

LEMMA TurnIs ==
  ASSUME NEW fs \in Seq(File), \A i \in DOMAIN fs : FileSound(fs[i]), NEW cat, NEW h \in Nat,
         Snapshot(cat, fs, h), NEW to \in 0..h, NEW lsn \in 0..to, lsn < to
  PROVE  Advances(cat, fs, to, lsn)
<1>1. lsn \in Nat /\ to \in Nat /\ lsn < h
  OBVIOUS
<1>2. PICK i \in Nat : Indexed(cat, fs, lsn, i)
  BY <1>1 DEF Snapshot
<1> DEFINE c == ContainerOf(cat, i)
           k == lsn - c.base + 1
           run == Run(cat, fs, c, c.entries[k].off, lsn, to)
           next(l) == IF l > to THEN to ELSE l
<1>3. /\ i \in DOMAIN fs /\ c \in SegmentContainer /\ c.seg = i - 1 /\ c.seg + 1 = i
      /\ ContainersFor(cat, lsn) = {c}
      /\ k \in 1..Len(c.entries) /\ k \in 1..Len(fs[i].recs)
      /\ fs[i].recs[k].lsn = lsn /\ fs[i].recs[k].off = c.entries[k].off
      /\ c = cat.active \/ lsn <= c.max
  BY <1>2 DEF Indexed, PointsAt
<1> HIDE DEF c
<1>4. run \in Seq(Record) /\ Len(run) \in 1..(to - lsn) /\ Consecutive(run, fs, lsn)
  <2>1. fs[c.seg + 1] = fs[i] /\ FileSound(fs[c.seg + 1]) /\ c.seg + 1 \in DOMAIN fs
    BY <1>3
  <2>2. k \in 1..Len(fs[c.seg + 1].recs) /\ fs[c.seg + 1].recs[k].lsn = lsn
        /\ fs[c.seg + 1].recs[k].off = c.entries[k].off
    BY <1>3, <2>1
  <2> HIDE DEF k
  <2>3. LET q == Run(cat, fs, c, fs[c.seg + 1].recs[k].off, lsn, to)
        IN  /\ q \in Seq(Record) /\ Len(q) \in 1..(to - lsn)
            /\ \A m \in 1..Len(q) : q[m].lsn = lsn + m - 1 /\ q[m] \in AllRecs(fs)
    BY <1>1, <1>3, <2>1, <2>2, RunIs
  <2> QED BY <2>2, <2>3 DEF Consecutive
<1>5. c = CHOOSE x \in container_for(cat, lsn) : TRUE
  BY <1>3 DEF container_for
<1>6. container_for(cat, lsn) # {} /\ ~(lsn >= to)
  BY <1>1, <1>3 DEF container_for
<1>7. ~(k > Len(c.entries))
  <2>1. Len(c.entries) \in Nat /\ c.base \in Nat
    BY <1>3, LenProperties DEF SegmentContainer
  <2> QED BY <1>1, <1>3, <2>1
<1> HIDE DEF run, k
<1>8. next(Later(lsn + Len(run), lsn + 1)) = lsn + Len(run)
  BY <1>1, <1>4 DEF Later
<1>9. ASSUME NEW g PROVE Turn(cat, fs, to, g, lsn) = run \o g[lsn + Len(run)]
  <2>1. Turn(cat, fs, to, g, lsn) = run \o g[next(Later(lsn + Len(run), lsn + 1))]
    BY <1>5, <1>6, <1>7, Zenon DEF Turn, run, k
  <2> QED BY <1>8, <2>1
<1> QED BY <1>4, <1>9 DEF Advances

\* The records of a range, one for each LSN.
Ranges(fs, to) ==
  [lsn \in 0..to |-> [j \in 1..(to - lsn) |-> CHOOSE r \in AllRecs(fs) : r.lsn = lsn + j - 1]]

\* They are what the loop computes.
LEMMA RangesSolve ==
  ASSUME NEW fs \in Seq(File), \A i \in DOMAIN fs : FileSound(fs[i]), NEW cat, NEW h \in Nat,
         Snapshot(cat, fs, h), \A q, r \in AllRecs(fs) : q.lsn = r.lsn => q = r, NEW to \in 0..h
  PROVE  Ranges(fs, to) = [lsn \in 0..to |-> Turn(cat, fs, to, Ranges(fs, to), lsn)]
<1> DEFINE at(l) == CHOOSE r \in AllRecs(fs) : r.lsn = l
           g == Ranges(fs, to)
<1>1. g = [lsn \in 0..to |-> [j \in 1..(to - lsn) |-> at(lsn + j - 1)]]
  BY DEF Ranges
<1>2. \A lsn \in Nat : lsn < to => at(lsn) \in AllRecs(fs) /\ at(lsn).lsn = lsn
  <2> SUFFICES ASSUME NEW lsn \in Nat, lsn < to PROVE \E r \in AllRecs(fs) : r.lsn = lsn
    OBVIOUS
  <2>1. PICK i \in Nat : Indexed(cat, fs, lsn, i)
    <3>1. lsn < h
      OBVIOUS
    <3> QED BY <3>1 DEF Snapshot
  <2> DEFINE k == lsn - ContainerOf(cat, i).base + 1
  <2>2. i \in DOMAIN fs /\ k \in 1..Len(fs[i].recs) /\ fs[i].recs[k].lsn = lsn
    BY <2>1 DEF Indexed, PointsAt
  <2> HIDE DEF k
  <2>3. fs[i].recs[k] \in AllRecs(fs)
    BY <2>2, RecordPlaces
  <2> QED BY <2>2, <2>3
<1>3. \A r \in AllRecs(fs) : r \in Record /\ r.lsn \in Nat
  <2>1. AllRecs(fs) \subseteq Record
    BY RecordPlaces
  <2> QED BY <2>1 DEF Record
<1> HIDE DEF g, at
<1>4. \A lsn \in 0..to : /\ g[lsn] = [j \in 1..(to - lsn) |-> at(lsn + j - 1)]
                         /\ g[lsn] \in Seq(Record) /\ Len(g[lsn]) = to - lsn
  <2> SUFFICES ASSUME NEW lsn \in 0..to
               PROVE  /\ g[lsn] = [j \in 1..(to - lsn) |-> at(lsn + j - 1)]
                      /\ g[lsn] \in Seq(Record) /\ Len(g[lsn]) = to - lsn
    OBVIOUS
  <2>1. g[lsn] = [j \in 1..(to - lsn) |-> at(lsn + j - 1)]
    BY <1>1
  <2>2. \A j \in 1..(to - lsn) : at(lsn + j - 1) \in Record
    <3>1. \A j \in 1..(to - lsn) : lsn + j - 1 \in Nat /\ lsn + j - 1 < to
      OBVIOUS
    <3> QED BY <1>2, <1>3, <3>1
  <2>3. to - lsn \in Nat
    OBVIOUS
  <2>4. g[lsn] \in [1..(to - lsn) -> Record]
    BY <2>1, <2>2
  <2>5. g[lsn] \in Seq(Record)
    BY <2>3, <2>4 DEF Seq
  <2> QED BY <2>1, <2>3, <2>4, <2>5, LenProperties
<1>5. ASSUME NEW lsn \in 0..to PROVE g[lsn] = Turn(cat, fs, to, g, lsn)
  <2>1. CASE lsn >= to
    <3>1. Turn(cat, fs, to, g, lsn) = <<>>
      BY <2>1 DEF Turn
    <3>2. to - lsn = 0
      BY <2>1
    <3>4. g[lsn] \in Seq(Record) /\ Len(g[lsn]) = to - lsn
      BY <1>4
    <3>3. g[lsn] = <<>>
      BY <3>2, <3>4, EmptySeq
    <3> QED BY <3>1, <3>3
  <2>2. CASE lsn < to
    <3>7. Advances(cat, fs, to, lsn)
      BY <2>2, TurnIs
    <3>1. PICK run \in Seq(Record) :
            /\ Len(run) \in 1..(to - lsn) /\ Consecutive(run, fs, lsn)
            /\ \A f : Turn(cat, fs, to, f, lsn) = run \o f[lsn + Len(run)]
      BY <3>7, Zenon DEF Advances
    <3> DEFINE n == Len(run)
               all == run \o g[lsn + n]
    <3>0. n \in 1..(to - lsn)
      BY <3>1
    <3>2. n \in Nat /\ n >= 1 /\ lsn + n \in 0..to /\ n <= to - lsn /\ to - lsn \in Nat
      <4> HIDE DEF n, all
      <4>1. lsn \in Nat /\ to \in Nat /\ lsn <= to
        OBVIOUS
      <4> QED BY <2>2, <3>0, <4>1
    <3>3. g[lsn + n] \in Seq(Record) /\ Len(g[lsn + n]) = to - (lsn + n)
          /\ g[lsn + n] = [j \in 1..(to - (lsn + n)) |-> at(lsn + n + j - 1)]
      BY <1>4, <3>2
    <3>4. all \in Seq(Record) /\ Len(all) = to - lsn
          /\ \A j \in 1..Len(all) : all[j] = IF j <= n THEN run[j] ELSE g[lsn + n][j - n]
      <4>1. all \in Seq(Record) /\ Len(all) = n + (to - (lsn + n))
            /\ \A j \in 1..Len(all) : all[j] = IF j <= n THEN run[j] ELSE g[lsn + n][j - n]
        BY <3>1, <3>3, ConcatProperties
      <4> HIDE DEF all, n
      <4> QED BY <3>2, <4>1
    <3> HIDE DEF all, n
    <3>5. ASSUME NEW j \in 1..(to - lsn) PROVE all[j] = g[lsn][j]
      <4>1. g[lsn][j] = at(lsn + j - 1) /\ lsn + j - 1 \in Nat /\ lsn + j - 1 < to
        <5>1. g[lsn] = [x \in 1..(to - lsn) |-> at(lsn + x - 1)]
          BY <1>4
        <5>2. lsn + j - 1 \in Nat /\ lsn + j - 1 < to
          OBVIOUS
        <5> QED BY <5>1, <5>2
      <4>2. CASE j <= n
        <5>1. j \in 1..n /\ all[j] = run[j]
          BY <3>2, <3>4, <4>2
        <5>2. run[j].lsn = lsn + j - 1 /\ run[j] \in AllRecs(fs)
          BY <3>1, <5>1 DEF Consecutive, n
        <5> QED BY <1>2, <4>1, <5>1, <5>2
      <4>3. CASE ~(j <= n)
        <5>1. j - n \in 1..(to - (lsn + n)) /\ lsn + n + (j - n) - 1 = lsn + j - 1
          BY <3>2, <4>3
        <5>2. all[j] = g[lsn + n][j - n]
          BY <3>4, <4>3
        <5> QED BY <3>3, <4>1, <5>1, <5>2
      <4> QED BY <4>2, <4>3
    <3>6. all = g[lsn]
      <4>1. g[lsn] \in Seq(Record) /\ Len(g[lsn]) = to - lsn
        BY <1>4
      <4>2. Len(all) = Len(g[lsn])
        BY <3>4, <4>1
      <4>3. \A j \in 1..Len(all) : all[j] = g[lsn][j]
        BY <3>4, <3>5
      <4> QED BY <3>4, <4>1, <4>2, <4>3, SeqEqual
    <3> QED BY <3>1, <3>6 DEF all, n
  <2> QED BY <2>1, <2>2
<1>6. g = [lsn \in 0..to |-> Turn(cat, fs, to, g, lsn)]
  <2>1. DOMAIN g = 0..to /\ g = [lsn \in 0..to |-> g[lsn]]
    BY <1>1
  <2> QED BY <1>5, <2>1
<1> QED BY <1>6 DEF g

\* scan_capped over an indexed snapshot: the range, record by record.
LEMMA ScanIs ==
  ASSUME NEW fs \in Seq(File), \A i \in DOMAIN fs : FileSound(fs[i]), NEW cat, NEW h \in Nat,
         Snapshot(cat, fs, h), \A q, r \in AllRecs(fs) : q.lsn = r.lsn => q = r,
         NEW to \in 0..h, NEW from \in 0..to
  PROVE  /\ Len(scan(cat, fs, from, to)) = to - from
         /\ \A i \in DOMAIN scan(cat, fs, from, to) : scan(cat, fs, from, to)[i].lsn = from + i - 1
<1> DEFINE go == CHOOSE g : g = [lsn \in 0..to |-> Turn(cat, fs, to, g, lsn)]
           out == scan(cat, fs, from, to)
           Bad == {d \in Nat : /\ d <= to
                               /\ ~(/\ go[to - d] \in Seq(Record) /\ Len(go[to - d]) = d
                                    /\ Consecutive(go[to - d], fs, to - d))}
<1>1. out = IF from >= to THEN <<>> ELSE go[from]
  BY Zenon DEF scan, Turn
<1>2. go = [lsn \in 0..to |-> Turn(cat, fs, to, go, lsn)]
  <2>1. \E g : g = [lsn \in 0..to |-> Turn(cat, fs, to, g, lsn)]
    <3>1. Ranges(fs, to) = [lsn \in 0..to |-> Turn(cat, fs, to, Ranges(fs, to), lsn)]
      BY RangesSolve
    <3> QED BY <3>1, Zenon
  <2> QED BY <2>1, Zenon
<1> HIDE DEF go, out
<1>3. \A lsn \in 0..to : go[lsn] = Turn(cat, fs, to, go, lsn)
  BY <1>2
<1>0. \A lsn \in 0..to : lsn < to => Advances(cat, fs, to, lsn)
  BY TurnIs
<1>4. Bad = {}
  <2> SUFFICES ASSUME Bad # {} PROVE FALSE
    OBVIOUS
  <2>1. PICK d \in Bad : \A e \in Bad : d <= e
    <3>1. Bad \subseteq Nat
      OBVIOUS
    <3> HIDE DEF Bad
    <3> QED BY <3>1, LeastNat
  <2> DEFINE lsn == to - d
  <2>2. d \in Nat /\ d <= to /\ lsn \in 0..to /\ to \in Nat /\ d = to - lsn
    OBVIOUS
  <2>3. ~(go[lsn] \in Seq(Record) /\ Len(go[lsn]) = d /\ Consecutive(go[lsn], fs, lsn))
    OBVIOUS
  <2> HIDE DEF lsn
  <2>4. CASE d = 0
    <3>1. lsn >= to
      BY <2>2, <2>4
    <3>2. go[lsn] = <<>>
      BY <1>3, <2>2, <3>1 DEF Turn
    <3>3. <<>> \in Seq(Record) /\ Len(<<>>) = 0
      OBVIOUS
    <3>4. Consecutive(<<>>, fs, lsn)
      BY DEF Consecutive
    <3> QED BY <2>3, <2>4, <3>2, <3>3, <3>4
  <2>5. CASE d # 0
    <3>1. lsn < to
      BY <2>2, <2>5
    <3>2. PICK run \in Seq(Record) :
            /\ Len(run) \in 1..(to - lsn) /\ Consecutive(run, fs, lsn)
            /\ \A f : Turn(cat, fs, to, f, lsn) = run \o f[lsn + Len(run)]
      BY <1>0, <2>2, <3>1, Zenon DEF Advances
    <3> DEFINE n == Len(run)
               rest == go[lsn + n]
    <3>3. n \in 1..(to - lsn)
      BY <3>2
    <3>4. go[lsn] = run \o rest
      BY <1>3, <2>2, <3>2
    <3>5. d - n \in Nat /\ d - n <= to /\ d - n < d /\ to - (d - n) = lsn + n /\ n \in Nat
      <4> HIDE DEF n
      <4> QED BY <2>2, <3>3
    <3>6. rest \in Seq(Record) /\ Len(rest) = d - n /\ Consecutive(rest, fs, lsn + n)
      <4>1. d - n \notin Bad
        <5> HIDE DEF n, Bad
        <5>1. ~(d <= d - n)
          BY <2>2, <3>5
        <5> QED BY <2>1, <5>1
      <4>2. go[to - (d - n)] \in Seq(Record) /\ Len(go[to - (d - n)]) = d - n
            /\ Consecutive(go[to - (d - n)], fs, to - (d - n))
        <5> HIDE DEF n
        <5> QED BY <3>5, <4>1
      <4> QED BY <3>5, <4>2
    <3>7. /\ run \o rest \in Seq(Record) /\ Len(run \o rest) = n + (d - n)
          /\ \A j \in 1..Len(run \o rest) :
               (run \o rest)[j] = IF j <= n THEN run[j] ELSE rest[j - n]
      BY <3>2, <3>6, ConcatProperties
    <3> HIDE DEF n, rest
    <3>8. Len(run \o rest) = d
      <4>1. d \in Nat /\ n \in Nat /\ n + (d - n) = d
        BY <2>2, <3>5
      <4> QED BY <3>7, <4>1
    <3>9. Consecutive(run \o rest, fs, lsn)
      <4> SUFFICES ASSUME NEW j \in 1..d
                   PROVE  /\ (run \o rest)[j].lsn = lsn + j - 1
                          /\ (run \o rest)[j] \in AllRecs(fs)
        BY <3>8 DEF Consecutive
      <4>1. CASE j <= n
        <5>0. j \in Nat /\ 1 <= j /\ j <= d /\ d \in Nat
          BY <2>2
        <5>1. j \in 1..n /\ j \in 1..Len(run \o rest)
          BY <3>5, <3>8, <4>1, <5>0
        <5>2. (run \o rest)[j] = run[j]
          BY <3>7, <4>1, <5>1, Zenon
        <5> QED BY <3>2, <5>1, <5>2 DEF Consecutive, n
      <4>2. CASE ~(j <= n)
        <5>1. j - n \in 1..(d - n) /\ (lsn + n) + (j - n) - 1 = lsn + j - 1
          BY <2>2, <3>5, <4>2
        <5>2. (run \o rest)[j] = rest[j - n]
          BY <3>7, <3>8, <4>2
        <5> QED BY <3>6, <5>1, <5>2 DEF Consecutive
      <4> QED BY <4>1, <4>2
    <3> QED BY <2>3, <3>4, <3>7, <3>8, <3>9
  <2> QED BY <2>4, <2>5
<1>5. from \in Nat /\ to \in Nat /\ to - from \in Nat /\ to - from <= to /\ to - (to - from) = from
  OBVIOUS
<1>6. CASE from >= to
  <2>1. out = <<>> /\ to - from = 0 /\ Len(<<>>) = 0 /\ DOMAIN <<>> = {}
    BY <1>1, <1>5, <1>6
  <2> QED BY <2>1 DEF out
<1>7. CASE ~(from >= to)
  <2>1. go[from] \in Seq(Record) /\ Len(go[from]) = to - from /\ Consecutive(go[from], fs, from)
    <3>1. to - from \notin Bad
      BY <1>4
    <3>2. go[to - (to - from)] \in Seq(Record) /\ Len(go[to - (to - from)]) = to - from
          /\ Consecutive(go[to - (to - from)], fs, to - (to - from))
      BY <1>5, <3>1
    <3> QED BY <1>5, <3>2
  <2>2. out = go[from] /\ DOMAIN go[from] = 1..(to - from)
    BY <1>1, <1>7, <2>1, LenProperties
  <2> QED BY <2>1, <2>2 DEF Consecutive, out
<1> QED BY <1>6, <1>7
-----------------------------------------------------------------------------
(* The current catalogue covers the head.                                    *)

\* No LSN is left out inside a file: its records follow one another from the
\* base of its container.
LEMMA FileDense ==
  ASSUME TypeInv, FilesSound, FileOrder, Closed(files), SealedShown, pc \notin {"closed", "refused"},
         NEW i \in 1..(active.seg + 1), NEW j \in 1..Len(files[i].recs)
  PROVE  Base(catalog, i) \in Nat /\ files[i].recs[j].lsn = Base(catalog, i) + j - 1
<1> DEFINE s == files[i].recs
           b == Base(catalog, i)
           Bad == {x \in 1..Len(s) : s[x].lsn # b + x - 1}
<1>1. /\ i \in DOMAIN files /\ files \in Seq(File) /\ FileSound(files[i]) /\ active.seg \in Nat
      /\ Len(catalog.sealed) = active.seg /\ DOMAIN files = 1..Len(files) /\ Len(files) \in Nat
  BY SealedSays, FilesAre DEF FilesSound
<1>2. /\ Len(s) \in Nat /\ \A x \in 1..Len(s) : s[x] \in Record /\ s[x].lsn \in Nat
                                                /\ s[x] \in AllRecs(files)
  <2>1. s \in Seq(Record) /\ Len(s) \in Nat /\ \A x \in 1..Len(s) : s[x] \in Record
    BY <1>1, FilesAre, FileRecs
  <2>2. \A x \in 1..Len(s) : s[x] \in AllRecs(files)
    BY <1>1, RecordPlaces
  <2> HIDE DEF s
  <2> QED BY <2>1, <2>2 DEF Record
<1>3. b \in Nat
  <2>1. /\ catalog.active \in SegmentContainer /\ catalog.sealed \in Seq(SegmentContainer)
    BY SealedSays
  <2>2. CASE i <= Len(catalog.sealed)
    <3>1. catalog.sealed[i] \in SegmentContainer
      BY <1>1, <2>1, <2>2, ElementOfSeq
    <3> QED BY <2>2, <3>1 DEF Base, SegmentContainer
  <2>3. CASE ~(i <= Len(catalog.sealed))
    BY <2>1, <2>3 DEF Base, SegmentContainer
  <2> QED BY <2>2, <2>3
<1>4. \A x, y \in 1..Len(s) : x < y => s[x].lsn < s[y].lsn
  BY <1>1 DEF FileSound
<1>5. \A x \in 1..Len(s) : b <= s[x].lsn
  BY <1>1 DEF SealedShown, BaseOrder
<1> HIDE DEF s, b
\* An LSN at or above the base and at or below a record of the file is in it.
<1>6. ASSUME NEW x \in 1..Len(s), NEW lsn \in Nat, b <= lsn, lsn <= s[x].lsn
      PROVE  \E y \in 1..Len(s) : s[y].lsn = lsn
  <2>1. PICK r \in AllRecs(files) : r.lsn = lsn
    BY <1>2, <1>6 DEF Closed, Has
  <2>2. PICK l \in DOMAIN files : \E y \in 1..Len(files[l].recs) : r = files[l].recs[y]
    BY <1>1, RecordPlaces
  <2>3. PICK y \in 1..Len(files[l].recs) : r = files[l].recs[y]
    BY <2>2
  <2>4. ~(l < i)
    <3> SUFFICES ASSUME l < i PROVE FALSE
      OBVIOUS
    <3>1. l \in 1..(active.seg + 1)
      BY <1>1
    <3>2. files[l].recs[y].lsn < Base(catalog, i)
      BY <1>1, <3>1 DEF SealedShown, BaseOrder
    <3> QED BY <1>3, <1>6, <2>1, <2>3, <3>2 DEF b
  <2>5. ~(i < l)
    <3> SUFFICES ASSUME i < l PROVE FALSE
      OBVIOUS
    <3>1. s[x].lsn < files[l].recs[y].lsn
      BY <1>1 DEF FileOrder, s
    <3> QED BY <1>2, <1>6, <2>1, <2>3, <3>1, SMTT(30)
  <2>6. l = i
    BY <1>1, <2>4, <2>5
  <2> QED BY <2>1, <2>3, <2>6 DEF s
<1>7. Bad = {}
  <2> SUFFICES ASSUME Bad # {} PROVE FALSE
    OBVIOUS
  <2>1. PICK x \in Bad : \A y \in Bad : x <= y
    <3>1. Bad \subseteq Nat
      BY <1>2
    <3> HIDE DEF Bad
    <3> QED BY <3>1, LeastNat
  <2>2. x \in 1..Len(s) /\ s[x].lsn # b + x - 1 /\ s[x].lsn \in Nat /\ x \in Nat
    BY <1>2
  <2>3. \A y \in 1..Len(s) : y < x => s[y].lsn = b + y - 1
    <3>1. \A y \in 1..Len(s) : y < x => y \notin Bad
      <4> HIDE DEF Bad
      <4> QED BY <1>2, <2>1, <2>2
    <3> QED BY <3>1
  <2> HIDE DEF Bad
  <2>4. b + x - 1 <= s[x].lsn
    <3>1. CASE x = 1
      BY <1>3, <1>5, <2>2, <3>1
    <3>2. CASE x # 1
      <4>1. x - 1 \in 1..Len(s) /\ x - 1 < x
        BY <1>2, <2>2, <3>2
      <4>2. s[x - 1].lsn = b + (x - 1) - 1 /\ s[x - 1].lsn < s[x].lsn
        BY <1>4, <2>2, <2>3, <4>1
      <4> QED BY <1>3, <2>2, <4>2
    <3> QED BY <3>1, <3>2
  <2>5. b + x - 1 \in Nat /\ b <= b + x - 1
    BY <1>3, <2>2
  <2>6. PICK y \in 1..Len(s) : s[y].lsn = b + x - 1
    BY <1>6, <2>2, <2>4, <2>5
  <2>7. y # x
    BY <2>2, <2>6
  <2>8. ~(y < x)
    <3> SUFFICES ASSUME y < x PROVE FALSE
      OBVIOUS
    <3>1. s[y].lsn = b + y - 1
      BY <2>3
    <3> QED BY <1>2, <1>3, <2>2, <2>6, <3>1
  <2>9. ~(x < y)
    <3> SUFFICES ASSUME x < y PROVE FALSE
      OBVIOUS
    <3>1. s[x].lsn < s[y].lsn
      BY <1>4, <2>2
    <3> QED BY <1>3, <2>2, <2>4, <2>6, <3>1
  <2> QED BY <1>2, <2>2, <2>7, <2>8, <2>9
<1>8. s[j].lsn = b + j - 1
  <2>1. j \in 1..Len(s)
    BY DEF s
  <2>2. j \notin Bad
    BY <1>7
  <2> QED BY <2>1, <2>2
<1> QED BY <1>3, <1>8 DEF s, b

\* The LSN of a record leads to the container of its file and to no other.
LEMMA ChosenIs ==
  ASSUME TypeInv, SealedShown, pc \notin {"closed", "refused"},
         NEW i \in 1..(active.seg + 1), NEW j \in 1..Len(files[i].recs)
  PROVE  ContainersFor(catalog, files[i].recs[j].lsn) = {ContainerOf(catalog, i)}
<1> DEFINE m == active.seg
           lsn == files[i].recs[j].lsn
<1>1. /\ m \in Nat /\ Len(catalog.sealed) = m /\ DOMAIN catalog.sealed = 1..m
      /\ catalog.sealed \in Seq(SegmentContainer) /\ catalog.active \in SegmentContainer
      /\ i \in DOMAIN files /\ files[i] \in File
  BY SealedSays
<1>2. Base(catalog, i) <= lsn /\ \A k \in 1..(m + 1) : i < k => lsn < Base(catalog, k)
  BY <1>1 DEF SealedShown, BaseOrder
<1>3. catalog.active.base \in Nat /\ \A k \in 1..m : catalog.sealed[k].base \in Nat
  <2>1. \A k \in 1..m : catalog.sealed[k] \in SegmentContainer
    BY <1>1, ElementOfSeq
  <2> QED BY <1>1, <2>1 DEF SegmentContainer
<1>4. /\ Base(catalog, m + 1) = catalog.active.base
      /\ \A k \in 1..m : Base(catalog, k) = catalog.sealed[k].base
  BY <1>1 DEF Base
<1>5. lsn \in Nat
  <2>1. files[i].recs[j] \in Record
    BY <1>1, FileRecs
  <2> QED BY <2>1 DEF Record
<1> HIDE DEF m, lsn
<1>6. CASE i = m + 1
  <2>1. lsn >= catalog.active.base /\ ContainerOf(catalog, i) = catalog.active
    BY <1>1, <1>2, <1>3, <1>4, <1>5, <1>6 DEF ContainerOf
  <2> QED BY <2>1 DEF ContainersFor, lsn
<1>7. CASE i # m + 1
  <2>1. i \in 1..m /\ i < m + 1 /\ m + 1 \in 1..(m + 1)
    BY <1>1, <1>7 DEF m
  <2>2. ~(lsn >= catalog.active.base)
    BY <1>2, <1>3, <1>4, <1>5, <2>1
  <2>3. \A k \in 1..m : catalog.sealed[k].base <= lsn => k <= i
    <3> SUFFICES ASSUME NEW k \in 1..m, i < k PROVE ~(catalog.sealed[k].base <= lsn)
      BY <1>1, <2>1
    <3>1. k \in 1..(m + 1)
      BY <1>1
    <3>2. lsn < catalog.sealed[k].base
      BY <1>2, <1>4, <3>1
    <3> QED BY <1>3, <1>5, <3>2
  <2>4. catalog.sealed[i].base <= lsn
    BY <1>2, <1>4, <2>1
  <2>5. SealedFor(catalog, lsn) = {i}
    <3>1. i \in SealedFor(catalog, lsn)
      BY <1>1, <2>1, <2>3, <2>4 DEF SealedFor
    <3>2. ASSUME NEW k \in SealedFor(catalog, lsn) PROVE k = i
      <4>1. k \in 1..m /\ k <= i /\ i <= k
        BY <1>1, <2>1, <2>3, <2>4 DEF SealedFor
      <4> QED BY <1>1, <2>1, <4>1
    <3> QED BY <3>1, <3>2
  <2>6. ContainerOf(catalog, i) = catalog.sealed[i]
    BY <1>1, <2>1 DEF ContainerOf
  <2> QED BY <2>2, <2>5, <2>6 DEF ContainersFor, lsn
<1> QED BY <1>6, <1>7

\* What a stopped worker left in the active container is, below the head, at
\* its place in the file.
DeadPointed ==
  pc = "dead" => \A k \in 1..Len(catalog.active.entries) :
    catalog.active.entries[k].lsn < committed_lsn =>
      k \in 1..Len(ActiveFile.recs) /\ PointsAt(catalog.active.entries[k], ActiveFile.recs[k])

\* The maximum that ends the scan of a sealed container is not short of it.
Reaches(c) == \A k \in 1..Len(c.entries) : c.entries[k].lsn <= c.max
MaxShown == \A i \in 1..Len(catalog.sealed) : Reaches(catalog.sealed[i])
ActiveMax == Running => \A j \in 1..Len(ActiveFile.recs) : ActiveFile.recs[j].lsn <= active.max

MarksInv == DeadPointed /\ MaxShown /\ ActiveMax

\* Below the head every entry of every container points at its place.
PointedBelow(cat, fs, h) ==
  \A i \in 1..(Len(cat.sealed) + 1) : \A k \in 1..Len(ContainerOf(cat, i).entries) :
    LET e == ContainerOf(cat, i).entries[k]
    IN  e.lsn < h => i \in DOMAIN fs /\ k \in 1..Len(fs[i].recs) /\ PointsAt(e, fs[i].recs[k])

LEMMA AllPointed ==
  ASSUME HeadInv, CatalogInv, DeadPointed, Opened
  PROVE  PointedBelow(catalog, files, committed_lsn)
<1> DEFINE m == active.seg
<1>1. /\ TypeInv /\ SealedShown /\ ActiveShown /\ pc \notin {"closed", "refused"}
  BY DEF HeadInv, CatalogInv, Opened
<1>2. /\ m \in Nat /\ Len(catalog.sealed) = m /\ \A i \in 1..(m + 1) : i \in DOMAIN files
      /\ catalog.active \in SegmentContainer /\ \A i \in 1..m : Indexes(catalog.sealed[i], files[i].recs)
      /\ ActiveFile = files[m + 1]
  BY <1>1, SealedSays DEF SealedShown, ActiveFile
<1>3. ASSUME NEW k \in 1..Len(catalog.active.entries),
             catalog.active.entries[k].lsn < committed_lsn
      PROVE  k \in 1..Len(ActiveFile.recs) /\ PointsAt(catalog.active.entries[k], ActiveFile.recs[k])
  <2>1. CASE pc = "dead"
    BY <1>3, <2>1 DEF DeadPointed
  <2>2. CASE Running /\ ~Unshown
    BY <1>1, <2>2 DEF ActiveShown, Indexes, Pointed
  <2>3. CASE Running /\ Unshown
    <3>1. WillIndex(catalog.active, ActiveFile.recs, stash, pending)
      BY <1>1, <2>3 DEF ActiveShown
    <3>2. /\ stash \in Seq(Update) /\ Len(stash) \in Nat /\ pending \in Nat /\ pending <= Len(stash)
          /\ Len(catalog.active.entries) \in Nat
      BY <1>1, <1>2, LenProperties
         DEF TypeInv, TypeOK, CallsType, WorkerType, WorkerShape, SegmentContainer
    <3>3. Len(catalog.active.entries) + (Len(stash) - pending) = Len(ActiveFile.recs)
          /\ Pointed(catalog.active, ActiveFile.recs, Len(catalog.active.entries))
      BY <3>1 DEF WillIndex
    <3>4. k \in 1..Len(ActiveFile.recs)
      BY <3>2, <3>3
    <3> QED BY <3>3, <3>4 DEF Pointed
  <2> QED BY <1>1, <2>1, <2>2, <2>3 DEF Running
<1>4. ASSUME NEW i \in 1..(m + 1), NEW k \in 1..Len(ContainerOf(catalog, i).entries),
             ContainerOf(catalog, i).entries[k].lsn < committed_lsn
      PROVE  /\ i \in DOMAIN files /\ k \in 1..Len(files[i].recs)
             /\ PointsAt(ContainerOf(catalog, i).entries[k], files[i].recs[k])
  <2>1. CASE i <= m
    <3>1. i \in 1..m /\ ContainerOf(catalog, i) = catalog.sealed[i]
      BY <1>2, <2>1 DEF ContainerOf
    <3> QED BY <1>2, <1>4, <3>1 DEF Indexes, Pointed
  <2>2. CASE ~(i <= m)
    <3>1. i = m + 1 /\ ContainerOf(catalog, i) = catalog.active
      BY <1>2, <2>2 DEF ContainerOf
    <3> QED BY <1>2, <1>3, <1>4, <3>1
  <2> QED BY <2>1, <2>2
<1> QED BY <1>2, <1>4 DEF PointedBelow

\* A catalogue has each LSN below h in the index of the container that a
\* lookup finds, at its place.
Listed(cat, lsn, i) ==
  LET c == ContainerOf(cat, i)
      k == lsn - c.base + 1
  IN  /\ c \in SegmentContainer /\ ContainersFor(cat, lsn) = {c} /\ c.seg = i - 1
      /\ k \in 1..Len(c.entries) /\ c.entries[k].lsn = lsn
      /\ c = cat.active \/ lsn <= c.max

Covers(cat, h) == \A lsn \in Nat : lsn < h => \E i \in 1..(Len(cat.sealed) + 1) : Listed(cat, lsn, i)

LEMMA CoversHead ==
  ASSUME ReadInv, MarksInv, Opened
  PROVE  Covers(catalog, committed_lsn)
<1> SUFFICES ASSUME NEW lsn \in Nat, lsn < committed_lsn
             PROVE  \E i \in 1..(Len(catalog.sealed) + 1) : Listed(catalog, lsn, i)
  BY DEF Covers
<1> DEFINE m == active.seg
           con(i) == ContainerOf(catalog, i)
<1>1. /\ HeadInv /\ TypeInv /\ DirInv /\ FilesSound /\ OrderInv /\ FileOrder /\ DeadTail
      /\ Closed(files) /\ CatalogInv /\ SealedShown /\ pc \notin {"closed", "refused"}
  BY DEF ReadInv, DurableInv, HeadInv, DirInv, OrderInv, Dense, CatalogInv, Opened
<1>2. /\ m \in Nat /\ Len(catalog.sealed) = m /\ files \in Seq(File)
      /\ DOMAIN files = 1..Len(files) /\ Len(files) \in Nat
      /\ catalog.active.seg = m
      /\ \A i \in 1..m : catalog.sealed[i].seg = i - 1
  BY <1>1, SealedSays, FilesAre DEF SealedShown
<1>3. \E r \in AllRecs(files) : r.lsn = lsn
  <2>1. CASE pc = "dead"
    BY <2>1 DEF ReadInv, OrderInv, Dense, Full, Has
  <2>2. CASE pc # "dead"
    <3>1. Running /\ Full(files, NextPlace) /\ committed_lsn \in Nat /\ current_lsn \in Nat
      BY <1>1, <2>2 DEF OrderInv, Dense, Running, TypeInv, TypeOK, CountersType
    <3>2. committed_lsn <= NextPlace
      <4>1. current_lsn = committed_lsn
        BY <1>1, <3>1 DEF HeadInv, HeadIsPublished, Running
      <4>2. InBatch => tentative_lsn = current_lsn + Len(stash) /\ Len(stash) \in Nat
        BY <1>1, LenProperties DEF HeadInv, StashDense, TypeInv, TypeOK, CallsType
      <4> QED BY <3>1, <4>1, <4>2 DEF NextPlace
    <3>3. NextPlace \in Nat
      BY <1>1 DEF NextPlace, TypeInv, TypeOK, CountersType
    <3>4. lsn < NextPlace
      BY <3>1, <3>2, <3>3
    <3> QED BY <3>1, <3>4 DEF Full, Has
  <2> QED BY <2>1, <2>2
<1>4. PICK r \in AllRecs(files) : r.lsn = lsn
  BY <1>3
<1>5. PICK i \in DOMAIN files : \E j \in 1..Len(files[i].recs) : r = files[i].recs[j]
  BY <1>2, RecordPlaces
<1>6. PICK j \in 1..Len(files[i].recs) : r = files[i].recs[j]
  BY <1>5
<1>7. i \in 1..(m + 1)
  <2> SUFFICES ASSUME i > m + 1 PROVE FALSE
    BY <1>2
  <2>1. files[i].recs = <<>> /\ Len(<<>>) = 0
    BY <1>1, TailIsActive
  <2> QED BY <1>6, <2>1
<1>8. files[i].recs[j].lsn = lsn /\ lsn = Base(catalog, i) + j - 1 /\ Base(catalog, i) \in Nat
  BY <1>1, <1>4, <1>6, <1>7, FileDense
<1>9. /\ con(i) \in SegmentContainer /\ con(i).seg + 1 = i
      /\ Locates(con(i), files[i].recs, committed_lsn)
  BY <1>1, <1>7, ContainersLocate
<1>10. ContainersFor(catalog, lsn) = {con(i)}
  BY <1>1, <1>7, <1>8, ChosenIs
<1>11. con(i).base = Base(catalog, i)
  BY DEF ContainerOf, Base
<1>12. PICK x \in 1..Len(con(i).entries) : PointsAt(con(i).entries[x], files[i].recs[j])
  BY <1>8, <1>9 DEF Locates
<1>13. con(i).entries[x].lsn = lsn
  BY <1>8, <1>12 DEF PointsAt
<1>14. x \in 1..Len(files[i].recs) /\ PointsAt(con(i).entries[x], files[i].recs[x])
  <2>1. PointedBelow(catalog, files, committed_lsn)
    BY <1>1, AllPointed DEF MarksInv
  <2> QED BY <1>2, <1>7, <1>13, <2>1 DEF PointedBelow
<1>15. x = j
  <2>1. files[i].recs[x].lsn = lsn
    BY <1>13, <1>14 DEF PointsAt
  <2>2. lsn = Base(catalog, i) + x - 1
    BY <1>1, <1>7, <1>14, <2>1, FileDense
  <2>3. x \in Nat /\ j \in Nat
    <3>1. Len(con(i).entries) \in Nat /\ Len(files[i].recs) \in Nat
      BY <1>1, <1>9, FilesAre, FileRecs, LenProperties DEF SegmentContainer
    <3> QED BY <3>1
  <2> QED BY <1>8, <2>2, <2>3
<1>16. con(i) = catalog.active \/ lsn <= con(i).max
  <2>1. CASE i <= m
    <3>1. i \in 1..m /\ con(i) = catalog.sealed[i]
      BY <1>2, <1>7, <2>1 DEF ContainerOf
    <3>2. Reaches(con(i))
      BY <1>2, <3>1 DEF MarksInv, MaxShown
    <3>3. con(i).entries[x].lsn <= con(i).max
      BY <1>12, <3>2 DEF Reaches
    <3> QED BY <1>13, <3>3
  <2>2. CASE ~(i <= m)
    BY <1>2, <2>2 DEF ContainerOf
  <2> QED BY <2>1, <2>2
<1>17. lsn - con(i).base + 1 = x /\ con(i).seg = i - 1
  <2>1. x \in Nat /\ con(i).seg \in Nat
    <3>1. Len(con(i).entries) \in Nat
      BY <1>9, LenProperties DEF SegmentContainer
    <3> QED BY <1>9, <3>1 DEF SegmentContainer
  <2>2. i \in Nat /\ con(i).seg + 1 = i
    BY <1>2, <1>9
  <2>3. lsn = con(i).base + x - 1 /\ con(i).base \in Nat
    BY <1>8, <1>11, <1>15, Zenon
  <2>4. lsn \in Nat
    OBVIOUS
  <2> HIDE DEF con
  <2>5. con(i).seg = i - 1
    BY <2>1, <2>2
  <2>6. lsn - con(i).base + 1 = x
    BY <2>1, <2>3, <2>4
  <2> QED BY <2>5, <2>6
<1>18. Listed(catalog, lsn, i)
  <2> HIDE DEF m
  <2>1. lsn - con(i).base + 1 \in 1..Len(con(i).entries)
        /\ con(i).entries[lsn - con(i).base + 1].lsn = lsn
    BY <1>12, <1>13, <1>17
  <2> QED BY <1>9, <1>10, <1>16, <1>17, <2>1 DEF Listed
<1> QED BY <1>2, <1>7, <1>18

\* What becomes of a catalogue while it is in use: more segments are sealed
\* behind it, and more entries follow those of its active segment.
Kept(old, new) ==
  LET n == Len(old.sealed)
      c == ContainerOf(new, n + 1)
  IN  /\ n <= Len(new.sealed) /\ \A i \in 1..n : new.sealed[i] = old.sealed[i]
      /\ c.seg = old.active.seg /\ c.base = old.active.base
      /\ Len(old.active.entries) <= Len(c.entries)
      /\ \A k \in 1..Len(old.active.entries) : c.entries[k] = old.active.entries[k]

LEMMA KeptSnapshot ==
  ASSUME NEW old \in Catalog, NEW new \in Catalog, NEW h \in Nat, NEW n \in Nat, h <= n, NEW fs,
         Covers(old, h), Kept(old, new), PointedBelow(new, fs, n)
  PROVE  Snapshot(old, fs, h)
<1> SUFFICES ASSUME NEW lsn \in Nat, lsn < h PROVE \E i \in Nat : Indexed(old, fs, lsn, i)
  BY DEF Snapshot
<1>1. PICK i \in 1..(Len(old.sealed) + 1) : Listed(old, lsn, i)
  BY DEF Covers
<1> DEFINE c == ContainerOf(old, i)
           k == lsn - c.base + 1
           d == ContainerOf(new, i)
<1>2. /\ c \in SegmentContainer /\ ContainersFor(old, lsn) = {c} /\ c.seg = i - 1
      /\ k \in 1..Len(c.entries) /\ c.entries[k].lsn = lsn
      /\ c = old.active \/ lsn <= c.max
  BY <1>1 DEF Listed
<1>3. Len(old.sealed) \in Nat /\ Len(new.sealed) \in Nat /\ Len(old.sealed) <= Len(new.sealed)
      /\ old.active \in SegmentContainer /\ new.active \in SegmentContainer
  BY LenProperties DEF Catalog, Kept
<1>4. k \in 1..Len(d.entries) /\ d.entries[k] = c.entries[k] /\ i \in 1..(Len(new.sealed) + 1)
  <2>1. CASE i <= Len(old.sealed)
    <3>1. i \in 1..Len(old.sealed) /\ i <= Len(new.sealed) /\ i \in 1..(Len(new.sealed) + 1)
      BY <1>3, <2>1
    <3>2. d = c
      BY <2>1, <3>1 DEF ContainerOf, Kept
    <3> QED BY <1>2, <3>1, <3>2
  <2>2. CASE ~(i <= Len(old.sealed))
    <3>1. i = Len(old.sealed) + 1 /\ c = old.active /\ i \in 1..(Len(new.sealed) + 1)
      BY <1>3, <2>2 DEF ContainerOf
    <3>2. Len(c.entries) <= Len(d.entries) /\ \A x \in 1..Len(c.entries) : d.entries[x] = c.entries[x]
      BY <3>1 DEF Kept
    <3>3. d \in SegmentContainer
      <4>1. CASE i <= Len(new.sealed)
        <5>1. new.sealed \in Seq(SegmentContainer) /\ i \in 1..Len(new.sealed)
          BY <1>3, <3>1, <4>1 DEF Catalog
        <5>2. new.sealed[i] \in SegmentContainer
          BY <5>1, ElementOfSeq
        <5> QED BY <4>1, <5>2 DEF ContainerOf
      <4>2. CASE ~(i <= Len(new.sealed))
        BY <1>3, <4>2 DEF ContainerOf
      <4> QED BY <4>1, <4>2
    <3>4. Len(c.entries) \in Nat /\ Len(d.entries) \in Nat
      BY <1>2, <3>3, LenProperties DEF SegmentContainer
    <3> HIDE DEF c, d, k
    <3> QED BY <1>2, <3>1, <3>2, <3>4
  <2> QED BY <2>1, <2>2
<1>5. /\ i \in DOMAIN fs /\ k \in 1..Len(fs[i].recs) /\ PointsAt(d.entries[k], fs[i].recs[k])
  <2>1. d.entries[k].lsn < n
    BY <1>2, <1>4
  <2> HIDE DEF k
  <2> QED BY <1>4, <2>1 DEF PointedBelow
<1>6. i \in Nat
  BY <1>3
<1>7. Indexed(old, fs, lsn, i)
  BY <1>2, <1>4, <1>5 DEF Indexed
<1> QED BY <1>6, <1>7
-----------------------------------------------------------------------------
(* The marks in every step.                                                 *)

\* What the worker counts of a file reaches its last record.
LEMMA MirrorsMax ==
  ASSUME NEW f \in File, FileSound(f), NEW a, NEW n, Mirrors(a, f, n), NEW j \in 1..Len(f.recs)
  PROVE  f.recs[j].lsn <= a.max
<1>1. /\ f.recs \in Seq(Record) /\ Len(f.recs) \in Nat
      /\ \A i \in 1..Len(f.recs) : f.recs[i] \in Record
  BY FileRecs
<1>2. \A i \in 1..Len(f.recs) : f.recs[i].lsn \in Nat
  BY <1>1 DEF Record
<1>3. Len(f.recs) \in 1..Len(f.recs) /\ f.recs # <<>>
  <2>1. Len(<<>>) = 0
    OBVIOUS
  <2> QED BY <1>1, <2>1
<1>4. a.max = f.recs[Len(f.recs)].lsn
  BY <1>3 DEF Mirrors, LastOf
<1>5. CASE j = Len(f.recs)
  BY <1>2, <1>4, <1>5
<1>6. CASE j # Len(f.recs)
  <2>1. j < Len(f.recs)
    BY <1>1, <1>6
  <2>2. f.recs[j].lsn < f.recs[Len(f.recs)].lsn
    BY <1>3, <2>1 DEF FileSound
  <2> QED BY <1>2, <1>3, <1>4, <2>2
<1> QED BY <1>5, <1>6

LEMMA NextActiveMax ==
  ASSUME HeadInv, DirInv, CommandsSound, SealInv, ActiveMax, [Next]_vars
  PROVE  ActiveMax'
<1>1. TypeInv /\ TypeInv' /\ DirInv' /\ SealInv'
  BY NextType, NextDir, NextSealed DEF HeadInv
<1> SUFFICES ASSUME Running', NEW j \in 1..Len(ActiveFile'.recs)
             PROVE  ActiveFile'.recs[j].lsn <= active'.max
  BY DEF ActiveMax
<1>2. CASE pc' \notin {"roll_create", "roll_header"}
  <2>1. Mirrors(active', ActiveFile', NextPlace')
    BY <1>1, <1>2 DEF SealInv, ActiveMirrors
  <2>2. active'.seg + 1 \in DOMAIN files' /\ files' \in Seq(File)
    BY <1>1 DEF TypeInv, TypeOK, DirectoryType, WorkerShape, Running
  <2>3. ActiveFile' \in File /\ FileSound(ActiveFile')
    BY <1>1, <2>2, ElementOfSeq, LenProperties DEF ActiveFile, DirInv, FilesSound
  <2> QED BY <2>1, <2>3, MirrorsMax
<1>3. CASE pc' \in {"roll_create", "roll_header"}
  <2>1. Running /\ active' = active /\ ActiveFile'.recs = ActiveFile.recs
    <3>1. CASE roll_seal
      BY <1>1, <3>1, RollSealFiles DEF ActiveFile
    <3>2. CASE roll_create
      BY <1>1, <3>2, RollCreateFiles DEF ActiveFile
    <3>3. CASE UNCHANGED <<files, active, pc>>
      BY <1>3, <3>3 DEF Running, ActiveFile
    <3>4. \/ \E c \in Clients, size \in Sizes, p \in PhysClock : append(c, size, p)
          \/ \E c \in Clients, k \in DOMAIN Leader : append_replicated(c, k)
          \/ \E c \in Clients : flush(c) \/ send_timeout(c)
          \/ UNCHANGED vars
          => UNCHANGED <<files, active, pc>>
      BY Zenon DEF append, append_replicated, flush, send_timeout, vars, worker
    <3>5. recv \/ write_flush \/ reject \/ place \/ fsync \/ publish \/ commit \/ ack \/ io_error
          => pc' \in {"write", "publish", "commit", "ack", "recv", "dead"}
      BY DEF recv, write_flush, reject, place, fsync, publish, commit, ack, io_error
    <3>6. (\E p \in PhysClock : roll_header(p) \/ open_header(p)) => pc' \in {"place", "recv"}
      BY DEF roll_header, open_header
    <3>7. open => pc' \in {"refused", "recv", "open_header"}
      BY Zenon DEF open
    <3>8. process_crash \/ power_loss => pc' = "closed"
      BY DEF process_crash, power_loss, Restart
    <3> QED BY <1>3, <3>1, <3>2, <3>3, <3>4, <3>5, <3>6, <3>7, <3>8 DEF Next, WorkerStep
  <2> QED BY <2>1 DEF ActiveMax
<1> QED BY <1>2, <1>3

LEMMA NextDeadPointed ==
  ASSUME HeadInv, DirInv, OrderInv, CatalogInv, DeadPointed, [Next]_vars
  PROVE  DeadPointed'
<1>1. TypeInv /\ TypeInv'
  BY NextType DEF HeadInv
<1> SUFFICES ASSUME pc' = "dead", NEW k \in 1..Len(catalog'.active.entries),
                    catalog'.active.entries[k].lsn < committed_lsn'
             PROVE  /\ k \in 1..Len(ActiveFile'.recs)
                    /\ PointsAt(catalog'.active.entries[k], ActiveFile'.recs[k])
  BY DEF DeadPointed
<1>2. CASE io_error
  <2> DEFINE m == active.seg
             e == catalog.active.entries[k]
  <2>1. /\ InBatch /\ Running /\ Opened /\ pc \notin {"closed", "refused"} /\ SealedShown
        /\ UNCHANGED <<catalog, committed_lsn>>
    BY <1>2 DEF io_error, Writing, InBatch, Running, Opened, CatalogInv
  <2>2. /\ m \in Nat /\ m + 1 \in DOMAIN files /\ Len(catalog.sealed) = m
        /\ ActiveFile = files[m + 1] /\ ContainerOf(catalog, m + 1) = catalog.active
        /\ m + 1 \in 1..(Len(catalog.sealed) + 1)
    <3>1. /\ m \in Nat /\ m + 1 \in DOMAIN files /\ Len(catalog.sealed) = m
      BY <1>1, <2>1, SealedSays
    <3>2. ~(m + 1 <= m) /\ m + 1 \in 1..(m + 1)
      BY <3>1
    <3> QED BY <3>1, <3>2 DEF ActiveFile, ContainerOf
  <2>3. active'.seg = m
    <3>1. active \in ActiveSegment
      BY <1>1 DEF TypeInv, TypeOK, WorkerType
    <3>2. \E x, y, z : active' = [active EXCEPT !.bytes = x, !.hashes = y, !.max = z]
      BY <1>2, Zenon DEF io_error
    <3> QED BY <3>1, <3>2 DEF ActiveSegment
  <2>4. PointedBelow(catalog, files, committed_lsn)
    BY <2>1, AllPointed
  <2>5. k \in 1..Len(ActiveFile.recs) /\ PointsAt(e, ActiveFile.recs[k])
    BY <2>1, <2>2, <2>4 DEF PointedBelow
  <2>6. PICK hs \in Seq(File), new \in NewFileImages : LostTo("io", hs, new)
    BY <1>1, <1>2, IoErrorLoss
  <2>7. \A j \in 1..Len(files[m + 1].recs) : files[m + 1].recs[j].lsn < current_lsn =>
          j \in 1..Len(files'[m + 1].recs) /\ files'[m + 1].recs[j] = files[m + 1].recs[j]
    BY <1>1, <2>1, <2>6, ActiveKeeps
  <2>8. current_lsn = committed_lsn
    BY <2>1 DEF HeadInv, HeadIsPublished, Running
  <2>9. ActiveFile.recs[k].lsn < current_lsn
    BY <2>1, <2>5, <2>8 DEF PointsAt
  <2>10. ActiveFile' = files'[m + 1]
    BY <2>3 DEF ActiveFile
  <2> HIDE DEF m
  <2> QED BY <2>1, <2>2, <2>5, <2>7, <2>9, <2>10
<1>3. CASE ~io_error
  <2>1. UNCHANGED <<files, active, pc, catalog, committed_lsn>>
    <3>1. \/ \E c \in Clients, size \in Sizes, p \in PhysClock : append(c, size, p)
          \/ \E c \in Clients, j \in DOMAIN Leader : append_replicated(c, j)
          \/ \E c \in Clients : flush(c) \/ send_timeout(c)
          \/ UNCHANGED vars
          => UNCHANGED <<files, active, pc, catalog, committed_lsn>>
      BY Zenon DEF append, append_replicated, flush, send_timeout, vars, worker
    <3>2. WorkerStep => pc' # "dead"
      BY DEF WorkerStep, recv, write_flush, reject, place, roll_seal, roll_create, roll_header,
         fsync, publish, commit, ack
    <3>3. open => pc' \in {"refused", "recv", "open_header"}
      BY Zenon DEF open
    <3>4. process_crash \/ power_loss \/ (\E p \in PhysClock : open_header(p))
          => pc' \in {"closed", "recv"}
      BY DEF process_crash, power_loss, Restart, open_header
    <3> QED BY <1>3, <3>1, <3>2, <3>3, <3>4 DEF Next
  <2> QED BY <2>1 DEF DeadPointed, ActiveFile
<1> QED BY <1>2, <1>3

\* Only a roll and open change the sealed containers, while the log is open.
LEMMA CatalogStep ==
  ASSUME TypeInv, [Next]_vars, ~open, ~process_crash, ~power_loss
  PROVE  \/ catalog' = catalog
         \/ (publish \/ roll_seal) /\ catalog' = publish_active /\ catalog'.sealed = catalog.sealed
         \/ \E p \in PhysClock : roll_header(p)
<1>1. CASE publish \/ roll_seal
  <2>1. catalog' = publish_active /\ catalog \in Catalog
    BY <1>1 DEF publish, roll_seal, TypeInv, TypeOK, DirectoryType
  <2>2. publish_active.sealed = catalog.sealed
    <3>1. \E x : publish_active = [catalog EXCEPT !.active = x] \/ publish_active = catalog
      BY Zenon DEF publish_active
    <3> QED BY <2>1, <3>1 DEF Catalog
  <2> QED BY <1>1, <2>1, <2>2
<1>2. CASE \/ \E c \in Clients, size \in Sizes, p \in PhysClock : append(c, size, p)
           \/ \E c \in Clients, j \in DOMAIN Leader : append_replicated(c, j)
           \/ \E c \in Clients : flush(c) \/ send_timeout(c)
           \/ UNCHANGED vars
  BY <1>2, Zenon DEF append, append_replicated, flush, send_timeout, vars
<1>3. CASE recv \/ write_flush \/ reject \/ place \/ roll_create \/ fsync \/ commit \/ ack \/ io_error
  BY <1>3 DEF recv, write_flush, reject, place, roll_create, fsync, commit, ack, io_error
<1>4. CASE \E p \in PhysClock : open_header(p)
  BY <1>4 DEF open_header
<1> QED BY <1>1, <1>2, <1>3, <1>4 DEF Next, WorkerStep

\* What a roll makes of the catalogue.
LEMMA RolledIs ==
  ASSUME HeadInv, CatalogInv, NEW p \in PhysClock, roll_header(p)
  PROVE  LET full == Container(active.seg, active.base, active.max, catalog.active.entries)
         IN  /\ full \in SegmentContainer /\ catalog'.sealed = Append(catalog.sealed, full)
             /\ full.seg = catalog.active.seg /\ full.base = catalog.active.base
             /\ full.max = active.max /\ full.entries = catalog.active.entries
             /\ Indexes(catalog.active, ActiveFile.recs) /\ Running
             /\ pc \notin {"closed", "refused"}
<1> DEFINE full == Container(active.seg, active.base, active.max, catalog.active.entries)
<1>1. /\ TypeInv /\ SealedShown /\ ActiveShown /\ pc = "roll_header" /\ Running
      /\ pc \notin {"closed", "refused"}
  BY DEF HeadInv, CatalogInv, roll_header, Running
<1>2. catalog.active \in SegmentContainer
  BY <1>1, SealedSays
<1>3. catalog'.sealed = Append(catalog.sealed, full)
  BY DEF roll_header
<1>4. full \in SegmentContainer
  BY <1>1, <1>2 DEF Container, SegmentContainer, TypeInv, TypeOK, WorkerType, ActiveSegment
<1>5. /\ full.seg = catalog.active.seg /\ full.base = catalog.active.base
      /\ full.max = active.max /\ full.entries = catalog.active.entries
  BY <1>1 DEF Container, SealedShown
<1>6. Indexes(catalog.active, ActiveFile.recs)
  <2>1. WillIndex(catalog.active, ActiveFile.recs, stash, Len(stash))
    BY <1>1 DEF ActiveShown, Unshown
  <2>2. Len(stash) \in Nat
    BY <1>1, LenProperties DEF TypeInv, TypeOK, CallsType
  <2> QED BY <1>2, <2>1, <2>2, WillNone
<1> QED BY <1>1, <1>3, <1>4, <1>5, <1>6

\* What open makes of a file is not short of it.
LEMMA ScannedReaches ==
  ASSUME TypeInv, FilesSound, NEW i \in DOMAIN files
  PROVE  Reaches(SealedContainer(Scans, i))
<1> DEFINE c == SealedContainer(Scans, i)
           s == files[i].recs
<1>1. files[i] \in File /\ FileSound(files[i]) /\ s \in Seq(Record) /\ Len(s) \in Nat
      /\ DOMAIN s = 1..Len(s) /\ \A j \in 1..Len(s) : s[j] \in Record
  BY FilesAre, FileRecs DEF FilesSound
<1>2. Scans[i].recs = s
  BY <1>1, ScanSound DEF Scans
<1>3. c.entries = IndexOf(s)
  BY SealedIs
<1>4. /\ Len(c.entries) = Len(s)
      /\ \A k \in 1..Len(s) : c.entries[k].lsn = s[k].lsn
  BY <1>1, <1>3, IndexedFile DEF Indexes, Pointed, PointsAt
<1>5. s # <<>> => c.max = s[Len(s)].lsn
  BY <1>2 DEF SealedContainer, Container, LastOf
<1>6. ASSUME NEW k \in 1..Len(s) PROVE s[k].lsn <= c.max
  <2>1. Len(s) \in 1..Len(s) /\ s # <<>>
    <3>1. Len(<<>>) = 0
      OBVIOUS
    <3> QED BY <1>1, <3>1
  <2>2. s[k].lsn \in Nat /\ s[Len(s)].lsn \in Nat
    <3>1. s[k] \in Record /\ s[Len(s)] \in Record
      BY <1>1, <2>1
    <3> QED BY <3>1 DEF Record
  <2>3. k = Len(s) \/ k < Len(s)
    BY <1>1
  <2>4. k < Len(s) => s[k].lsn < s[Len(s)].lsn
    BY <1>1, <2>1 DEF FileSound
  <2> HIDE DEF s, c
  <2> QED BY <1>5, <2>1, <2>2, <2>3, <2>4
<1> QED BY <1>4, <1>6 DEF Reaches

LEMMA NextMaxShown ==
  ASSUME HeadInv, DirInv, CatalogInv, ActiveMax, MaxShown, [Next]_vars
  PROVE  MaxShown'
<1>1. /\ TypeInv /\ TypeInv' /\ FilesSound /\ catalog.sealed \in Seq(SegmentContainer)
      /\ Len(catalog.sealed) \in Nat
  BY NextType, LenProperties DEF HeadInv, DirInv, TypeInv, TypeOK, DirectoryType, Catalog
<1>2. CASE open
  <2>1. CASE pc' = "refused"
    <3>1. catalog' = catalog
      BY <1>2, <2>1, Zenon DEF open
    <3> QED BY <3>1 DEF MaxShown
  <2>2. CASE ~open_refuses(Scans)
    <3> DEFINE m == IF KeepsTail THEN Len(files) - 1 ELSE Len(files)
               cons == [i \in 1..m |-> SealedContainer(Scans, i)]
    <3>1. catalog'.sealed \in SortedByBase(cons)
      BY <1>1, <1>2, <2>2, OpenCatalog
    <3>2. \A i \in 1..m : i \in DOMAIN files
      <4>1. Len(files) \in Nat /\ DOMAIN files = 1..Len(files)
        BY <1>1, FilesAre
      <4> QED BY <4>1
    <3>3. \A i \in 1..m : Reaches(cons[i])
      <4>1. \A i \in 1..m : Reaches(SealedContainer(Scans, i))
        BY <1>1, <3>2, ScannedReaches
      <4> QED BY <4>1
    <3>4. DOMAIN cons = 1..m
      OBVIOUS
    <3> HIDE DEF cons, m
    <3>5. PICK perm \in [DOMAIN cons -> DOMAIN cons] :
            catalog'.sealed = [k \in DOMAIN cons |-> cons[perm[k]]]
      BY <3>1 DEF SortedByBase
    <3>6. DOMAIN catalog'.sealed = 1..Len(catalog'.sealed)
      BY <1>1, LenProperties DEF TypeInv, TypeOK, DirectoryType, Catalog
    <3>7. \A k \in 1..Len(catalog'.sealed) : Reaches(catalog'.sealed[k])
      BY <3>3, <3>4, <3>5, <3>6
    <3> QED BY <3>7 DEF MaxShown, Reaches
  <2> QED BY <1>1, <1>2, <2>1, <2>2, OpenFiles
<1>3. CASE process_crash \/ power_loss
  <2>1. catalog' = NoCatalog
    BY <1>3 DEF process_crash, power_loss, Restart
  <2>2. Len(catalog'.sealed) = 0
    BY <2>1 DEF NoCatalog
  <2> QED BY <2>2 DEF MaxShown
<1>4. ASSUME NEW p \in PhysClock, roll_header(p)
      PROVE  MaxShown'
  <2> DEFINE full == Container(active.seg, active.base, active.max, catalog.active.entries)
  <2>1. /\ full \in SegmentContainer /\ catalog'.sealed = Append(catalog.sealed, full)
        /\ full.max = active.max /\ full.entries = catalog.active.entries
        /\ Indexes(catalog.active, ActiveFile.recs) /\ Running
    BY <1>4, RolledIs
  <2> HIDE DEF full
  <2>2. Reaches(full)
    <3>1. \A k \in 1..Len(full.entries) : full.entries[k].lsn = ActiveFile.recs[k].lsn
                                          /\ k \in 1..Len(ActiveFile.recs)
      BY <2>1 DEF Indexes, Pointed, PointsAt
    <3> QED BY <2>1, <3>1 DEF Reaches, ActiveMax
  <2>3. /\ Len(catalog'.sealed) = Len(catalog.sealed) + 1
        /\ catalog'.sealed[Len(catalog.sealed) + 1] = full
        /\ \A i \in 1..Len(catalog.sealed) : catalog'.sealed[i] = catalog.sealed[i]
    BY <1>1, <2>1, AppendProperties
  <2>4. ASSUME NEW i \in 1..Len(catalog'.sealed) PROVE Reaches(catalog'.sealed[i])
    <3>1. i \in 1..Len(catalog.sealed) \/ i = Len(catalog.sealed) + 1
      BY <1>1, <2>3
    <3> QED BY <2>2, <2>3, <3>1 DEF MaxShown
  <2> QED BY <2>4 DEF MaxShown, Reaches
<1>5. CASE catalog'.sealed = catalog.sealed
  BY <1>5 DEF MaxShown, Reaches
<1> QED BY <1>1, <1>2, <1>3, <1>4, <1>5, CatalogStep

-----------------------------------------------------------------------------
(* A catalogue in use.                                                       *)

LEMMA KeptSame ==
  ASSUME NEW cat \in Catalog
  PROVE  Kept(cat, cat)
<1>1. Len(cat.sealed) \in Nat /\ cat.active \in SegmentContainer
  BY LenProperties DEF Catalog
<1>2. ContainerOf(cat, Len(cat.sealed) + 1) = cat.active
  <2>1. ~(Len(cat.sealed) + 1 <= Len(cat.sealed))
    BY <1>1
  <2> QED BY <2>1 DEF ContainerOf
<1>3. Len(cat.active.entries) \in Nat
  BY <1>1, LenProperties DEF SegmentContainer
<1>4. Len(cat.sealed) <= Len(cat.sealed) /\ Len(cat.active.entries) <= Len(cat.active.entries)
  BY <1>1, <1>3
<1> QED BY <1>2, <1>4 DEF Kept

LEMMA KeptLonger ==
  ASSUME NEW a \in Catalog, NEW b \in Catalog, NEW c \in Catalog, Kept(a, b), Kept(b, c)
  PROVE  Kept(a, c)
<1> DEFINE n == Len(a.sealed)
           m == Len(b.sealed)
           x == ContainerOf(b, n + 1)
           y == ContainerOf(c, n + 1)
<1>1. n \in Nat /\ m \in Nat /\ Len(c.sealed) \in Nat /\ n <= m /\ m <= Len(c.sealed)
  BY LenProperties DEF Catalog, Kept
<1>2. /\ x.seg = a.active.seg /\ x.base = a.active.base
      /\ Len(a.active.entries) <= Len(x.entries)
      /\ \A k \in 1..Len(a.active.entries) : x.entries[k] = a.active.entries[k]
  BY DEF Kept
<1>3. /\ y.seg = x.seg /\ y.base = x.base /\ Len(x.entries) <= Len(y.entries)
      /\ \A k \in 1..Len(x.entries) : y.entries[k] = x.entries[k]
  <2>1. CASE n < m
    <3>1. n + 1 \in 1..m /\ n + 1 <= m /\ n + 1 <= Len(c.sealed)
      BY <1>1, <2>1
    <3>2. x = b.sealed[n + 1] /\ y = c.sealed[n + 1] /\ x = y
      BY <3>1 DEF ContainerOf, Kept
    <3>3. x \in SegmentContainer
      <4>1. b.sealed \in Seq(SegmentContainer)
        BY DEF Catalog
      <4> QED BY <3>1, <3>2, <4>1, ElementOfSeq
    <3>4. Len(x.entries) \in Nat
      BY <3>3, LenProperties DEF SegmentContainer
    <3> HIDE DEF x, y
    <3>5. Len(x.entries) <= Len(x.entries)
      BY <3>4
    <3> QED BY <3>2, <3>5
  <2>2. CASE ~(n < m)
    <3>1. n = m /\ ~(n + 1 <= m)
      BY <1>1, <2>2
    <3>2. x = b.active /\ y = ContainerOf(c, m + 1)
      BY <3>1 DEF ContainerOf
    <3> QED BY <3>2 DEF Kept
  <2> QED BY <2>1, <2>2
<1>4. \A i \in 1..n : c.sealed[i] = a.sealed[i]
  <2>1. \A i \in 1..n : i \in 1..m
    BY <1>1
  <2> QED BY <2>1 DEF Kept
<1>5. Len(a.active.entries) \in Nat /\ Len(x.entries) \in Nat /\ Len(y.entries) \in Nat
  <2>1. /\ \A i \in 1..m : b.sealed[i] \in SegmentContainer
        /\ \A i \in 1..Len(c.sealed) : c.sealed[i] \in SegmentContainer
        /\ a.active \in SegmentContainer /\ b.active \in SegmentContainer
        /\ c.active \in SegmentContainer
    <3>1. b.sealed \in Seq(SegmentContainer) /\ c.sealed \in Seq(SegmentContainer)
          /\ a.active \in SegmentContainer /\ b.active \in SegmentContainer
          /\ c.active \in SegmentContainer
      BY DEF Catalog
    <3> QED BY <3>1, ElementOfSeq
  <2>2. n + 1 <= m => n + 1 \in 1..m
    BY <1>1
  <2>3. n + 1 <= Len(c.sealed) => n + 1 \in 1..Len(c.sealed)
    BY <1>1
  <2>4. x \in SegmentContainer /\ y \in SegmentContainer
    BY <2>1, <2>2, <2>3 DEF ContainerOf
  <2> HIDE DEF x, y
  <2> QED BY <2>1, <2>4, LenProperties DEF SegmentContainer
<1> HIDE DEF x
<1>6. /\ n <= Len(c.sealed) /\ Len(a.active.entries) <= Len(y.entries)
      /\ \A k \in 1..Len(a.active.entries) : k \in 1..Len(x.entries)
  <2> HIDE DEF n, m, y
  <2> QED BY <1>1, <1>2, <1>3, <1>5
<1> QED BY <1>2, <1>3, <1>4, <1>6 DEF Kept

\* The entries that a publication adds follow those that are there.
LEMMA PublishKeeps ==
  ASSUME TypeInv
  PROVE  Kept(catalog, publish_active)
<1> DEFINE old == catalog.active.entries
           new == IndexOf(Unindexed)
           d == publish_active
<1>1. /\ catalog \in Catalog /\ catalog.active \in SegmentContainer /\ old \in Seq(Entry)
      /\ Len(old) \in Nat /\ Len(catalog.sealed) \in Nat
      /\ stash \in Seq(Update) /\ Len(stash) \in Nat /\ pending \in Nat
  BY LenProperties
     DEF TypeInv, TypeOK, DirectoryType, CallsType, WorkerType, Catalog, SegmentContainer
<1>2. CASE pending < Len(stash)
  <2>1. d = [catalog EXCEPT !.active = Extended(@)]
    BY <1>2 DEF publish_active
  <2>2. d.sealed = catalog.sealed /\ d.active = Extended(catalog.active)
    BY <1>1, <2>1 DEF Catalog
  <2>3. /\ d.active.seg = catalog.active.seg /\ d.active.base = catalog.active.base
        /\ d.active.entries = old \o new
    BY <1>1, <2>2 DEF Extended, SegmentContainer
  <2>4. new \in Seq(Entry)
    <3>1. pending + 1 \in 1..(Len(stash) + 1) /\ Len(stash) \in 0..Len(stash)
      BY <1>1, <1>2
    <3>2. Unindexed \in Seq(Update)
      BY <1>1, <3>1, SubSeqProperties DEF Unindexed
    <3>3. \A u \in Update : u.lsn \in Nat /\ u.off \in Nat
      BY DEF Update
    <3> QED BY <3>2, <3>3, IndexType
  <2> HIDE DEF old, new, d
  <2>5. /\ Len(old) <= Len(old \o new)
        /\ \A k \in 1..Len(old) : (old \o new)[k] = old[k]
    <3>1. /\ Len(old \o new) = Len(old) + Len(new)
          /\ \A j \in 1..(Len(old) + Len(new)) :
               (old \o new)[j] = IF j <= Len(old) THEN old[j] ELSE new[j - Len(old)]
      BY <1>1, <2>4, ConcatProperties
    <3>2. Len(new) \in Nat
      BY <2>4, LenProperties
    <3>3. \A k \in 1..Len(old) : k \in 1..(Len(old) + Len(new)) /\ k <= Len(old)
      BY <1>1, <3>2
    <3> QED BY <1>1, <3>1, <3>2, <3>3
  <2>6. ContainerOf(d, Len(catalog.sealed) + 1) = d.active
    <3>1. ~(Len(catalog.sealed) + 1 <= Len(catalog.sealed))
      BY <1>1
    <3> QED BY <2>2, <3>1 DEF ContainerOf
  <2>7. Len(catalog.sealed) <= Len(d.sealed)
    BY <1>1, <2>2
  <2> QED BY <2>2, <2>3, <2>5, <2>6, <2>7 DEF Kept, old, d
<1>3. CASE ~(pending < Len(stash))
  BY <1>1, <1>3, KeptSame DEF publish_active
<1> QED BY <1>2, <1>3

\* A roll seals what was active as it was.
LEMMA RollKeeps ==
  ASSUME HeadInv, CatalogInv, NEW p \in PhysClock, roll_header(p)
  PROVE  Kept(catalog, catalog')
<1> DEFINE full == Container(active.seg, active.base, active.max, catalog.active.entries)
           n == Len(catalog.sealed)
<1>1. /\ full \in SegmentContainer /\ catalog'.sealed = Append(catalog.sealed, full)
      /\ full.seg = catalog.active.seg /\ full.base = catalog.active.base
      /\ full.entries = catalog.active.entries
  BY RolledIs
<1> HIDE DEF full
<1>2. /\ catalog.sealed \in Seq(SegmentContainer) /\ n \in Nat
      /\ catalog.active \in SegmentContainer
  BY LenProperties DEF HeadInv, TypeInv, TypeOK, DirectoryType, Catalog
<1>3. /\ Len(catalog'.sealed) = n + 1 /\ catalog'.sealed[n + 1] = full
      /\ \A i \in 1..n : catalog'.sealed[i] = catalog.sealed[i]
  BY <1>1, <1>2, AppendProperties
<1>4. n <= n + 1 /\ n + 1 <= n + 1 /\ Len(full.entries) <= Len(full.entries)
  <2>1. Len(full.entries) \in Nat
    BY <1>1, LenProperties DEF SegmentContainer
  <2> QED BY <1>2, <2>1
<1>5. ContainerOf(catalog', n + 1) = full
  BY <1>3, <1>4 DEF ContainerOf
<1> QED BY <1>1, <1>3, <1>4, <1>5 DEF Kept

LEMMA NextKeeps ==
  ASSUME HeadInv, CatalogInv, [Next]_vars, Opened, Opened'
  PROVE  Kept(catalog, catalog')
<1>1. TypeInv /\ catalog \in Catalog
  BY DEF HeadInv, TypeInv, TypeOK, DirectoryType
<1>2. ~open /\ ~process_crash /\ ~power_loss
  BY DEF open, process_crash, power_loss, Restart, Opened
<1>3. CASE catalog' = catalog
  BY <1>1, <1>3, KeptSame
<1>4. CASE catalog' = publish_active
  BY <1>1, <1>4, PublishKeeps
<1>5. ASSUME NEW p \in PhysClock, roll_header(p) PROVE Kept(catalog, catalog')
  BY <1>5, RollKeeps
<1> QED BY <1>1, <1>2, <1>3, <1>4, <1>5, CatalogStep
-----------------------------------------------------------------------------
(* The reader.                                                               *)

\* The log with what a reader relies on.
LogInv == ReadInv /\ SealInv /\ MarksInv

\* What the reader has loaded is of the log that is open, and still in use.
ReaderInv ==
  /\ rd \in [call : {"none", "scan", "scan_loaded", "manifest", "manifest_done"}, head : Nat,
             cat : Catalog]
  /\ rd.call # "none" => Opened
  /\ rd.call \in {"scan", "scan_loaded"} => rd.head <= committed_lsn
  /\ rd.call = "scan_loaded" => Covers(rd.cat, rd.head) /\ Kept(rd.cat, catalog)

LEMMA InitLog == Init => LogInv
<1> SUFFICES ASSUME Init PROVE LogInv
  OBVIOUS
<1>1. ReadInv
  BY InitReads
<1>2. SealInv
  BY InitSealed
<1>3. MarksInv
  <2>1. pc = "closed" /\ catalog = NoCatalog
    BY DEF Init
  <2>2. Len(catalog.sealed) = 0
    BY <2>1 DEF NoCatalog
  <2> QED BY <2>1, <2>2 DEF MarksInv, DeadPointed, MaxShown, ActiveMax, Running
<1> QED BY <1>1, <1>2, <1>3 DEF LogInv

LEMMA NextLog ==
  ASSUME ~EmptyFileSurvives, LogInv, [Next]_vars
  PROVE  LogInv'
<1>1. /\ ReadInv /\ HeadInv /\ DirInv /\ CommandsSound /\ OrderInv /\ CatalogInv /\ SealInv
      /\ DeadPointed /\ MaxShown /\ ActiveMax
  BY DEF LogInv, MarksInv, ReadInv, DurableInv
<1>2. ReadInv'
  BY <1>1, NextReads
<1>3. SealInv'
  BY <1>1, NextSealed
<1>4. MarksInv'
  BY <1>1, NextDeadPointed, NextMaxShown, NextActiveMax DEF MarksInv
<1> QED BY <1>2, <1>3, <1>4 DEF LogInv

\* Only a crash closes the log.
LEMMA StaysOpen ==
  ASSUME TypeInv, [Next]_vars, Opened, crashes' = crashes
  PROVE  Opened'
<1>1. ~open /\ ~process_crash /\ ~power_loss
  <2>1. crashes \in Nat
    BY DEF TypeInv, TypeOK, CountersType
  <2>2. crashes + 1 # crashes
    BY <2>1
  <2> QED BY <2>2 DEF open, process_crash, power_loss, Restart, Opened
<1>2. \/ \E c \in Clients, size \in Sizes, p \in PhysClock : append(c, size, p)
      \/ \E c \in Clients, j \in DOMAIN Leader : append_replicated(c, j)
      \/ \E c \in Clients : flush(c) \/ send_timeout(c)
      \/ UNCHANGED vars
      => UNCHANGED pc
  BY Zenon DEF append, append_replicated, flush, send_timeout, vars, worker
<1>3. WorkerStep => Opened'
  BY DEF WorkerStep, recv, write_flush, reject, place, roll_seal, roll_create, roll_header,
     fsync, publish, commit, ack, Opened
<1>4. (\E p \in PhysClock : open_header(p)) \/ io_error => Opened'
  BY DEF open_header, io_error, Opened
<1> QED BY <1>1, <1>2, <1>3, <1>4 DEF Next, Opened

LEMMA CoversLess ==
  ASSUME NEW cat, NEW n \in Nat, NEW h \in Nat, h <= n, Covers(cat, n)
  PROVE  Covers(cat, h)
<1>1. \A lsn \in Nat : lsn < h => lsn < n
  OBVIOUS
<1> QED BY <1>1 DEF Covers

LEMMA NextReader ==
  ASSUME LogInv, LogInv', ReaderInv, [RNext]_rvars
  PROVE  ReaderInv'
<1>1. /\ ReadInv /\ MarksInv /\ HeadInv /\ TypeInv /\ CatalogInv /\ committed_lsn \in Nat
      /\ catalog \in Catalog /\ catalog' \in Catalog /\ committed_lsn' \in Nat
  BY DEF LogInv, ReadInv, DurableInv, HeadInv, TypeInv, TypeOK, DirectoryType, CountersType
<1>2. PICK r \in [call : {"none", "scan", "scan_loaded", "manifest", "manifest_done"}, head : Nat,
                  cat : Catalog] : rd = r
  BY DEF ReaderInv
<1>3. /\ r.call # "none" => Opened
      /\ r.call \in {"scan", "scan_loaded"} => r.head <= committed_lsn
      /\ r.call = "scan_loaded" => Covers(r.cat, r.head) /\ Kept(r.cat, catalog)
      /\ r.head \in Nat /\ r.cat \in Catalog
  BY <1>2 DEF ReaderInv
<1>4. ASSUME rd' = Idle PROVE ReaderInv'
  <2>1. NoCatalog \in Catalog
    <3>1. NoContainer \in SegmentContainer
      BY DEF NoContainer, SegmentContainer
    <3> QED BY <3>1 DEF NoCatalog, Catalog
  <2>2. /\ rd' \in [call : {"none", "scan", "scan_loaded", "manifest", "manifest_done"},
                    head : Nat, cat : Catalog]
        /\ rd'.call = "none"
    BY <1>4, <2>1 DEF Idle
  <2> QED BY <2>2 DEF ReaderInv
<1>5. ASSUME rd' = rd, [Next]_vars, crashes' = crashes PROVE ReaderInv'
  <2>1. r.call # "none" => Opened /\ Opened' /\ committed_lsn <= committed_lsn'
                           /\ Kept(catalog, catalog')
    <3>1. r.call # "none" => Opened /\ Opened'
      BY <1>1, <1>3, <1>5, StaysOpen
    <3>2. Opened /\ Opened' => committed_lsn <= committed_lsn'
      <4> SUFFICES ASSUME Opened, Opened' PROVE committed_lsn <= committed_lsn'
        OBVIOUS
      <4>1. committed_lsn' >= committed_lsn
        BY <1>1, <1>5, HeadsGrow
      <4> QED BY <1>1, <4>1
    <3>3. Opened /\ Opened' => Kept(catalog, catalog')
      BY <1>1, <1>5, NextKeeps
    <3> QED BY <3>1, <3>2, <3>3
  <2>2. r.call \in {"scan", "scan_loaded"} => r.head <= committed_lsn'
    BY <1>1, <1>3, <2>1
  <2>3. r.call = "scan_loaded" => Kept(r.cat, catalog')
    BY <1>1, <1>3, <2>1, KeptLonger
  <2> QED BY <1>2, <1>3, <1>5, <2>1, <2>2, <2>3 DEF ReaderInv
<1>6. CASE Next /\ rd' = IF crashes' = crashes THEN rd ELSE Idle
  BY <1>4, <1>5, <1>6
<1>7. CASE UNCHANGED rvars
  BY <1>5, <1>7 DEF rvars, vars, bounds
<1>8. CASE load_head
  <2>1. /\ Opened /\ r.call \in {"none", "manifest"} /\ UNCHANGED vars
        /\ rd' = IF r.call = "none" THEN [r EXCEPT !.call = "scan", !.head = committed_lsn]
                 ELSE [r EXCEPT !.call = "manifest_done", !.head = committed_lsn]
    BY <1>2, <1>8 DEF load_head
  <2>2. /\ Opened' /\ committed_lsn' = committed_lsn
    BY <2>1 DEF Opened, vars, worker
  <2>3. /\ rd' \in [call : {"none", "scan", "scan_loaded", "manifest", "manifest_done"},
                    head : Nat, cat : Catalog]
        /\ rd'.head = committed_lsn /\ rd'.call \in {"scan", "manifest_done"}
    BY <1>1, <2>1
  <2>4. rd'.head <= committed_lsn'
    BY <1>1, <2>2, <2>3
  <2> QED BY <2>2, <2>3, <2>4 DEF ReaderInv
<1>9. CASE load_catalog
  <2>1. /\ Opened /\ r.call \in {"none", "scan"} /\ UNCHANGED vars
        /\ rd' = IF r.call = "none" THEN [r EXCEPT !.call = "manifest", !.cat = catalog]
                 ELSE [r EXCEPT !.call = "scan_loaded", !.cat = catalog]
    BY <1>2, <1>9 DEF load_catalog
  <2>2. /\ Opened' /\ committed_lsn' = committed_lsn /\ catalog' = catalog
    BY <2>1 DEF Opened, vars, worker
  <2>3. /\ rd' \in [call : {"none", "scan", "scan_loaded", "manifest", "manifest_done"},
                    head : Nat, cat : Catalog]
        /\ rd'.cat = catalog /\ rd'.head = r.head
        /\ r.call = "none" => rd'.call = "manifest"
        /\ r.call = "scan" => rd'.call = "scan_loaded"
    BY <1>1, <2>1
  <2>4. r.call = "scan" => Covers(catalog, r.head)
    BY <1>1, <1>3, <2>1, CoversHead, CoversLess
  <2>5. Kept(catalog, catalog)
    BY <1>1, KeptSame
  <2> QED BY <1>3, <2>1, <2>2, <2>3, <2>4, <2>5 DEF ReaderInv
<1>10. CASE done
  BY <1>4, <1>10 DEF done
<1> QED BY <1>6, <1>7, <1>8, <1>9, <1>10 DEF RNext

LEMMA ScansAreExact ==
  ASSUME LogInv, ReaderInv
  PROVE  ScanExact
<1> SUFFICES ASSUME rd.call = "scan_loaded", NEW from \in 0..rd.head, NEW to \in from..rd.head
             PROVE  LET out == scan(rd.cat, files, from, to)
                    IN  /\ Len(out) = to - from
                        /\ \A i \in DOMAIN out : out[i].lsn = from + i - 1
  BY DEF ScanExact
<1>1. /\ ReadInv /\ DeadPointed /\ HeadInv /\ TypeInv /\ CatalogInv /\ FilesSound /\ FileOrder
      /\ committed_lsn \in Nat /\ catalog \in Catalog /\ files \in Seq(File)
  BY DEF LogInv, MarksInv, ReadInv, DurableInv, OrderInv, DirInv, HeadInv, TypeInv, TypeOK,
     DirectoryType, CountersType
<1>2. /\ Opened /\ rd.head \in Nat /\ rd.cat \in Catalog /\ rd.head <= committed_lsn
      /\ Covers(rd.cat, rd.head) /\ Kept(rd.cat, catalog)
  BY DEF ReaderInv
<1>3. PointedBelow(catalog, files, committed_lsn)
  BY <1>1, <1>2, AllPointed
<1>4. Snapshot(rd.cat, files, rd.head)
  BY <1>1, <1>2, <1>3, KeptSnapshot
<1>5. \A q, r \in AllRecs(files) : q.lsn = r.lsn => q = r
  BY <1>1, UniqueLsns
<1>6. \A i \in DOMAIN files : FileSound(files[i])
  BY <1>1 DEF FilesSound
<1>7. to \in 0..rd.head /\ from \in 0..to
  BY <1>2
<1> DEFINE out == scan(rd.cat, files, from, to)
<1>8. Len(out) = to - from /\ \A i \in DOMAIN out : out[i].lsn = from + i - 1
  <2>1. files \in Seq(File) /\ rd.head \in Nat
    BY <1>1, <1>2
  <2> HIDE DEF LogInv, ReaderInv
  <2> QED BY <1>4, <1>5, <1>6, <1>7, <2>1, ScanIs
<1> HIDE DEF out
<1> QED BY <1>8 DEF out

\* Both ways to read agree with the log.  A scan over any range below the head
\* returns every record of it once, in LSN order, whatever rolls, commits,
\* failures and rollbacks came between the two loads and the reading, and
\* whichever of them a read by LSN meets it finds its record (lib.rs Log::read
\* and scan_capped beside the worker).  A file left with no byte is excluded,
\* as for the reads.
THEOREM ReadersAreExact ==
  ASSUME ~EmptyFileSurvives
  PROVE  RSpec => []ReadersExact
<1>1. RInit => LogInv /\ ReaderInv
  <2> SUFFICES ASSUME RInit PROVE LogInv /\ ReaderInv
    OBVIOUS
  <2>1. LogInv
    BY InitLog DEF RInit
  <2>2. NoCatalog \in Catalog
    <3>1. NoContainer \in SegmentContainer
      BY DEF NoContainer, SegmentContainer
    <3> QED BY <3>1 DEF NoCatalog, Catalog
  <2>3. /\ rd \in [call : {"none", "scan", "scan_loaded", "manifest", "manifest_done"},
                   head : Nat, cat : Catalog]
        /\ rd.call = "none"
    BY <2>2 DEF RInit, Idle
  <2> QED BY <2>1, <2>3 DEF ReaderInv
<1>2. LogInv /\ ReaderInv /\ [RNext]_rvars => LogInv' /\ ReaderInv'
  <2> SUFFICES ASSUME LogInv, ReaderInv, [RNext]_rvars PROVE LogInv' /\ ReaderInv'
    OBVIOUS
  <2>1. [Next]_vars
    BY DEF RNext, rvars, load_head, load_catalog, done
  <2>2. LogInv'
    BY <2>1, NextLog
  <2> QED BY <2>2, NextReader
<1>3. LogInv /\ ReaderInv => ReadersExact
  <2> SUFFICES ASSUME LogInv, ReaderInv PROVE CommittedReadable /\ ScanExact
    BY DEF ReadersExact
  <2>1. CommittedReadable
    BY CommittedAreRead DEF LogInv
  <2> QED BY <2>1, ScansAreExact
<1> QED BY <1>1, <1>2, <1>3, PTL DEF RSpec

=============================================================================
