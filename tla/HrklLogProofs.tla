---------------------------- MODULE HrklLogProofs ----------------------------
(***************************************************************************)
(* Theorems about HrklLog, for every value of its constants: its types, the *)
(* head, and what it keeps on disk: where records come from, and which of   *)
(* them no crash, no failed write and no recovery takes away; and what it   *)
(* finds again after a crash: the head covers only what is fsynced, every   *)
(* footer describes its file, open never refuses, and stamps grow with      *)
(* LSNs.                                                                    *)
(***************************************************************************)
EXTENDS HrklLog, NatLemmas

-----------------------------------------------------------------------------
(* What the operators of the recovery return.                              *)

Scan == [recs : Seq(Record), sealed : BOOLEAN, corrupt : BOOLEAN, ver : {"cur", "old"},
         valid_len : Nat]

\* The last element of a non-empty sequence is one of its elements.
LEMMA LastType ==
  ASSUME NEW S, NEW s \in Seq(S), s # <<>>
  PROVE  LastOf(s) \in S
BY DEF LastOf

\* The records of a sequence of record sequences are finitely many, and each
\* is a Record.
LEMMA UnionOfRecs ==
  ASSUME NEW n \in Nat, NEW f \in [1..n -> Seq(Record)]
  PROVE  /\ IsFiniteSet(UNION {{f[i][k] : k \in DOMAIN f[i]} : i \in 1..n})
         /\ UNION {{f[i][k] : k \in DOMAIN f[i]} : i \in 1..n} \subseteq Record
<1> DEFINE g == [i \in 1..n |-> {f[i][k] : k \in DOMAIN f[i]}]
           parts == {g[i] : i \in 1..n}
<1>1. IsFiniteSet(parts)
  <2>1. DOMAIN g = 1..n /\ g = [i \in DOMAIN g |-> g[i]]
    OBVIOUS
  <2> HIDE DEF g
  <2> QED BY <2>1, FiniteRange
<1>2. \A p \in parts : IsFiniteSet(p) /\ p \subseteq Record
  <2>1. \A i \in 1..n : IsFiniteSet({f[i][k] : k \in DOMAIN f[i]})
    BY FiniteSeqRange
  <2>2. \A i \in 1..n : {f[i][k] : k \in DOMAIN f[i]} \subseteq Record
    BY LenProperties, ElementOfSeq
  <2> QED BY <2>1, <2>2
<1>3. UNION parts = UNION {{f[i][k] : k \in DOMAIN f[i]} : i \in 1..n}
  OBVIOUS
<1>4. IsFiniteSet(UNION parts) /\ UNION parts \subseteq Record
  <2> HIDE DEF parts
  <2> QED BY <1>1, <1>2, FS_UNION
<1> QED BY <1>3, <1>4

\* NextLsn of finitely many records is a natural number, and there is one.
LEMMA NextLsnType ==
  ASSUME NEW recs, IsFiniteSet(recs), recs \subseteq Record
  PROVE  NextLsn(recs) \subseteq Nat /\ NextLsn(recs) # {}
<1>1. NextLsn(recs) \subseteq Nat
  BY DEF NextLsn, Record
<1>2. CASE recs = {}
  BY <1>2 DEF NextLsn
<1>3. CASE recs # {}
  <2> DEFINE f == [r \in recs |-> r.lsn]
             lsns == {r.lsn : r \in recs}
  <2>1. f \in Surjection(recs, lsns)
    BY DEF Surjection
  <2>2. IsFiniteSet(lsns)
    BY <2>1, FS_Surjection
  <2>3. lsns \subseteq Nat /\ lsns # {}
    BY <1>3 DEF Record
  <2>4. PICK x \in lsns : \A y \in lsns : y <= x
    <3> HIDE DEF lsns
    <3> QED BY <2>2, <2>3, FiniteMax
  <2>5. PICK r0 \in recs : r0.lsn = x
    OBVIOUS
  <2>6. \A r \in recs : r.lsn \in Nat /\ r.lsn <= x
    BY <2>4 DEF Record
  <2>7. r0.lsn + 1 \in NextLsn(recs)
    BY <2>5, <2>6 DEF NextLsn, Record
  <2> QED BY <2>7, <1>1
<1> QED BY <1>1, <1>2, <1>3

\* The leaves of records are leaves.
LEMMA LeavesType ==
  ASSUME NEW recs \in Seq(Record)
  PROVE  Leaves(recs) \in Seq(Leaf)
<1>1. Len(recs) \in Nat /\ DOMAIN recs = 1..Len(recs)
  BY LenProperties
<1>2. \A i \in 1..Len(recs) : record_leaf(recs[i]) \in Leaf
  <2>1. \A i \in 1..Len(recs) : recs[i] \in Record
    BY ElementOfSeq
  <2> QED BY <2>1 DEF Record, Leaf, record_leaf
<1>3. Leaves(recs) \in [1..Len(recs) -> Leaf]
  BY <1>1, <1>2 DEF Leaves
<1> QED BY <1>1, <1>3 DEF Seq

\* GoodLen is the length of a prefix.
LEMMA GoodLenType ==
  ASSUME NEW recs \in Seq(Record)
  PROVE  GoodLen(recs) \in 0..Len(recs)
<1> DEFINE G == {n \in 0..Len(recs) : Increasing(recs, n)}
<1>1. Len(recs) \in Nat
  BY LenProperties
<1>2. 0 \in G
  BY <1>1 DEF Increasing
<1>3. IsFiniteSet(G) /\ G \subseteq Nat
  <2>1. IsFiniteSet(0..Len(recs)) /\ G \in SUBSET (0..Len(recs))
    BY <1>1, FS_Interval
  <2> QED BY <2>1, <1>1, FS_Subset
<1>4. \E n \in G : \A m \in G : m <= n
  <2> HIDE DEF G
  <2> QED BY <1>2, <1>3, FiniteMax
<1>5. \E n \in 0..Len(recs) :
        Increasing(recs, n) /\ \A m \in 0..Len(recs) : Increasing(recs, m) => m <= n
  BY <1>4
<1> QED BY <1>5 DEF GoodLen

\* A scan has the type of one.
LEMMA ScanType ==
  ASSUME NEW f \in File
  PROVE  /\ scan_segment_file(f) \in Scan
         /\ Len(scan_segment_file(f).recs) <= Len(f.recs)
<1> DEFINE recs == SubSeq(f.recs, 1, GoodLen(f.recs))
<1>1. f.recs \in Seq(Record)
  BY DEF File
<1>2. recs \in Seq(Record) /\ Len(recs) <= Len(f.recs) /\ Len(recs) \in Nat
  BY <1>1, GoodLenType, PrefixType, LenProperties
<1>3. f.ver \in {"cur", "old"}
  BY DEF File
<1> HIDE DEF recs
<1>4. recs # <<>> => LastOf(recs).off + LastOf(recs).size \in Nat
  <2> SUFFICES ASSUME recs # <<>> PROVE LastOf(recs).off + LastOf(recs).size \in Nat
    OBVIOUS
  <2>1. LastOf(recs) \in Record
    BY <1>2, LastType
  <2> QED BY <2>1 DEF Record
<1>5. scan_segment_file(f).recs = recs
  BY DEF scan_segment_file, recs
<1>6. scan_segment_file(f) \in Scan
  <2>1. scan_segment_file(f).sealed \in BOOLEAN /\ scan_segment_file(f).corrupt \in BOOLEAN
    BY DEF scan_segment_file, FooterOK, File
  <2> QED BY <1>2, <1>3, <1>4 DEF scan_segment_file, recs, Scan, HeaderLen, FooterOK
<1> QED BY <1>2, <1>5, <1>6

\* What open does to a file leaves a file.
LEMMA RepairType ==
  ASSUME NEW f \in File, NEW scan \in Scan
  PROVE  execute_physical_repair(f, scan) \in File
<1>1. Len(f.recs) \in Nat /\ Len(scan.recs) \in Nat /\ scan.recs \in Seq(Record)
  BY LenProperties DEF File, Scan
<1>2. CASE scan.sealed
  BY <1>1, <1>2 DEF execute_physical_repair, File
<1>3. CASE ~scan.sealed
  BY <1>1, <1>3 DEF execute_physical_repair, File, Scan
<1> QED BY <1>2, <1>3

LEMMA SealType ==
  ASSUME NEW f \in File, NEW scan \in Scan
  PROVE  seal_file(f, scan) \in File
<1>1. /\ Len(f.recs) \in Nat /\ Len(scan.recs) \in Nat /\ scan.recs \in Seq(Record)
      /\ \A i \in DOMAIN scan.recs : scan.recs[i] \in Record
  BY LenProperties, ElementOfSeq DEF File, Scan
<1>2. Leaves(scan.recs) \in Seq(Leaf)
  BY LeavesType, <1>1
<1>3. scan.recs # <<>> => LastOf(scan.recs) \in Record /\ scan.recs[1] \in Record
  BY <1>1, LastType
<1> DEFINE foot == [count |-> Len(scan.recs),
                    min |-> IF scan.recs = <<>> THEN 0 ELSE scan.recs[1].lsn,
                    max |-> IF scan.recs = <<>> THEN 0 ELSE LastOf(scan.recs).lsn,
                    root |-> merkle_root(Leaves(scan.recs))]
<1>4. foot \in Footer
  BY <1>1, <1>2, <1>3 DEF Footer, merkle_root, Record
<1>5. seal_file(f, scan) = [f EXCEPT !.dur = Len(f.recs), !.fdur = TRUE, !.foot = foot]
  BY DEF seal_file
<1> HIDE DEF foot
<1> QED BY <1>1, <1>4, <1>5 DEF File

LEMMA RollbackType ==
  ASSUME NEW f \in File, baseline \in Baseline
  PROVE  rollback_active_file(f) \in File
<1> DEFINE keep == {i \in DOMAIN f.recs : f.recs[i].off < baseline.bytes}
           n == Cardinality(keep)
<1>1. f.recs \in Seq(Record) /\ Len(f.recs) \in Nat /\ DOMAIN f.recs = 1..Len(f.recs)
  BY LenProperties DEF File
<1>2. IsFiniteSet(1..Len(f.recs)) /\ Cardinality(1..Len(f.recs)) = Len(f.recs)
  BY <1>1, IntervalCardinality
<1>3. keep \subseteq 1..Len(f.recs)
  BY <1>1
<1>4. n \in 0..Len(f.recs)
  <2> HIDE DEF keep
  <2>1. IsFiniteSet(keep) /\ Cardinality(keep) <= Cardinality(1..Len(f.recs))
    BY <1>2, <1>3, FS_Subset
  <2>2. Cardinality(keep) \in Nat
    BY <2>1, FS_CardinalityType
  <2> QED BY <2>1, <2>2, <1>2, <1>1
<1> HIDE DEF n
<1>5. SubSeq(f.recs, 1, n) \in Seq(Record)
  BY <1>1, <1>4, PrefixType
<1>6. rollback_active_file(f) =
        [f EXCEPT !.recs = SubSeq(@, 1, n), !.foot = NoFooter, !.torn = FALSE,
                  !.dur = IF n < @ THEN n ELSE @, !.fdur = FALSE]
  BY DEF rollback_active_file, n
<1>7. n \in Nat /\ (IF n < f.dur THEN n ELSE f.dur) \in Nat
  BY <1>1, <1>4 DEF File
<1> DEFINE recs == SubSeq(f.recs, 1, n)
<1> HIDE DEF recs
<1>8. rollback_active_file(f) =
        [ver |-> f.ver, hdr |-> f.hdr, recs |-> recs, foot |-> NoFooter, torn |-> FALSE,
         dur |-> IF n < f.dur THEN n ELSE f.dur, fdur |-> FALSE]
  BY <1>6 DEF File, recs
<1>9. recs \in Seq(Record)
  BY <1>5 DEF recs
<1> QED BY <1>7, <1>8, <1>9 DEF File

\* Where the next byte goes is a length.
LEMMA PhysLenType ==
  ASSUME NEW f \in File
  PROVE  PhysLen(f) \in Nat
<1>1. f.recs \in Seq(Record)
  BY DEF File
<1>2. CASE f.recs # <<>>
  <2>1. LastOf(f.recs) \in Record
    BY <1>1, <1>2, LastType
  <2> QED BY <1>2, <2>1 DEF PhysLen, Record
<1>3. CASE f.recs = <<>>
  BY <1>3 DEF PhysLen, HeaderLen
<1> QED BY <1>2, <1>3

\* The index of records is a sequence of entries.
LEMMA IndexType ==
  ASSUME NEW S, NEW upd \in Seq(S), \A u \in S : u.lsn \in Nat /\ u.off \in Nat
  PROVE  IndexOf(upd) \in Seq(Entry)
<1>1. Len(upd) \in Nat /\ DOMAIN upd = 1..Len(upd)
  BY LenProperties
<1>2. \A j \in 1..Len(upd) : upd[j] \in S
  BY ElementOfSeq
<1>3. IndexOf(upd) \in [1..Len(upd) -> Entry]
  BY <1>1, <1>2 DEF IndexOf, Entry
<1> QED BY <1>1, <1>3, SMTT(30) DEF Seq

\* The container open makes for a sealed segment.
LEMMA SealedContainerType ==
  ASSUME NEW n \in Nat, NEW scans, DOMAIN scans = 1..n, \A i \in 1..n : scans[i] \in Scan,
         NEW i \in 1..n
  PROVE  SealedContainer(scans, i) \in SegmentContainer
<1>1. \A j \in 1..n : scans[j].recs \in Seq(Record)
  BY DEF Scan
<1>2. BaseOf(scans, i) \subseteq Nat /\ BaseOf(scans, i) # {}
  <2>1. CASE scans[i].recs # <<>>
    <3>1. scans[i].recs[1] \in Record
      BY <1>1, <2>1
    <3> QED BY <3>1, <2>1 DEF BaseOf, Record
  <2>2. CASE scans[i].recs = <<>>
    <3> DEFINE f == [j \in 1..i |-> scans[j].recs]
               recs == UNION {{f[j][k] : k \in DOMAIN f[j]} : j \in 1..i}
    <3>1. i \in Nat /\ f \in [1..i -> Seq(Record)]
      BY <1>1
    <3>2. recs = UNION {{scans[j].recs[k] : k \in DOMAIN scans[j].recs} : j \in 1..i}
      OBVIOUS
    <3> HIDE DEF f
    <3>3. IsFiniteSet(recs) /\ recs \subseteq Record
      BY <3>1, UnionOfRecs, Zenon
    <3>4. BaseOf(scans, i) = NextLsn(recs)
      BY <2>2, <3>2 DEF BaseOf
    <3> HIDE DEF recs
    <3> QED BY <3>3, <3>4, NextLsnType
  <2> QED BY <2>1, <2>2
<1> DEFINE base == CHOOSE b \in BaseOf(scans, i) : TRUE
<1>3. base \in Nat
  BY <1>2
<1>4. (IF scans[i].recs = <<>> THEN base ELSE LastOf(scans[i].recs).lsn) \in Nat
  <2>1. CASE scans[i].recs # <<>>
    <3>1. LastOf(scans[i].recs) \in Record
      BY <1>1, <2>1, LastType
    <3> QED BY <3>1, <2>1 DEF Record
  <2> QED BY <1>3, <2>1
<1>5. IndexOf(scans[i].recs) \in Seq(Entry)
  <2>1. \A u \in Record : u.lsn \in Nat /\ u.off \in Nat
    BY DEF Record
  <2> QED BY <1>1, <2>1, IndexType
<1>6. i - 1 \in Nat
  OBVIOUS
<1> HIDE DEF base
<1>7. SealedContainer(scans, i) =
        Container(i - 1, base, IF scans[i].recs = <<>> THEN base ELSE LastOf(scans[i].recs).lsn,
                  IndexOf(scans[i].recs))
  BY DEF SealedContainer, base
<1> QED BY <1>3, <1>4, <1>5, <1>6, <1>7 DEF Container, SegmentContainer

\* Sorting containers gives containers.
LEMMA SortedType ==
  ASSUME NEW s \in Seq(SegmentContainer)
  PROVE  SortedByBase(s) \subseteq Seq(SegmentContainer)
<1> SUFFICES ASSUME NEW t \in SortedByBase(s) PROVE t \in Seq(SegmentContainer)
  OBVIOUS
<1>1. Len(s) \in Nat /\ DOMAIN s = 1..Len(s) /\ \A i \in DOMAIN s : s[i] \in SegmentContainer
  BY LenProperties, ElementOfSeq
<1>2. PICK q \in [DOMAIN s -> DOMAIN s] : t = [k \in DOMAIN s |-> s[q[k]]]
  BY DEF SortedByBase
<1>3. t \in [1..Len(s) -> SegmentContainer]
  BY <1>1, <1>2
<1> QED BY <1>1, <1>3 DEF Seq

\* What a power loss leaves of a file is a file, and of a directory a directory.
LEMMA SurvivingType ==
  ASSUME NEW fs \in Seq(File)
  PROVE  SurvivingDirs(fs) \subseteq Seq(File)
<1>1. Len(fs) \in Nat /\ DOMAIN fs = 1..Len(fs) /\ \A i \in DOMAIN fs : fs[i] \in File
  BY LenProperties, ElementOfSeq
<1>2. ASSUME NEW f \in File PROVE SurvivingImages(f) \subseteq File
  <2>1. f.recs \in Seq(Record) /\ Len(f.recs) \in Nat /\ f.dur \in Nat
    BY LenProperties DEF File
  <2>2. \A n \in f.dur..Len(f.recs) : n \in Nat /\ SubSeq(f.recs, 1, n) \in Seq(Record)
    BY <2>1, PrefixType
  <2>3. \A n \in f.dur..Len(f.recs), half \in BOOLEAN : CutAt(f, n, half) \in File
    BY <2>2 DEF CutAt, File
  <2>4. [f EXCEPT !.dur = Len(f.recs), !.fdur = TRUE] \in File
    BY <2>1 DEF File
  <2> QED BY <2>3, <2>4 DEF SurvivingImages
<1> SUFFICES ASSUME NEW d \in SurvivingDirs(fs) PROVE d \in Seq(File)
  OBVIOUS
<1> DEFINE risky == {i \in DOMAIN fs : AtRisk(fs[i])}
<1>3. PICK g : /\ \A i \in risky : g[i] \in SurvivingImages(fs[i])
               /\ d = [i \in DOMAIN fs |-> IF i \in risky THEN g[i] ELSE fs[i]]
  BY Zenon DEF SurvivingDirs
<1>4. \A i \in risky : g[i] \in File
  BY <1>1, <1>2, <1>3
<1> HIDE DEF risky
<1>5. d \in [1..Len(fs) -> File]
  BY <1>1, <1>3, <1>4
<1> QED BY <1>1, <1>5 DEF Seq
-----------------------------------------------------------------------------
(* Type correctness.                                                        *)

\* The worker always appends to the last file; only between the creation of
\* the next one and its header is there a file after the active segment.
ActiveIsLast ==
  pc \notin {"closed", "refused", "roll_header", "dead"} => active.seg + 1 = Len(files)

TypeInv == TypeOK /\ ActiveIsLast

\* Replacing one file of the directory.
LEMMA ReplaceFile ==
  ASSUME NEW fs \in Seq(File), NEW i \in DOMAIN fs, NEW f \in File
  PROVE  /\ [fs EXCEPT ![i] = f] \in Seq(File)
         /\ Len([fs EXCEPT ![i] = f]) = Len(fs)
  OBVIOUS

\* A file being created is in no state other than that of a file.
LEMMA NewFileType ==
  ASSUME NEW fs \in Seq(File), NEW img \in NewFileImages
  PROVE  /\ WithNewFile(fs, img) \in Seq(File)
         /\ Len(WithNewFile(fs, img)) >= Len(fs) - 1
         /\ ~Creating => WithNewFile(fs, img) = fs
<1>1. EmptyFile \in File /\ [EmptyFile EXCEPT !.hdr = "torn"] \in File
  BY ShortSeqs DEF EmptyFile, File
<1>2. img \in Seq(File)
  BY <1>1, ShortSeqs, Zenon DEF NewFileImages
<1>3. Len(fs) \in Nat
  OBVIOUS
<1>4. SubSeq(fs, 1, Len(fs) - 1) \in Seq(File) /\ Len(SubSeq(fs, 1, Len(fs) - 1)) >= Len(fs) - 1
  <2>1. CASE Len(fs) = 0
    <3>1. SubSeq(fs, 1, Len(fs) - 1) = <<>>
      BY <2>1
    <3> QED BY <3>1, <2>1
  <2>2. CASE Len(fs) # 0
    <3>1. Len(fs) - 1 \in 0..Len(fs)
      BY <2>2, <1>3
    <3> QED BY <3>1, PrefixType
  <2> QED BY <2>1, <2>2
<1>5. /\ SubSeq(fs, 1, Len(fs) - 1) \o img \in Seq(File)
      /\ Len(SubSeq(fs, 1, Len(fs) - 1) \o img) >= Len(fs) - 1
  <2>1. Len(img) \in Nat /\ Len(SubSeq(fs, 1, Len(fs) - 1)) \in Nat
    BY <1>2, <1>4, LenProperties
  <2> QED BY <1>2, <1>3, <1>4, <2>1, ConcatProperties
<1> QED BY <1>3, <1>5 DEF WithNewFile

LEMMA InitType ==
  Init => TypeInv
<1>1. EmptyFile \in File
  BY ShortSeqs DEF EmptyFile, File
<1>2. OldSegment \in File
  <2>1. [lsn |-> 0, ts |-> 1, id |-> 0, off |-> HeaderLen, size |-> 1] \in Record
    BY DEF Record, HeaderLen
  <2> DEFINE recs == <<[lsn |-> 0, ts |-> 1, id |-> 0, off |-> HeaderLen, size |-> 1]>>
  <2>2. recs \in Seq(Record)
    BY <2>1, ShortSeqs
  <2>3. OldSegment = [EmptyFile EXCEPT !.ver = "old", !.hdr = "ok", !.dur = 1, !.recs = recs]
    BY DEF OldSegment
  <2> HIDE DEF recs
  <2> QED BY <1>1, <2>2, <2>3 DEF File
<1>3. /\ NoCatalog \in Catalog /\ NoActive \in ActiveSegment /\ NoBaseline \in Baseline
      /\ Len(NoActive.hashes) = 0 /\ NoBaseline.hashes = 0
  BY ShortSeqs DEF NoCatalog, NoContainer, SegmentContainer, NoActive, NoBaseline, Catalog,
     ActiveSegment, Baseline
<1> SUFFICES ASSUME Init PROVE TypeInv
  OBVIOUS
<1>4. DirectoryType
  BY <1>2, <1>3, ShortSeqs, Zenon DEF Init, DirectoryType
<1>5. CallsType
  BY ShortSeqs, Zenon DEF Init, CallsType
<1>6. CountersType /\ WorkerType /\ GhostsType
  BY <1>3 DEF Init, CountersType, WorkerType, GhostsType
<1>7. WorkerShape
  BY <1>3 DEF Init, WorkerShape
<1>8. ActiveIsLast
  BY DEF Init, ActiveIsLast
<1> QED BY <1>4, <1>5, <1>6, <1>7, <1>8 DEF TypeInv, TypeOK

\* Calls of the clients keep the types.
LEMMA AppendType ==
  ASSUME TypeInv, NEW c \in Clients, NEW size \in Sizes, NEW p \in PhysClock,
         append(c, size, p)
  PROVE  TypeInv'
<1> USE DEF TypeInv, TypeOK
<1>1. hlc' \in Nat /\ size \in Nat /\ nextId + 1 \in Nat
  BY ConstantsAssumption DEF append, HlcNow, CountersType
<1> DEFINE cmd == [op |-> "append", client |-> c, id |-> nextId + 1, ts |-> hlc',
                   size |-> size, expected |-> NoLsn, mark |-> 0]
<1>2. cmd \in Command
  BY <1>1 DEF Command
<1>3. queue' \in Seq(Command) /\ waiting' \subseteq Clients
  <2>1. queue' = Append(queue, cmd) /\ waiting' = waiting \cup {c}
    BY DEF append
  <2> HIDE DEF cmd
  <2>2. Append(queue, cmd) \in Seq(Command)
    BY <1>2, AppendProperties DEF CallsType
  <2> QED BY <2>1, <2>2 DEF CallsType
<1>4. CountersType' /\ CallsType'
  BY <1>1, <1>3 DEF append, CountersType, CallsType, worker, bounds
<1>5. DirectoryType' /\ WorkerType' /\ GhostsType' /\ WorkerShape' /\ ActiveIsLast'
  BY DEF append, DirectoryType, WorkerType, GhostsType, WorkerShape, ActiveIsLast, worker,
         ghosts
<1> QED BY <1>4, <1>5

LEMMA ReplicatedType ==
  ASSUME TypeInv, NEW c \in Clients, NEW k \in DOMAIN Leader, append_replicated(c, k)
  PROVE  TypeInv'
<1> USE DEF TypeInv, TypeOK
<1> DEFINE cmd == [op |-> "append", client |-> c, id |-> Leader[k].id, ts |-> Leader[k].ts,
                   size |-> Leader[k].size, expected |-> k - 1, mark |-> 0]
<1>1. k - 1 \in Nat /\ Leader[k] \in [id : Nat, ts : Nat, size : Sizes]
  <2> DEFINE Sent == [id : Nat, ts : Nat, size : Sizes]
  <2>1. Leader \in Seq(Sent)
    BY LeaderAssumption
  <2> HIDE DEF Sent
  <2>2. k - 1 \in Nat /\ Leader[k] \in Sent
    BY <2>1, LenProperties, ElementOfSeq
  <2> QED BY <2>2 DEF Sent
<1>2. Leader[k].id \in Nat /\ Leader[k].ts \in Nat /\ Leader[k].size \in Nat
  BY <1>1, ConstantsAssumption
<1>3. cmd \in Command
  BY <1>1, <1>2 DEF Command
<1>4. queue' = queue \/ queue' = Append(queue, cmd)
  BY DEF append_replicated
<1> HIDE DEF cmd
<1>5. CallsType'
  <2>1. queue' \in Seq(Command)
    <3>1. Append(queue, cmd) \in Seq(Command)
      BY <1>3, AppendProperties DEF CallsType
    <3> QED BY <3>1, <1>4 DEF CallsType
  <2>2. waiting' = waiting \/ waiting' = waiting \cup {c}
    BY DEF append_replicated
  <2>3. UNCHANGED <<batch, flushes, stash>>
    BY DEF append_replicated, worker
  <2> QED BY <2>1, <2>2, <2>3 DEF CallsType
<1>6. CountersType' /\ GhostsType'
  <2>1. hlc' \in Nat
    BY <1>2 DEF append_replicated, HlcObserve, CountersType
  <2>2. acked' = acked \/ acked' = acked \cup {<<k - 1, Leader[k].id>>}
    BY DEF append_replicated
  <2>3. UNCHANGED <<committed_lsn, current_lsn, tentative_lsn, nextId, crashes, faults,
                    promised>>
    BY DEF append_replicated, worker, bounds
  <2> QED BY <1>1, <1>2, <2>1, <2>2, <2>3 DEF CountersType, GhostsType
<1>7. DirectoryType' /\ WorkerType' /\ WorkerShape' /\ ActiveIsLast'
  BY DEF append_replicated, DirectoryType, WorkerType, WorkerShape, ActiveIsLast, worker
<1> QED BY <1>5, <1>6, <1>7

LEMMA FlushType ==
  ASSUME TypeInv, NEW c \in Clients, flush(c)
  PROVE  TypeInv'
<1> USE DEF TypeInv, TypeOK
<1>1. [op |-> "flush", client |-> c, id |-> 0, ts |-> 0, size |-> 0, expected |-> NoLsn,
       mark |-> committed_lsn] \in Command
  BY DEF Command, CountersType
<1>2. CallsType'
  BY <1>1, AppendProperties DEF flush, CallsType, worker
<1>3. DirectoryType' /\ CountersType' /\ WorkerType' /\ GhostsType' /\ WorkerShape'
      /\ ActiveIsLast'
  BY DEF flush, DirectoryType, CountersType, WorkerType, GhostsType, WorkerShape, ActiveIsLast,
         worker, ghosts, bounds
<1> QED BY <1>2, <1>3

\* What is left of a sequence without its i-th element, in the same order.
LEMMA Without ==
  ASSUME NEW S, NEW s \in Seq(S), NEW i \in DOMAIN s
  PROVE  LET t == SubSeq(s, 1, i - 1) \o SubSeq(s, i + 1, Len(s))
         IN  /\ t \in Seq(S) /\ DOMAIN t = 1..(Len(s) - 1)
             /\ \A j \in DOMAIN t :
                  (IF j < i THEN j ELSE j + 1) \in DOMAIN s
                  /\ t[j] = s[IF j < i THEN j ELSE j + 1]
<1> DEFINE f == SubSeq(s, 1, i - 1)
           g == SubSeq(s, i + 1, Len(s))
           t == f \o g
<1>1. Len(s) \in Nat /\ i \in 1..Len(s) /\ i - 1 \in 0..Len(s) /\ DOMAIN s = 1..Len(s)
  BY LenProperties
<1>2. f \in Seq(S) /\ Len(f) = i - 1 /\ \A j \in 1..(i - 1) : f[j] = s[j]
  BY <1>1, PrefixType
<1>3. g \in Seq(S) /\ Len(g) = Len(s) - i /\ \A j \in 1..(Len(s) - i) : g[j] = s[i + j]
  BY <1>1, SuffixType
<1> HIDE DEF f, g
<1>4. t \in Seq(S) /\ Len(t) = Len(s) - 1
  <2>1. t \in Seq(S) /\ Len(t) = Len(f) + Len(g)
    BY <1>2, <1>3, ConcatProperties
  <2> QED BY <1>1, <1>2, <1>3, <2>1
<1>6. ASSUME NEW j \in 1..(Len(s) - 1)
      PROVE  t[j] = IF j < i THEN f[j] ELSE g[j - (i - 1)]
  BY <1>1, <1>2, <1>3
<1> HIDE DEF t
<1>5. DOMAIN t = 1..(Len(s) - 1)
  BY <1>4, LenProperties
<1>7. ASSUME NEW j \in 1..(Len(s) - 1)
      PROVE  (IF j < i THEN j ELSE j + 1) \in DOMAIN s
             /\ t[j] = s[IF j < i THEN j ELSE j + 1]
  <2>1. CASE j < i
    BY <1>1, <1>2, <1>6, <2>1
  <2>2. CASE ~(j < i)
    <3>1. j - (i - 1) \in 1..(Len(s) - i) /\ i + (j - (i - 1)) = j + 1
      BY <1>1, <2>2
    <3>2. t[j] = g[j - (i - 1)] /\ g[j - (i - 1)] = s[i + (j - (i - 1))]
      BY <1>3, <1>6, <2>2, <3>1
    <3> QED BY <1>1, <2>2, <3>1, <3>2
  <2> QED BY <2>1, <2>2
<1> QED BY <1>4, <1>5, <1>7 DEF t, f, g

LEMMA TimeoutType ==
  ASSUME TypeInv, NEW c \in Clients, send_timeout(c)
  PROVE  TypeInv'
<1> USE DEF TypeInv, TypeOK
<1>1. queue' \in Seq(Command)
  <2>1. queue \in Seq(Command)
    BY DEF CallsType
  <2>2. PICK i \in DOMAIN queue :
          queue' = SubSeq(queue, 1, i - 1) \o SubSeq(queue, i + 1, Len(queue))
    BY DEF send_timeout
  <2> QED BY <2>1, <2>2, Without
<1>2. CallsType'
  BY <1>1 DEF send_timeout, CallsType, worker
<1>3. DirectoryType' /\ CountersType' /\ WorkerType' /\ GhostsType' /\ WorkerShape'
      /\ ActiveIsLast'
  BY DEF send_timeout, DirectoryType, CountersType, WorkerType, GhostsType, WorkerShape,
         ActiveIsLast, worker, ghosts, bounds
<1> QED BY <1>2, <1>3

\* The worker takes a prefix of the queue.
LEMMA Received ==
  ASSUME queue \in Seq(Command), recv
  PROVE  \E n \in 0..Len(queue) : /\ batch' = SubSeq(queue, 1, n)
                                  /\ queue' = SubSeq(queue, n + 1, Len(queue))
<1>1. Len(queue) \in Nat /\ BatchMax \in Nat
  BY ConstantsAssumption, LenProperties
<1>2. PICK n \in 1..BatchMax : /\ n <= Len(queue) /\ batch' = SubSeq(queue, 1, n)
                               /\ queue' = SubSeq(queue, n + 1, Len(queue))
  BY DEF recv
<1>3. n \in 0..Len(queue)
  BY <1>1, <1>2
<1> QED BY <1>2, <1>3

\* The worker's phases keep the types.
LEMMA RecvType ==
  ASSUME TypeInv, recv
  PROVE  TypeInv'
<1> USE DEF TypeInv, TypeOK
<1>1. queue \in Seq(Command)
  BY DEF CallsType
<1>2. PICK n \in 0..Len(queue) : batch' = SubSeq(queue, 1, n)
                                 /\ queue' = SubSeq(queue, n + 1, Len(queue))
  BY <1>1, Received
<1>3. batch' \in Seq(Command)
  BY <1>1, <1>2, PrefixType
<1>4. queue' \in Seq(Command)
  BY <1>1, <1>2, SuffixType
<1>5. CallsType'
  BY <1>3, <1>4, ShortSeqs DEF recv, CallsType
<1>6. CountersType'
  BY DEF recv, CountersType, bounds
<1>7. WorkerType' /\ Len(active.hashes) \in Nat
  BY LenProperties DEF recv, WorkerType, ActiveSegment, Baseline
<1>8. DirectoryType' /\ GhostsType'
  BY DEF recv, DirectoryType, GhostsType, ghosts
<1>9. WorkerShape' /\ ActiveIsLast'
  <2>1. Len(<<>>) = 0
    OBVIOUS
  <2> QED BY <1>7, <2>1 DEF recv, WorkerShape, ActiveIsLast
<1> QED BY <1>5, <1>6, <1>7, <1>8, <1>9

LEMMA CmdType ==
  ASSUME CallsType, batch # <<>>
  PROVE  Cmd \in Command /\ Tail(batch) \in Seq(Command)
BY HeadTailProperties DEF CallsType, Cmd

LEMMA WriteFlushType ==
  ASSUME TypeInv, write_flush
  PROVE  TypeInv'
<1> USE DEF TypeInv, TypeOK
<1>1. Cmd \in Command /\ batch' \in Seq(Command) /\ flushes' = Append(flushes, Cmd)
  BY CmdType DEF write_flush
<1>2. CallsType'
  <2>1. flushes' \in Seq(Command)
    BY <1>1, AppendProperties DEF CallsType
  <2> QED BY <1>1, <2>1 DEF write_flush, CallsType
<1>3. /\ DirectoryType' /\ CountersType' /\ WorkerType' /\ GhostsType' /\ WorkerShape'
      /\ ActiveIsLast'
  BY DEF write_flush, DirectoryType, CountersType, WorkerType, GhostsType, WorkerShape,
         ActiveIsLast, ghosts, bounds
<1> QED BY <1>2, <1>3

LEMMA RejectType ==
  ASSUME TypeInv, reject
  PROVE  TypeInv'
<1> USE DEF TypeInv, TypeOK
<1>1. batch' \in Seq(Command)
  BY CmdType DEF reject
<1>2. CallsType'
  BY <1>1 DEF reject, CallsType
<1>3. /\ DirectoryType' /\ CountersType' /\ WorkerType' /\ GhostsType' /\ WorkerShape'
      /\ ActiveIsLast'
  BY SMTT(30) DEF reject, DirectoryType, CountersType, WorkerType, GhostsType, WorkerShape,
         ActiveIsLast, ghosts, bounds
<1> QED BY <1>2, <1>3

LEMMA PlaceType ==
  ASSUME TypeInv, place
  PROVE  TypeInv'
<1> USE DEF TypeInv, TypeOK
<1> DEFINE f == files[active.seg + 1]
           r == [lsn |-> tentative_lsn, ts |-> Cmd.ts, id |-> Cmd.id, off |-> PhysLen(f),
                 size |-> Cmd.size]
           u == [lsn |-> tentative_lsn, id |-> Cmd.id, off |-> active.bytes,
                 client |-> Cmd.client]
<1>1. batch # <<>> /\ active.seg + 1 \in DOMAIN files
  BY DEF place, WorkerShape
<1>2. Cmd \in Command /\ Tail(batch) \in Seq(Command)
  BY <1>1, CmdType
<1>3. f \in File
  BY <1>1, ElementOfSeq, LenProperties DEF DirectoryType
<1>4. r \in Record /\ record_leaf(r) \in Leaf
  BY <1>2, <1>3, PhysLenType DEF Record, Command, CountersType, record_leaf, Leaf
<1>5. u \in Update
  BY <1>2 DEF Update, Command, CountersType, WorkerType, ActiveSegment
<1>6. files' \in Seq(File) /\ Len(files') = Len(files)
  <2> DEFINE recs == Append(f.recs, r)
             g == [f EXCEPT !.recs = recs]
  <2>1. recs \in Seq(Record)
    BY <1>3, <1>4, AppendProperties DEF File
  <2>2. files' = [files EXCEPT ![active.seg + 1] = g]
    BY DEF place
  <2> HIDE DEF recs
  <2>3. g \in File
    BY <1>3, <2>1 DEF File
  <2> HIDE DEF g
  <2> QED BY <1>1, <2>2, <2>3, ReplaceFile DEF DirectoryType
<1>7. stash' \in Seq(Update) /\ Len(stash') = Len(stash) + 1
  <2>1. stash' = Append(stash, u)
    BY DEF place
  <2> HIDE DEF u
  <2> QED BY <1>5, <2>1, AppendProperties DEF CallsType
<1>8. active' \in ActiveSegment /\ Len(active'.hashes) = Len(active.hashes) + 1
      /\ active'.seg = active.seg
  <2> DEFINE leaf == record_leaf(r)
             hashes == Append(active.hashes, leaf)
  <2>1. active' = [active EXCEPT !.bytes = @ + Cmd.size, !.hashes = hashes,
                                 !.max = IF tentative_lsn > @ THEN tentative_lsn ELSE @]
    BY DEF place
  <2>2. leaf \in Leaf
    BY <1>4
  <2>3. active.hashes \in Seq(Leaf)
    BY DEF WorkerType, ActiveSegment
  <2> HIDE DEF leaf
  <2>4. hashes \in Seq(Leaf) /\ Len(hashes) = Len(active.hashes) + 1
    BY <2>2, <2>3, AppendProperties
  <2> HIDE DEF hashes
  <2> DEFINE max == IF tentative_lsn > active.max THEN tentative_lsn ELSE active.max
  <2>5. active \in ActiveSegment /\ tentative_lsn \in Nat /\ Cmd.size \in Nat
    BY <1>2 DEF Command, CountersType, WorkerType
  <2>6. max \in Nat /\ active.bytes + Cmd.size \in Nat
    BY <2>5 DEF ActiveSegment
  <2>7. active' = [seg |-> active.seg, base |-> active.base, max |-> max,
                   bytes |-> active.bytes + Cmd.size, hashes |-> hashes]
    BY <2>1, <2>5 DEF ActiveSegment
  <2> HIDE DEF max
  <2> QED BY <2>4, <2>5, <2>6, <2>7 DEF ActiveSegment
<1>9. DirectoryType' /\ CallsType' /\ CountersType' /\ GhostsType'
  <2>1. DirectoryType' /\ GhostsType'
    BY <1>6 DEF place, DirectoryType, GhostsType, ghosts
  <2>2. CallsType'
    BY <1>2, <1>7 DEF place, CallsType
  <2>3. CountersType'
    BY DEF place, CountersType, bounds
  <2> QED BY <2>1, <2>2, <2>3
<1>10. WorkerType'
  BY <1>8 DEF place, WorkerType, SyncAfterWrite
<1>11. WorkerShape' /\ ActiveIsLast'
  <2>1. /\ active'.seg + 1 = Len(files') /\ active'.seg + 1 \in DOMAIN files'
    <3>1. active.seg + 1 = Len(files)
      BY DEF place, ActiveIsLast
    <3>2. active.seg \in Nat
      BY DEF WorkerType, ActiveSegment
    <3>3. Len(files') = active.seg + 1 /\ DOMAIN files' = 1..Len(files')
      BY <3>1, <1>6, LenProperties
    <3> QED BY <3>2, <3>3, <1>8
  <2>2. pending' <= Len(stash') /\ baseline'.hashes <= Len(active'.hashes)
    <3>1. Len(stash) \in Nat /\ Len(active.hashes) \in Nat /\ baseline.hashes \in Nat
          /\ pending \in Nat
      BY LenProperties DEF CallsType, WorkerType, ActiveSegment, Baseline
    <3> QED BY <3>1, <1>7, <1>8 DEF place, WorkerShape
  <2> QED BY <2>1, <2>2 DEF place, WorkerShape, ActiveIsLast
<1> QED BY <1>9, <1>10, <1>11

\* Publishing the stash leaves a catalogue.
LEMMA PublishedType ==
  ASSUME DirectoryType, CallsType, WorkerType, pending <= Len(stash)
  PROVE  publish_active \in Catalog
<1>1. Unindexed \in Seq(Update)
  <2>1. stash \in Seq(Update) /\ pending \in 0..Len(stash)
    BY LenProperties DEF CallsType, WorkerType
  <2> QED BY <2>1, SuffixType DEF Unindexed
<1>2. IndexOf(Unindexed) \in Seq(Entry)
  <2>1. \A u \in Update : u.lsn \in Nat /\ u.off \in Nat
    BY DEF Update
  <2> QED BY <1>1, <2>1, IndexType
<1>3. catalog \in Catalog /\ catalog.active \in SegmentContainer
  BY DEF DirectoryType, Catalog
<1>4. Extended(catalog.active) \in SegmentContainer
  <2> DEFINE entries == catalog.active.entries \o IndexOf(Unindexed)
  <2>1. catalog.active.entries \in Seq(Entry)
    BY <1>3 DEF SegmentContainer
  <2>2. entries \in Seq(Entry)
    BY <1>2, <2>1, ConcatProperties
  <2>3. Extended(catalog.active)
          = [catalog.active EXCEPT !.entries = entries, !.max = active.max]
    BY DEF Extended
  <2> HIDE DEF entries
  <2> QED BY <1>3, <2>2, <2>3 DEF SegmentContainer, WorkerType, ActiveSegment
<1> QED BY <1>3, <1>4 DEF publish_active, Catalog

LEMMA RollSealType ==
  ASSUME TypeInv, roll_seal
  PROVE  TypeInv'
<1> USE DEF TypeInv, TypeOK
<1> DEFINE f == files[active.seg + 1]
           foot == [count |-> Len(active.hashes), min |-> active.base,
                    max |-> active.max, root |-> merkle_root(active.hashes)]
           g == [f EXCEPT !.dur = Len(f.recs), !.foot = foot]
<1>1. active.seg + 1 \in DOMAIN files /\ f \in File
  <2>1. active.seg + 1 \in DOMAIN files
    BY DEF roll_seal, WorkerShape
  <2> QED BY <2>1, ElementOfSeq, LenProperties DEF DirectoryType
<1>2. foot \in Footer
  BY LenProperties DEF WorkerType, ActiveSegment, Footer, merkle_root
<1>3. files' = [files EXCEPT ![active.seg + 1] = g]
  BY DEF roll_seal
<1>4. g \in File
  <2>1. Len(f.recs) \in Nat
    BY <1>1, LenProperties DEF File
  <2> HIDE DEF foot
  <2> QED BY <1>1, <1>2, <2>1 DEF File
<1> HIDE DEF g
<1>5. files' \in Seq(File) /\ Len(files') = Len(files)
  BY <1>1, <1>3, <1>4, ReplaceFile DEF DirectoryType
<1>6. catalog' \in Catalog
  BY PublishedType DEF roll_seal, WorkerShape
<1>7. Len(stash) \in Nat /\ DOMAIN files' = DOMAIN files
  BY <1>5, LenProperties DEF CallsType, DirectoryType
<1>8. DirectoryType' /\ CountersType' /\ CallsType' /\ GhostsType'
  BY <1>5, <1>6 DEF roll_seal, DirectoryType, CountersType, CallsType, GhostsType, ghosts,
     bounds
<1>9. WorkerType'
  BY <1>7 DEF roll_seal, WorkerType
<1>10. WorkerShape' /\ ActiveIsLast'
  BY <1>5, <1>7 DEF roll_seal, WorkerShape, ActiveIsLast
<1> QED BY <1>8, <1>9, <1>10

LEMMA RollCreateType ==
  ASSUME TypeInv, roll_create
  PROVE  TypeInv'
<1> USE DEF TypeInv, TypeOK
<1> DEFINE g == [files[active.seg + 1] EXCEPT !.fdur = TRUE]
           fs == [files EXCEPT ![active.seg + 1] = g]
<1>1. active.seg + 1 \in DOMAIN files /\ files[active.seg + 1] \in File
  <2>1. active.seg + 1 \in DOMAIN files
    BY DEF roll_create, WorkerShape
  <2> QED BY <2>1, ElementOfSeq, LenProperties DEF DirectoryType
<1>2. fs \in Seq(File) /\ Len(fs) = Len(files)
  <2>1. g \in File
    BY <1>1 DEF File
  <2> HIDE DEF g
  <2> QED BY <1>1, <2>1, ReplaceFile DEF DirectoryType
<1>3. files' = Append(fs, EmptyFile)
  BY DEF roll_create
<1>4. files' \in Seq(File) /\ Len(files') = Len(files) + 1
  <2>1. EmptyFile \in File
    BY ShortSeqs DEF EmptyFile, File
  <2> HIDE DEF fs
  <2> QED BY <1>2, <1>3, <2>1, AppendProperties
<1>5. DirectoryType' /\ CountersType' /\ CallsType' /\ GhostsType' /\ WorkerType'
  BY <1>4 DEF roll_create, DirectoryType, CountersType, CallsType, GhostsType, WorkerType,
     ghosts, bounds
<1>6. WorkerShape' /\ ActiveIsLast'
  <2>1. active.seg + 1 = Len(files)
    BY DEF roll_create, ActiveIsLast
  <2>2. active'.seg + 1 \in DOMAIN files' /\ active'.seg + 2 = Len(files')
    <3>1. active' = active /\ active.seg \in Nat
      BY DEF roll_create, WorkerType, ActiveSegment
    <3>2. DOMAIN files' = 1..Len(files')
      BY <1>4, LenProperties
    <3> QED BY <1>4, <2>1, <3>1, <3>2
  <2> QED BY <2>2 DEF roll_create, WorkerShape, ActiveIsLast
<1> QED BY <1>5, <1>6

LEMMA NewActiveType ==
  ASSUME NEW seg \in Nat, NEW base \in Nat
  PROVE  new_active(seg, base) \in ActiveSegment
BY ShortSeqs DEF new_active, ActiveSegment, HeaderLen

LEMMA RollHeaderType ==
  ASSUME TypeInv, NEW p \in PhysClock, roll_header(p)
  PROVE  TypeInv'
<1> USE DEF TypeInv, TypeOK
<1> DEFINE next == active.seg + 1
           g == [files[next + 1] EXCEPT !.hdr = "ok"]
           old == Container(active.seg, active.base, active.max, catalog.active.entries)
           new == Container(next, tentative_lsn, U64Max, <<>>)
<1>1. active \in ActiveSegment /\ next \in Nat /\ next + 1 = Len(files)
  BY DEF roll_header, WorkerType, WorkerShape, ActiveSegment
<1>2. files' \in Seq(File) /\ Len(files') = Len(files)
  <2>1. next + 1 \in DOMAIN files /\ files[next + 1] \in File
    BY <1>1, ElementOfSeq, LenProperties DEF DirectoryType
  <2>2. g \in File
    BY <2>1 DEF File
  <2>3. files' = [files EXCEPT ![next + 1] = g]
    BY DEF roll_header
  <2> HIDE DEF g, next
  <2> QED BY <2>1, <2>2, <2>3, ReplaceFile DEF DirectoryType
<1>3. catalog' \in Catalog
  <2>1. catalog \in Catalog /\ catalog.active.entries \in Seq(Entry)
    BY DEF DirectoryType, Catalog, SegmentContainer
  <2>2. old \in SegmentContainer
    BY <1>1, <2>1 DEF Container, SegmentContainer, ActiveSegment
  <2>3. new \in SegmentContainer
    BY <1>1, ShortSeqs, ConstantsAssumption DEF Container, SegmentContainer, CountersType
  <2>4. catalog' = [sealed |-> Append(catalog.sealed, old), active |-> new]
    BY DEF roll_header
  <2> HIDE DEF old, new
  <2>5. Append(catalog.sealed, old) \in Seq(SegmentContainer)
    BY <2>1, <2>2, AppendProperties DEF Catalog
  <2> QED BY <2>3, <2>4, <2>5 DEF Catalog
<1>4. active' = new_active(next, tentative_lsn) /\ active' \in ActiveSegment
      /\ active'.seg = next /\ active'.hashes = <<>>
  <2>1. active' = new_active(next, tentative_lsn)
    BY DEF roll_header
  <2> QED BY <1>1, <2>1, NewActiveType DEF CountersType, new_active
<1>5. baseline' \in Baseline /\ baseline'.hashes = 0
  BY DEF roll_header, Baseline, HeaderLen, CountersType
<1>6. hlc' \in Nat
  BY ConstantsAssumption, SMTT(30) DEF roll_header, HlcNow, CountersType
<1>7. DirectoryType' /\ CountersType' /\ CallsType' /\ GhostsType'
  BY <1>2, <1>3, <1>6 DEF roll_header, DirectoryType, CountersType, CallsType, GhostsType,
     ghosts, bounds
<1>8. WorkerType'
  BY <1>4, <1>5 DEF roll_header, WorkerType
<1>9. WorkerShape' /\ ActiveIsLast'
  <2>1. active'.seg + 1 = Len(files') /\ active'.seg + 1 \in DOMAIN files'
    <3>1. DOMAIN files' = 1..Len(files')
      BY <1>2, LenProperties
    <3> QED BY <1>1, <1>2, <1>4, <3>1
  <2>2. baseline'.hashes <= Len(active'.hashes)
    BY <1>4, <1>5
  <2> QED BY <2>1, <2>2 DEF roll_header, WorkerShape, ActiveIsLast
<1> QED BY <1>7, <1>8, <1>9

LEMMA FsyncType ==
  ASSUME TypeInv, fsync
  PROVE  TypeInv'
<1> USE DEF TypeInv, TypeOK
<1> DEFINE f == files[active.seg + 1]
           g == [f EXCEPT !.dur = Len(f.recs)]
<1>1. active.seg + 1 \in DOMAIN files /\ f \in File
  <2>1. active.seg + 1 \in DOMAIN files
    BY DEF fsync, WorkerShape
  <2> QED BY <2>1, ElementOfSeq, LenProperties DEF DirectoryType
<1>2. files' = files \/ files' = [files EXCEPT ![active.seg + 1] = g]
  BY DEF fsync
<1>3. files' \in Seq(File) /\ Len(files') = Len(files)
  <2>1. g \in File
    BY <1>1, LenProperties DEF File
  <2> HIDE DEF g
  <2>2. /\ [files EXCEPT ![active.seg + 1] = g] \in Seq(File)
        /\ Len([files EXCEPT ![active.seg + 1] = g]) = Len(files)
    BY <1>1, <2>1, ReplaceFile DEF DirectoryType
  <2> QED BY <1>2, <2>2 DEF DirectoryType
<1>4. DOMAIN files' = DOMAIN files
  BY <1>3, LenProperties DEF DirectoryType
<1>5. /\ DirectoryType' /\ CountersType' /\ CallsType' /\ GhostsType' /\ WorkerType'
      /\ WorkerShape' /\ ActiveIsLast'
  BY <1>3, <1>4 DEF fsync, DirectoryType, CountersType, CallsType, GhostsType, WorkerType,
     WorkerShape, ActiveIsLast, ghosts, bounds
<1> QED BY <1>5

LEMMA PublishType ==
  ASSUME TypeInv, publish
  PROVE  TypeInv'
<1> USE DEF TypeInv, TypeOK
<1>1. catalog' \in Catalog
  BY PublishedType DEF publish, WorkerShape
<1>2. /\ DirectoryType' /\ CountersType' /\ CallsType' /\ GhostsType' /\ WorkerType'
      /\ WorkerShape' /\ ActiveIsLast'
  BY <1>1 DEF publish, DirectoryType, CountersType, CallsType, GhostsType, WorkerType,
     WorkerShape, ActiveIsLast, ghosts, bounds
<1> QED BY <1>2

LEMMA CommitType ==
  ASSUME TypeInv, commit
  PROVE  TypeInv'
<1> USE DEF TypeInv, TypeOK
<1>1. stash # <<>> => LastOf(stash).lsn + 1 \in Nat
  <2> SUFFICES ASSUME stash # <<>> PROVE LastOf(stash).lsn + 1 \in Nat
    OBVIOUS
  <2>1. LastOf(stash) \in Update
    BY LastType DEF CallsType
  <2> QED BY <2>1 DEF Update
<1>2. CountersType'
  BY <1>1 DEF commit, CountersType, bounds
<1>3. /\ DirectoryType' /\ CallsType' /\ GhostsType' /\ WorkerType' /\ WorkerShape'
      /\ ActiveIsLast'
  BY DEF commit, DirectoryType, CallsType, GhostsType, WorkerType, WorkerShape, ActiveIsLast,
     ghosts
<1> QED BY <1>2, <1>3

LEMMA AckType ==
  ASSUME TypeInv, ack
  PROVE  TypeInv'
<1> USE DEF TypeInv, TypeOK
<1>1. {<<stash[i].lsn, stash[i].id>> : i \in DOMAIN stash} \subseteq Nat \X Nat
  <2>1. \A i \in DOMAIN stash : stash[i] \in Update
    BY ElementOfSeq, LenProperties DEF CallsType
  <2> QED BY <2>1 DEF Update
<1>2. Pairs(files) \subseteq Nat \X Nat
  <2>1. \A i \in DOMAIN files : files[i].recs \in Seq(Record)
    <3>1. \A i \in DOMAIN files : files[i] \in File
      BY ElementOfSeq, LenProperties DEF DirectoryType
    <3> QED BY <3>1 DEF File
  <2>2. \A i \in DOMAIN files : \A j \in DOMAIN files[i].recs : files[i].recs[j] \in Record
    BY <2>1, ElementOfSeq, LenProperties
  <2>3. AllRecs(files) \subseteq Record
    BY <2>2 DEF AllRecs
  <2> QED BY <2>3 DEF Pairs, Record
<1>3. GhostsType'
  BY <1>1, <1>2 DEF ack, GhostsType
<1>4. CallsType'
  BY ShortSeqs DEF ack, CallsType
<1>5. DirectoryType' /\ CountersType' /\ WorkerType'
  BY DEF ack, DirectoryType, CountersType, WorkerType, bounds
<1>6. WorkerShape' /\ ActiveIsLast'
  <2>1. Len(<<>>) = 0
    OBVIOUS
  <2> QED BY <2>1 DEF ack, WorkerShape, ActiveIsLast
<1> QED BY <1>3, <1>4, <1>5, <1>6

\* Failures keep the types.
LEMMA IoErrorType ==
  ASSUME TypeInv, io_error
  PROVE  TypeInv'
<1> USE DEF TypeInv, TypeOK
<1> DEFINE f == files[active.seg + 1]
<1>1. PICK done \in BOOLEAN, half \in BOOLEAN, img \in NewFileImages :
        files' = WithNewFile([files EXCEPT ![active.seg + 1] =
                   IF done THEN rollback_active_file(@) ELSE [@ EXCEPT !.torn = half]], img)
  BY DEF io_error
<1> DEFINE g == IF done THEN rollback_active_file(f) ELSE [f EXCEPT !.torn = half]
           fs == [files EXCEPT ![active.seg + 1] = g]
<1>2. active.seg + 1 \in DOMAIN files /\ f \in File
  <2>1. active.seg + 1 \in DOMAIN files
    BY DEF io_error, Writing, WorkerShape
  <2> QED BY <2>1, ElementOfSeq, LenProperties DEF DirectoryType
<1>3. g \in File
  <2>1. rollback_active_file(f) \in File
    BY <1>2, RollbackType DEF WorkerType
  <2>2. [f EXCEPT !.torn = half] \in File
    BY <1>2 DEF File
  <2> QED BY <2>1, <2>2
<1>4. files' = WithNewFile(fs, img)
  BY <1>1
<1> HIDE DEF g
<1>5. fs \in Seq(File) /\ Len(fs) = Len(files)
  BY <1>2, <1>3, ReplaceFile DEF DirectoryType
<1> HIDE DEF fs
<1>6. /\ files' \in Seq(File) /\ Len(files') >= Len(files) - 1
      /\ ~Creating => Len(files') = Len(files)
  BY <1>4, <1>5, NewFileType
<1>7. active' \in ActiveSegment /\ active'.seg = active.seg
      /\ Len(active'.hashes) = baseline.hashes
  <2> DEFINE hashes == SubSeq(active.hashes, 1, baseline.hashes)
  <2>1. active \in ActiveSegment /\ baseline \in Baseline
    BY DEF WorkerType
  <2>2. active.hashes \in Seq(Leaf) /\ baseline.hashes \in 0..Len(active.hashes)
    BY <2>1, LenProperties DEF ActiveSegment, Baseline, WorkerShape
  <2>3. hashes \in Seq(Leaf) /\ Len(hashes) = baseline.hashes
    BY <2>2, PrefixType
  <2>4. active' = [active EXCEPT !.bytes = baseline.bytes, !.hashes = hashes,
                                 !.max = baseline.max]
    BY DEF io_error
  <2> HIDE DEF hashes
  <2> QED BY <2>1, <2>3, <2>4 DEF ActiveSegment, Baseline
<1>8. CallsType'
  BY ShortSeqs DEF io_error, DropCalls, CallsType
<1>9. DirectoryType' /\ CountersType' /\ GhostsType' /\ WorkerType'
  BY <1>6, <1>7, SMTT(30)
     DEF io_error, DropCalls, DirectoryType, CountersType, GhostsType, WorkerType, ghosts
<1>10. WorkerShape' /\ ActiveIsLast'
  <2>1. active'.seg + 1 \in DOMAIN files'
    <3>1. active.seg \in Nat /\ Len(files) \in Nat /\ Len(files') \in Nat
          /\ DOMAIN files' = 1..Len(files') /\ DOMAIN files = 1..Len(files)
      BY <1>6, LenProperties DEF WorkerType, ActiveSegment, DirectoryType
    <3>2. Creating => active.seg + 2 = Len(files)
      BY DEF io_error, Writing, Creating, WorkerShape
    <3>3. active.seg + 1 <= Len(files')
      <4>1. CASE Creating
        BY <4>1, <1>6, <3>1, <3>2
      <4>2. CASE ~Creating
        BY <4>2, <1>2, <1>6, <3>1
      <4> QED BY <4>1, <4>2
    <3>4. active.seg + 1 \in 1..Len(files')
      BY <3>1, <3>3
    <3> QED BY <3>1, <3>4, <1>7
  <2>2. pending' <= Len(stash') /\ baseline'.hashes <= Len(active'.hashes)
    <3>1. Len(<<>>) = 0 /\ baseline.hashes \in Nat
      BY DEF WorkerType, Baseline
    <3> QED BY <1>7, <3>1 DEF io_error, DropCalls
  <2> QED BY <2>1, <2>2 DEF io_error, WorkerShape, ActiveIsLast
<1> QED BY <1>8, <1>9, <1>10

LEMMA RestartType ==
  ASSUME TypeInv, NEW fs \in Seq(File), NEW kind, Restart(kind, fs)
  PROVE  TypeInv'
<1> USE DEF TypeInv, TypeOK
<1>1. /\ NoCatalog \in Catalog /\ NoActive \in ActiveSegment /\ NoBaseline \in Baseline
      /\ Len(NoActive.hashes) = 0 /\ NoBaseline.hashes = 0
  BY ShortSeqs DEF NoCatalog, NoContainer, SegmentContainer, NoActive, NoBaseline, Catalog,
     ActiveSegment, Baseline
<1>2. CallsType'
  BY ShortSeqs DEF Restart, DropCalls, CallsType
<1>3. DirectoryType' /\ CountersType' /\ GhostsType' /\ WorkerType'
  <2>1. DirectoryType' /\ GhostsType'
    BY <1>1 DEF Restart, DirectoryType, GhostsType
  <2>2. CountersType'
    BY DEF Restart, CountersType
  <2>3. WorkerType'
    BY <1>1 DEF Restart, DropCalls, WorkerType
  <2> QED BY <2>1, <2>2, <2>3
<1>4. WorkerShape' /\ ActiveIsLast'
  <2>1. Len(<<>>) = 0
    OBVIOUS
  <2> QED BY <1>1, <2>1 DEF Restart, DropCalls, WorkerShape, ActiveIsLast
<1> QED BY <1>2, <1>3, <1>4

LEMMA ProcessCrashType ==
  ASSUME TypeInv, process_crash
  PROVE  TypeInv'
<1> USE DEF TypeInv, TypeOK
<1> DEFINE Torn(half) == IF half THEN [files EXCEPT ![active.seg + 1].torn = TRUE] ELSE files
<1>1. PICK img \in NewFileImages, half \in BOOLEAN :
        /\ half => Writing
        /\ Restart("process", WithNewFile(Torn(half), img))
  BY DEF process_crash
<1>2. Torn(half) \in Seq(File)
  <2>1. CASE ~half
    BY <2>1 DEF DirectoryType
  <2>2. CASE half
    <3> DEFINE g == [files[active.seg + 1] EXCEPT !.torn = TRUE]
    <3>1. active.seg + 1 \in DOMAIN files
      BY <1>1, <2>2 DEF Writing, WorkerShape
    <3>2. files[active.seg + 1] \in File
      BY <3>1, ElementOfSeq, LenProperties DEF DirectoryType
    <3>3. g \in File
      BY <3>2 DEF File
    <3>4. Torn(half) = [files EXCEPT ![active.seg + 1] = g]
      BY <2>2
    <3> HIDE DEF g
    <3> QED BY <3>1, <3>3, <3>4, ReplaceFile DEF DirectoryType
  <2> QED BY <2>1, <2>2
<1> HIDE DEF Torn
<1>3. WithNewFile(Torn(half), img) \in Seq(File)
  BY <1>2, NewFileType
<1> QED BY <1>1, <1>3, RestartType

LEMMA PowerLossType ==
  ASSUME TypeInv, power_loss
  PROVE  TypeInv'
<1> USE DEF TypeInv, TypeOK
<1> DEFINE known == IF Creating THEN SubSeq(files, 1, Len(files) - 1) ELSE files
<1>1. PICK img \in NewFileImages, dir \in SurvivingDirs(known) :
        Restart("power", dir \o (IF Creating THEN img ELSE <<>>))
  BY DEF power_loss
<1>2. known \in Seq(File)
  <2>1. CASE ~Creating
    BY <2>1 DEF DirectoryType
  <2>2. CASE Creating
    <3>1. active.seg + 1 \in DOMAIN files
      BY <2>2 DEF Creating, WorkerShape
    <3>2. Len(files) - 1 \in 0..Len(files)
      BY <3>1, LenProperties DEF DirectoryType
    <3> QED BY <2>2, <3>2, PrefixType DEF DirectoryType
  <2> QED BY <2>1, <2>2
<1> HIDE DEF known
<1>3. dir \in Seq(File)
  BY <1>2, SurvivingType
<1>4. (IF Creating THEN img ELSE <<>>) \in Seq(File)
  <2>1. EmptyFile \in File /\ [EmptyFile EXCEPT !.hdr = "torn"] \in File
    BY ShortSeqs DEF EmptyFile, File
  <2>2. img \in Seq(File)
    BY <2>1, ShortSeqs, Zenon DEF NewFileImages
  <2> QED BY <2>2, ShortSeqs
<1>5. dir \o (IF Creating THEN img ELSE <<>>) \in Seq(File)
  BY <1>3, <1>4, ConcatProperties
<1> QED BY <1>1, <1>5, RestartType

\* Recovery gives the types, whatever is in the directory.
LEMMA OpenType ==
  ASSUME TypeInv, open
  PROVE  TypeInv'
<1> USE DEF TypeInv, TypeOK
<1> DEFINE n == Len(files)
           scans == [i \in DOMAIN files |-> scan_segment_file(files[i])]
           recs == UNION {{scans[i].recs[k] : k \in DOMAIN scans[i].recs} : i \in DOMAIN scans}
           tail == n > 0 /\ ~scans[n].sealed /\ scans[n].ver = "cur"
           repaired == [i \in DOMAIN files |->
                          IF scans[i].corrupt THEN execute_physical_repair(files[i], scans[i])
                          ELSE files[i]]
           recovered == [i \in DOMAIN files |->
                          IF scans[i].sealed \/ (i = n /\ tail) THEN repaired[i]
                          ELSE seal_file(repaired[i], scans[i])]
           containers == [i \in 1..(IF tail THEN n - 1 ELSE n) |-> SealedContainer(scans, i)]
           last == scans[n].recs
           keep(lsn0) == [seg |-> n - 1, base |-> IF last = <<>> THEN lsn0 ELSE last[1].lsn,
                          max |-> IF last = <<>> THEN lsn0 ELSE LastOf(last).lsn,
                          bytes |-> scans[n].valid_len, hashes |-> Leaves(last)]
           tailContainer(lsn0) == Container(n - 1, IF last = <<>> THEN lsn0 ELSE last[1].lsn,
                                            U64Max, IndexOf(last))
<1>1. n \in Nat /\ DOMAIN files = 1..n /\ \A i \in DOMAIN files : files[i] \in File
  BY ElementOfSeq, LenProperties DEF DirectoryType
<1>2. DOMAIN scans = 1..n /\ \A i \in 1..n : scans[i] \in Scan /\ scans[i].recs \in Seq(Record)
  BY <1>1, ScanType DEF Scan
<1>3. recovered \in Seq(File) /\ Len(recovered) = n
  <2>1. \A i \in 1..n : repaired[i] \in File
    BY <1>1, <1>2, RepairType
  <2>2. \A i \in 1..n : recovered[i] \in File
    BY <1>1, <1>2, <2>1, SealType, ZenonT(40)
  <2> HIDE DEF scans, repaired, tail
  <2>3. DOMAIN recovered = 1..n /\ recovered = [i \in 1..n |-> recovered[i]]
    BY <1>1
  <2> HIDE DEF recovered
  <2>4. recovered \in [1..n -> File]
    BY <2>2, <2>3
  <2> QED BY <1>1, <2>3, <2>4 DEF Seq
<1>4. IsFiniteSet(recs) /\ recs \subseteq Record
  <2> DEFINE g == [i \in 1..n |-> scans[i].recs]
  <2>1. g \in [1..n -> Seq(Record)]
    BY <1>2
  <2>2. recs = UNION {{g[i][k] : k \in DOMAIN g[i]} : i \in 1..n}
    <3> HIDE DEF scans, n
    <3> QED BY <1>2
  <2> HIDE DEF g, recs
  <2> QED BY <1>1, <2>1, <2>2, UnionOfRecs
<1>5. containers \in Seq(SegmentContainer)
  <2> DEFINE m == IF tail THEN n - 1 ELSE n
  <2>1. m \in Nat /\ m <= n
    BY <1>1
  <2> HIDE DEF m, scans
  <2>2. \A i \in 1..m : SealedContainer(scans, i) \in SegmentContainer
    <3> SUFFICES ASSUME NEW i \in 1..m PROVE SealedContainer(scans, i) \in SegmentContainer
      OBVIOUS
    <3>1. i \in 1..n
      BY <1>1, <2>1
    <3> QED BY <1>1, <1>2, <3>1, SealedContainerType
  <2>3. containers = [i \in 1..m |-> SealedContainer(scans, i)]
    BY DEF m
  <2>4. containers \in [1..m -> SegmentContainer]
    BY <2>2, <2>3
  <2> QED BY <2>1, <2>4 DEF Seq
<1>6. CallsType' /\ UNCHANGED <<tentative_lsn, nextId, crashes, faults, acked, promised,
                                baseline, pending, sync_required, stash>>
  BY DEF open, CallsType, ghosts, bounds
<1>7. GhostsType'
  BY <1>6 DEF GhostsType
<1>8. CASE open_refuses(scans)
  <2>1. /\ pc' = "refused"
        /\ UNCHANGED <<files, hlc, committed_lsn, catalog, active, current_lsn>>
    BY <1>8 DEF open
  <2>2. DirectoryType' /\ CountersType' /\ WorkerType'
    BY <1>6, <2>1 DEF DirectoryType, CountersType, WorkerType
  <2>3. WorkerShape' /\ ActiveIsLast'
    BY <1>6, <2>1 DEF open, WorkerShape, ActiveIsLast
  <2> QED BY <1>6, <1>7, <2>2, <2>3
<1>9. CASE ~open_refuses(scans)
  <2>1. PICK lsn0 \in NextLsn(recs), sealed \in SortedByBase(containers) :
          /\ committed_lsn' = lsn0 /\ current_lsn' = lsn0
          /\ \E h \in {0} \cup {r.ts : r \in recs} : hlc' = h
          /\ \/ /\ tail
                /\ files' = recovered /\ active' = keep(lsn0) /\ pc' = "recv"
                /\ catalog' = [sealed |-> sealed, active |-> tailContainer(lsn0)]
             \/ /\ files' = Append(recovered, EmptyFile) /\ active' = new_active(n, lsn0)
                /\ catalog' = [sealed |-> sealed,
                               active |-> Container(n, lsn0, U64Max, <<>>)]
                /\ pc' = "open_header"
    BY <1>9, Zenon DEF open
  <2>2. lsn0 \in Nat
    <3> HIDE DEF recs
    <3> QED BY <1>4, <2>1, NextLsnType, ZenonT(40)
  <2>3. sealed \in Seq(SegmentContainer)
    <3> HIDE DEF containers
    <3> QED BY <1>5, <2>1, SortedType, ZenonT(40)
  <2>4. CountersType'
    <3>1. \A r \in recs : r.ts \in Nat
      <4> HIDE DEF recs
      <4> QED BY <1>4 DEF Record
    <3> HIDE DEF recs
    <3>2. hlc' \in Nat
      BY <2>1, <3>1, SMTT(30)
    <3> QED BY <1>6, <2>1, <2>2, <3>2, ZenonT(40) DEF CountersType
  <2>5. pc = "closed" /\ baseline'.hashes = 0 /\ pending' <= Len(stash')
    BY <1>6 DEF open, WorkerShape
  <2>6. CASE /\ tail
             /\ files' = recovered /\ active' = keep(lsn0) /\ pc' = "recv"
             /\ catalog' = [sealed |-> sealed, active |-> tailContainer(lsn0)]
    <3>1. n \in 1..n /\ n - 1 \in Nat /\ last \in Seq(Record) /\ scans[n].valid_len \in Nat
      <4>1. n \in 1..n /\ n - 1 \in Nat
        BY <1>1, <2>6
      <4> HIDE DEF scans
      <4> QED BY <4>1, <1>2 DEF Scan
    <3> HIDE DEF scans, last, n
    <3>2. /\ (IF last = <<>> THEN lsn0 ELSE last[1].lsn) \in Nat
          /\ (IF last = <<>> THEN lsn0 ELSE LastOf(last).lsn) \in Nat
      <4>1. CASE last = <<>>
        BY <4>1, <2>2
      <4>2. CASE last # <<>>
        <5>1. LastOf(last) \in Record /\ last[1] \in Record
          BY <3>1, <4>2, LastType
        <5> QED BY <4>2, <5>1 DEF Record
      <4> QED BY <4>1, <4>2
    <3>3. Leaves(last) \in Seq(Leaf)
      BY <3>1, LeavesType
    <3>4. keep(lsn0) \in ActiveSegment /\ keep(lsn0).seg = n - 1
      BY <3>1, <3>2, <3>3 DEF ActiveSegment
    <3>5. IndexOf(last) \in Seq(Entry)
      <4>1. \A r \in Record : r.lsn \in Nat /\ r.off \in Nat
        BY DEF Record
      <4> QED BY <3>1, <4>1, IndexType
    <3>6. tailContainer(lsn0) \in SegmentContainer
      BY <3>1, <3>2, <3>5, ConstantsAssumption DEF Container, SegmentContainer
    <3> HIDE DEF keep, tailContainer, recovered
    <3>7. DirectoryType'
      BY <1>3, <2>3, <2>6, <3>6 DEF DirectoryType, Catalog
    <3>8. WorkerType'
      BY <1>6, <2>6, <3>4 DEF WorkerType
    <3>9. active'.seg + 1 = Len(files') /\ active'.seg + 1 \in DOMAIN files'
      BY <1>1, <1>3, <2>6, <3>1, <3>4, LenProperties
    <3>10. baseline'.hashes <= Len(active'.hashes)
      <4>1. Len(active'.hashes) \in Nat
        BY <2>6, <3>4, LenProperties DEF ActiveSegment
      <4> QED BY <4>1, <2>5
    <3>11. WorkerShape' /\ ActiveIsLast'
      BY <2>5, <2>6, <3>9, <3>10 DEF WorkerShape, ActiveIsLast
    <3> QED BY <1>6, <1>7, <2>4, <3>7, <3>8, <3>11
  <2>7. CASE /\ files' = Append(recovered, EmptyFile) /\ active' = new_active(n, lsn0)
             /\ catalog' = [sealed |-> sealed, active |-> Container(n, lsn0, U64Max, <<>>)]
             /\ pc' = "open_header"
    <3> HIDE DEF n, recovered
    <3>1. files' \in Seq(File) /\ Len(files') = n + 1
      <4>1. EmptyFile \in File
        BY ShortSeqs DEF EmptyFile, File
      <4> QED BY <1>3, <2>7, <4>1, AppendProperties
    <3>2. active' \in ActiveSegment /\ active'.seg = n /\ active'.hashes = <<>>
      BY <1>1, <2>2, <2>7, NewActiveType DEF new_active
    <3>3. Container(n, lsn0, U64Max, <<>>) \in SegmentContainer
      BY <1>1, <2>2, ShortSeqs, ConstantsAssumption DEF Container, SegmentContainer
    <3>4. DirectoryType'
      BY <2>3, <2>7, <3>1, <3>3 DEF DirectoryType, Catalog
    <3>5. WorkerType'
      BY <1>6, <2>7, <3>2 DEF WorkerType
    <3>6. active'.seg + 1 = Len(files') /\ active'.seg + 1 \in DOMAIN files'
      BY <1>1, <3>1, <3>2, LenProperties
    <3>7. baseline'.hashes <= Len(active'.hashes)
      BY <2>5, <3>2
    <3>8. WorkerShape' /\ ActiveIsLast'
      BY <2>5, <2>7, <3>6, <3>7 DEF WorkerShape, ActiveIsLast
    <3> QED BY <1>6, <1>7, <2>4, <3>4, <3>5, <3>8
  <2> QED BY <2>1, <2>6, <2>7, ZenonT(40)
<1> QED BY <1>8, <1>9

LEMMA OpenHeaderType ==
  ASSUME TypeInv, NEW p \in PhysClock, open_header(p)
  PROVE  TypeInv'
<1> USE DEF TypeInv, TypeOK
<1> DEFINE g == [files[Len(files)] EXCEPT !.hdr = "ok"]
<1>1. Len(files) \in DOMAIN files /\ files[Len(files)] \in File
  <2>1. active.seg + 1 \in DOMAIN files
    BY DEF open_header, WorkerShape
  <2> QED BY <2>1, ElementOfSeq, LenProperties DEF DirectoryType
<1>2. files' \in Seq(File) /\ Len(files') = Len(files)
  <2>1. g \in File
    BY <1>1 DEF File
  <2>2. files' = [files EXCEPT ![Len(files)] = g]
    BY DEF open_header
  <2> HIDE DEF g
  <2> QED BY <1>1, <2>1, <2>2, ReplaceFile DEF DirectoryType
<1>3. hlc' \in Nat
  BY ConstantsAssumption, SMTT(30) DEF open_header, HlcNow, CountersType
<1>4. DOMAIN files' = DOMAIN files
  BY <1>2, LenProperties DEF DirectoryType
<1>5. DirectoryType' /\ CountersType' /\ CallsType' /\ GhostsType' /\ WorkerType'
  BY <1>2, <1>3 DEF open_header, DirectoryType, CountersType, CallsType, GhostsType,
     WorkerType, ghosts, bounds
<1>6. WorkerShape' /\ ActiveIsLast'
  BY <1>2, <1>4 DEF open_header, WorkerShape, ActiveIsLast
<1> QED BY <1>5, <1>6

\* No step of the log breaks the types, and nor does a stutter.
LEMMA NextType ==
  TypeInv /\ [Next]_vars => TypeInv'
<1> SUFFICES ASSUME TypeInv, [Next]_vars PROVE TypeInv'
  OBVIOUS
<1>1. ASSUME NEW c \in Clients, NEW size \in Sizes, NEW p \in PhysClock, append(c, size, p)
      PROVE  TypeInv'
  BY <1>1, AppendType
<1>2. ASSUME NEW c \in Clients, NEW k \in DOMAIN Leader, append_replicated(c, k)
      PROVE  TypeInv'
  BY <1>2, ReplicatedType
<1>3. ASSUME NEW c \in Clients, flush(c) \/ send_timeout(c) PROVE TypeInv'
  BY <1>3, FlushType, TimeoutType
<1>4. ASSUME WorkerStep PROVE TypeInv'
  BY <1>4, RecvType, WriteFlushType, RejectType, PlaceType, RollSealType, RollCreateType,
     RollHeaderType, FsyncType, PublishType, CommitType, AckType DEF WorkerStep
<1>5. ASSUME open PROVE TypeInv'
  BY <1>5, OpenType
<1>6. ASSUME NEW p \in PhysClock, open_header(p) PROVE TypeInv'
  BY <1>6, OpenHeaderType
<1>7. ASSUME io_error \/ process_crash \/ power_loss PROVE TypeInv'
  BY <1>7, IoErrorType, ProcessCrashType, PowerLossType
<1>8. ASSUME UNCHANGED vars PROVE TypeInv'
  BY <1>8 DEF TypeInv, TypeOK, ActiveIsLast, DirectoryType, CountersType, CallsType,
     WorkerType, GhostsType, WorkerShape, vars, worker, ghosts, bounds
<1> QED BY <1>1, <1>2, <1>3, <1>4, <1>5, <1>6, <1>7, <1>8 DEF Next

\* Type correctness of the log, and that the worker appends to the last file
\* of the directory and to no other (lib.rs, roll_segment and new_active): what
\* recovery relies on when it looks for a torn tail in the last segment only.
THEOREM TypeCorrect ==
  Spec => [](TypeOK /\ ActiveIsLast)
BY InitType, NextType, PTL DEF Spec, TypeInv
-----------------------------------------------------------------------------
(* The published head and the calls answered with Ok.                      *)

\* The worker is between the recv of a batch and the publication of its head.
InBatch == pc \in {"write", "place", "roll_create", "roll_header", "publish", "commit"}

\* The stash holds the LSNs from the head on, one after the other, and the
\* next one is tentative_lsn: rejected commands leave no gap.
StashDense ==
  InBatch => /\ tentative_lsn = current_lsn + Len(stash)
             /\ \A k \in DOMAIN stash : stash[k].lsn = current_lsn + k - 1

\* When the answers go out the head is past all of the stash.
StashBelowHead == pc = "ack" => \A k \in DOMAIN stash : stash[k].lsn < committed_lsn

\* The worker's own counter is the published one, and outside a batch there
\* is nothing in the stash.
HeadIsPublished == current_lsn = committed_lsn \/ pc \in {"dead", "refused"}

NoAckedWhileClosed == pc \in {"closed", "refused"} => acked = {}

HeadInv ==
  /\ TypeInv /\ StashDense /\ StashBelowHead /\ HeadIsPublished /\ NoAckedWhileClosed
  /\ HeadCoversAcked

LEMMA InitHead == Init => HeadInv
<1> SUFFICES ASSUME Init PROVE HeadInv
  OBVIOUS
<1>1. TypeInv
  BY InitType
<1>2. StashDense /\ StashBelowHead /\ HeadIsPublished /\ NoAckedWhileClosed
      /\ HeadCoversAcked
  BY DEF Init, StashDense, InBatch, StashBelowHead, HeadIsPublished, NoAckedWhileClosed,
         HeadCoversAcked
<1> QED BY <1>1, <1>2 DEF HeadInv

\* Clients move neither the head nor the stash; a replicated entry that is
\* there already is below the head.
LEMMA ClientHead ==
  ASSUME HeadInv, TypeInv',
         \/ \E c \in Clients, size \in Sizes, p \in PhysClock : append(c, size, p)
         \/ \E c \in Clients, k \in DOMAIN Leader : append_replicated(c, k)
         \/ \E c \in Clients : flush(c) \/ send_timeout(c)
  PROVE  HeadInv'
<1> USE DEF HeadInv
<1>1. UNCHANGED <<committed_lsn, worker>>
  BY DEF append, append_replicated, flush, send_timeout
<1>2. Opened
  BY DEF append, append_replicated, flush, send_timeout, Serving
<1>3. \A a \in acked' : a \in acked \/ a[1] < committed_lsn
  <2>1. ASSUME NEW c \in Clients, NEW k \in DOMAIN Leader, append_replicated(c, k)
        PROVE  \A a \in acked' : a \in acked \/ a[1] < committed_lsn
    <3>1. \/ acked' = acked
          \/ k - 1 < committed_lsn /\ acked' = acked \cup {<<k - 1, Leader[k].id>>}
      BY <2>1, Zenon DEF append_replicated
    <3> QED BY <3>1
  <2>2. (\E c \in Clients, k \in DOMAIN Leader : append_replicated(c, k)) \/ acked' = acked
    BY DEF append, flush, send_timeout, ghosts
  <2> QED BY <2>1, <2>2
<1>4. StashDense' /\ StashBelowHead' /\ HeadIsPublished'
  BY <1>1 DEF StashDense, InBatch, StashBelowHead, HeadIsPublished, worker
<1>5. NoAckedWhileClosed'
  BY <1>1, <1>2 DEF NoAckedWhileClosed, Opened, worker
<1>6. HeadCoversAcked'
  BY <1>1, <1>3 DEF HeadCoversAcked
<1> QED BY <1>4, <1>5, <1>6

\* A record placed extends the stash by the next LSN.
LEMMA PlaceHead ==
  ASSUME HeadInv, TypeInv', place
  PROVE  HeadInv'
<1> USE DEF HeadInv
<1>1. /\ current_lsn \in Nat /\ stash \in Seq(Update) /\ Len(stash) \in Nat
      /\ tentative_lsn \in Nat
  BY LenProperties DEF TypeInv, TypeOK, CallsType, CountersType
<1>2. PICK u : stash' = Append(stash, u) /\ u.lsn = tentative_lsn /\ u \in Update
  <2> DEFINE u == [lsn |-> tentative_lsn, id |-> Cmd.id, off |-> active.bytes,
                   client |-> Cmd.client]
  <2>1. stash' = Append(stash, u) /\ u.lsn = tentative_lsn
    BY DEF place
  <2>2. batch # <<>>
    BY DEF place, TypeInv, TypeOK, WorkerShape
  <2>3. Cmd \in Command
    BY <2>2, CmdType DEF TypeInv, TypeOK
  <2>4. u \in Update
    BY <2>3 DEF TypeInv, TypeOK, CountersType, WorkerType, ActiveSegment, Command, Update
  <2> QED BY <2>1, <2>4
<1>3. /\ Len(stash') = Len(stash) + 1 /\ DOMAIN stash' = 1..(Len(stash) + 1)
      /\ \A i \in 1..Len(stash) : stash'[i] = stash[i]
      /\ stash'[Len(stash) + 1] = u
  <2>1. stash' \in Seq(Update)
    BY <1>1, <1>2, AppendProperties
  <2> QED BY <1>1, <1>2, <2>1, AppendProperties, LenProperties
<1>4. tentative_lsn = current_lsn + Len(stash)
      /\ \A k \in 1..Len(stash) : stash[k].lsn = current_lsn + k - 1
  BY <1>1, LenProperties DEF place, StashDense, InBatch
<1>5. StashDense'
  <2>1. tentative_lsn' = current_lsn' + Len(stash')
    BY <1>1, <1>3, <1>4 DEF place
  <2>2. ASSUME NEW k \in DOMAIN stash' PROVE stash'[k].lsn = current_lsn' + k - 1
    <3>1. CASE k \in 1..Len(stash)
      BY <3>1, <1>3, <1>4 DEF place
    <3>2. CASE k = Len(stash) + 1
      BY <3>2, <1>1, <1>2, <1>3, <1>4 DEF place
    <3> QED BY <3>1, <3>2, <1>1, <1>3
  <2> QED BY <2>1, <2>2 DEF StashDense
<1>6. StashBelowHead' /\ HeadIsPublished' /\ NoAckedWhileClosed' /\ HeadCoversAcked'
  BY DEF place, StashBelowHead, HeadIsPublished, NoAckedWhileClosed, HeadCoversAcked, ghosts
<1> QED BY <1>5, <1>6

\* The head moves past the whole stash, never back.
LEMMA CommitHead ==
  ASSUME HeadInv, TypeInv', commit
  PROVE  HeadInv'
<1> USE DEF HeadInv
<1>1. /\ current_lsn \in Nat /\ committed_lsn = current_lsn /\ stash \in Seq(Update)
      /\ Len(stash) \in Nat /\ DOMAIN stash = 1..Len(stash)
      /\ \A k \in DOMAIN stash : stash[k].lsn = current_lsn + k - 1
  BY LenProperties DEF commit, TypeInv, TypeOK, CallsType, CountersType, StashDense, InBatch,
     HeadIsPublished
<1>2. /\ committed_lsn' = current_lsn' /\ committed_lsn' = committed_lsn + Len(stash)
  <2>1. CASE stash = <<>>
    BY <2>1, <1>1 DEF commit
  <2>2. CASE stash # <<>>
    <3>1. Len(stash) \in DOMAIN stash
      BY <2>2, <1>1
    <3> QED BY <2>2, <3>1, <1>1 DEF commit, LastOf
  <2> QED BY <2>1, <2>2
<1>3. StashBelowHead' /\ HeadCoversAcked'
  <2>1. \A k \in DOMAIN stash : stash[k].lsn < committed_lsn'
    BY <1>1, <1>2
  <2>2. \A a \in acked : a[1] \in Nat /\ a[1] < committed_lsn'
    BY <1>1, <1>2 DEF HeadCoversAcked, TypeInv, TypeOK, GhostsType
  <2> QED BY <2>1, <2>2 DEF commit, StashBelowHead, HeadCoversAcked, ghosts
<1>4. StashDense' /\ HeadIsPublished' /\ NoAckedWhileClosed'
  BY <1>2 DEF commit, StashDense, InBatch, HeadIsPublished, NoAckedWhileClosed
<1> QED BY <1>3, <1>4

\* The other phases of the worker.
LEMMA WorkerHead ==
  ASSUME HeadInv, TypeInv', WorkerStep
  PROVE  HeadInv'
<1> USE DEF HeadInv
<1>1. CASE recv
  <2>1. stash' = <<>> /\ tentative_lsn' = current_lsn /\ current_lsn' = current_lsn
        /\ current_lsn \in Nat
    BY <1>1 DEF recv, TypeInv, TypeOK, CountersType
  <2>2. StashDense'
    BY <2>1 DEF StashDense
  <2>3. StashBelowHead' /\ HeadIsPublished' /\ NoAckedWhileClosed' /\ HeadCoversAcked'
    BY <1>1 DEF recv, StashBelowHead, HeadIsPublished, NoAckedWhileClosed, HeadCoversAcked,
       ghosts
  <2> QED BY <2>2, <2>3
<1>2. CASE place
  BY <1>2, PlaceHead
<1>3. CASE commit
  BY <1>3, CommitHead
<1>4. CASE ack
  <2>1. \A a \in acked' : a[1] < committed_lsn'
    <3>1. \A a \in acked' \ acked : \E i \in DOMAIN stash : a = <<stash[i].lsn, stash[i].id>>
      BY <1>4 DEF ack
    <3>2. \A i \in DOMAIN stash : stash[i].lsn < committed_lsn
      BY <1>4 DEF ack, StashBelowHead
    <3> QED BY <1>4, <3>1, <3>2 DEF ack, HeadCoversAcked
  <2>2. StashDense' /\ StashBelowHead' /\ HeadIsPublished' /\ NoAckedWhileClosed'
    BY <1>4 DEF ack, StashDense, InBatch, StashBelowHead, HeadIsPublished, NoAckedWhileClosed
  <2> QED BY <2>1, <2>2 DEF HeadCoversAcked
<1>5. CASE write_flush \/ reject
  BY <1>5 DEF write_flush, reject, StashDense, InBatch, StashBelowHead, HeadIsPublished,
     NoAckedWhileClosed, HeadCoversAcked, ghosts
<1>6. CASE roll_seal \/ roll_create \/ fsync \/ publish
  BY <1>6 DEF roll_seal, roll_create, fsync, publish, StashDense, InBatch, StashBelowHead,
     HeadIsPublished, NoAckedWhileClosed, HeadCoversAcked, ghosts
<1>7. ASSUME NEW p \in PhysClock, roll_header(p) PROVE HeadInv'
  BY <1>7 DEF roll_header, StashDense, InBatch, StashBelowHead, HeadIsPublished,
     NoAckedWhileClosed, HeadCoversAcked, ghosts
<1> QED BY <1>1, <1>2, <1>3, <1>4, <1>5, <1>6, <1>7 DEF WorkerStep

\* Failures and recoveries: what was answered is forgotten with the process.
LEMMA FailureHead ==
  ASSUME HeadInv, TypeInv',
         \/ open \/ (\E p \in PhysClock : open_header(p))
         \/ io_error \/ process_crash \/ power_loss
  PROVE  HeadInv'
<1> USE DEF HeadInv
<1>1. CASE open
  <2>1. acked = {} /\ acked' = {}
    BY <1>1, ZenonT(40) DEF open, NoAckedWhileClosed, ghosts
  <2>2. pc' \in {"refused", "recv", "open_header"}
    BY <1>1, Zenon DEF open
  <2>3. current_lsn' = committed_lsn' \/ pc' = "refused"
    BY <1>1, Zenon DEF open
  <2> QED BY <2>1, <2>2, <2>3 DEF StashDense, InBatch, StashBelowHead, HeadIsPublished,
             NoAckedWhileClosed, HeadCoversAcked
<1>2. ASSUME NEW p \in PhysClock, open_header(p) PROVE HeadInv'
  BY <1>2 DEF open_header, StashDense, InBatch, StashBelowHead, HeadIsPublished,
     NoAckedWhileClosed, HeadCoversAcked, ghosts
<1>3. CASE io_error
  BY <1>3 DEF io_error, StashDense, InBatch, StashBelowHead, HeadIsPublished,
     NoAckedWhileClosed, HeadCoversAcked, ghosts
<1>4. ASSUME NEW kind, NEW fs, Restart(kind, fs) PROVE HeadInv'
  BY <1>4 DEF Restart, StashDense, InBatch, StashBelowHead, HeadIsPublished,
     NoAckedWhileClosed, HeadCoversAcked
<1>5. CASE process_crash
  BY <1>4, <1>5 DEF process_crash
<1>6. CASE power_loss
  BY <1>4, <1>6 DEF power_loss
<1> QED BY <1>1, <1>2, <1>3, <1>5, <1>6

LEMMA NextHead == HeadInv /\ [Next]_vars => HeadInv'
<1> SUFFICES ASSUME HeadInv, [Next]_vars PROVE HeadInv'
  OBVIOUS
<1>1. TypeInv'
  BY NextType DEF HeadInv
<1>2. CASE Next
  BY <1>1, <1>2, ClientHead, WorkerHead, FailureHead DEF Next
<1>3. CASE UNCHANGED vars
  BY <1>1, <1>3 DEF HeadInv, StashDense, InBatch, StashBelowHead, HeadIsPublished,
     NoAckedWhileClosed, HeadCoversAcked, vars, worker, ghosts
<1> QED BY <1>2, <1>3

\* An append that returned Ok(lsn) is below the published head for as long as
\* the log is open, so a reader that loads the head afterwards never answers
\* None for it (lib.rs phases 5 and 6, Log::read's first check).
THEOREM AckedBelowHead ==
  Spec => []HeadCoversAcked
<1>1. Spec => []HeadInv
  BY InitHead, NextHead, PTL DEF Spec
<1>2. HeadInv => HeadCoversAcked
  BY DEF HeadInv
<1> QED BY <1>1, <1>2, PTL
-----------------------------------------------------------------------------
(* One file.                                                                *)

\* A file in any state of the directory: no more of it is fsynced than there
\* is, all of it is if a footer follows, and its records lie one after the
\* other in the order of their LSNs.
FileSound(f) ==
  /\ f.dur <= Len(f.recs) /\ (f.foot # NoFooter => f.dur = Len(f.recs))
  /\ \A i \in 1..Len(f.recs) : f.recs[i].size > 0
  /\ \A i, j \in 1..Len(f.recs) :
       i < j => /\ f.recs[i].lsn < f.recs[j].lsn
                /\ f.recs[i].off + f.recs[i].size <= f.recs[j].off

\* g has the first records of f and no others.
Shorter(g, f) ==
  Len(g.recs) <= Len(f.recs) /\ \A j \in 1..Len(g.recs) : g.recs[j] = f.recs[j]

\* What is on disk of f is still there in g.
KeepsDurable(g, f) == f.dur <= g.dur /\ f.dur <= Len(g.recs)

LEMMA FileRecs ==
  ASSUME NEW f \in File
  PROVE  /\ f.recs \in Seq(Record) /\ Len(f.recs) \in Nat /\ f.dur \in Nat
         /\ DOMAIN f.recs = 1..Len(f.recs)
         /\ \A j \in 1..Len(f.recs) : f.recs[j] \in Record
<1>1. f.recs \in Seq(Record) /\ f.dur \in Nat
  BY DEF File
<1> QED BY <1>1, LenProperties, ElementOfSeq

LEMMA ShorterSound ==
  ASSUME NEW f \in File, FileSound(f), NEW g \in File, Shorter(g, f), g.dur <= Len(g.recs),
         g.foot # NoFooter => g.dur = Len(g.recs)
  PROVE  FileSound(g)
<1>1. Len(g.recs) \in Nat /\ Len(f.recs) \in Nat /\ Len(g.recs) <= Len(f.recs)
  BY FileRecs DEF Shorter
<1>2. \A j \in 1..Len(g.recs) : g.recs[j] = f.recs[j] /\ j \in 1..Len(f.recs)
  BY <1>1 DEF Shorter
<1>3. \A j \in 1..Len(g.recs) : g.recs[j].size > 0
  BY <1>2 DEF FileSound
<1>4. \A i, j \in 1..Len(g.recs) :
        i < j => /\ g.recs[i].lsn < g.recs[j].lsn
                 /\ g.recs[i].off + g.recs[i].size <= g.recs[j].off
  BY <1>2 DEF FileSound
<1> QED BY <1>3, <1>4 DEF FileSound

\* Power loss.
LEMMA ImageSound ==
  ASSUME NEW f \in File, FileSound(f), NEW g \in SurvivingImages(f)
  PROVE  /\ g \in File /\ FileSound(g) /\ Shorter(g, f) /\ KeepsDurable(g, f)
         /\ g.dur = Len(g.recs)
<1>1. f.recs \in Seq(Record) /\ Len(f.recs) \in Nat /\ f.dur \in Nat
  BY FileRecs
<1>2. CASE \E n \in f.dur..Len(f.recs), half \in BOOLEAN : g = CutAt(f, n, half)
  <2>1. PICK n \in f.dur..Len(f.recs), half \in BOOLEAN : g = CutAt(f, n, half)
    BY <1>2
  <2>2. n \in 0..Len(f.recs)
    BY <1>1
  <2> DEFINE recs == SubSeq(f.recs, 1, n)
  <2>3. recs \in Seq(Record) /\ Len(recs) = n /\ \A j \in 1..n : recs[j] = f.recs[j]
    BY <1>1, <2>2, PrefixType
  <2>4. g = [ver |-> f.ver, hdr |-> f.hdr, recs |-> recs, foot |-> NoFooter, torn |-> half,
             dur |-> n, fdur |-> f.fdur]
    BY <2>1 DEF CutAt, File
  <2> HIDE DEF recs
  <2>5. g \in File
    BY <2>2, <2>3, <2>4 DEF File
  <2>6. Shorter(g, f) /\ KeepsDurable(g, f) /\ g.dur = Len(g.recs)
    BY <1>1, <2>2, <2>3, <2>4 DEF Shorter, KeepsDurable
  <2> QED BY <2>5, <2>6, <1>1, <2>2, ShorterSound
<1>3. CASE g = [f EXCEPT !.dur = Len(f.recs), !.fdur = TRUE]
  <2>1. g = [ver |-> f.ver, hdr |-> f.hdr, recs |-> f.recs, foot |-> f.foot, torn |-> f.torn,
             dur |-> Len(f.recs), fdur |-> TRUE]
    BY <1>3 DEF File
  <2>2. g \in File
    BY <1>1, <2>1 DEF File
  <2>3. Shorter(g, f) /\ g.dur = Len(g.recs) /\ KeepsDurable(g, f)
    BY <1>1, <2>1 DEF Shorter, KeepsDurable, FileSound
  <2> QED BY <1>1, <2>2, <2>3, ShorterSound
<1> QED BY <1>2, <1>3 DEF SurvivingImages

\* rollback_active_file cuts no record that starts before the baseline.
LEMMA RollbackSound ==
  ASSUME NEW f \in File, FileSound(f), baseline \in Baseline
  PROVE  LET g == rollback_active_file(f)
         IN  /\ g \in File /\ FileSound(g) /\ Shorter(g, f) /\ g.foot = NoFooter
             /\ g.dur = (IF Len(g.recs) < f.dur THEN Len(g.recs) ELSE f.dur)
             /\ \A j \in 1..Len(f.recs) : f.recs[j].off < baseline.bytes => j <= Len(g.recs)
<1> DEFINE keep == {i \in DOMAIN f.recs : f.recs[i].off < baseline.bytes}
           n == Cardinality(keep)
           g == rollback_active_file(f)
<1>1. /\ f.recs \in Seq(Record) /\ Len(f.recs) \in Nat /\ f.dur \in Nat
      /\ DOMAIN f.recs = 1..Len(f.recs) /\ \A j \in 1..Len(f.recs) : f.recs[j] \in Record
  BY FileRecs
<1>2. \A m \in Nat : IsFiniteSet(1..m) /\ Cardinality(1..m) = m
  BY IntervalCardinality
<1>3. keep \subseteq 1..Len(f.recs)
  BY <1>1
<1>4. IsFiniteSet(keep) /\ n \in 0..Len(f.recs)
  <2>1. IsFiniteSet(keep) /\ Cardinality(keep) <= Cardinality(1..Len(f.recs))
    <3> HIDE DEF keep
    <3> QED BY <1>1, <1>2, <1>3, FS_Subset
  <2>2. Cardinality(keep) \in Nat
    <3> HIDE DEF keep
    <3> QED BY <2>1, FS_CardinalityType
  <2> QED BY <2>1, <2>2, <1>1, <1>2
<1>5. ASSUME NEW j \in 1..Len(f.recs), f.recs[j].off < baseline.bytes
      PROVE  j <= n
  <2>1. 1..j \subseteq keep
    <3> SUFFICES ASSUME NEW i \in 1..j PROVE i \in keep
      OBVIOUS
    <3>1. i \in 1..Len(f.recs)
      BY <1>1
    <3>2. i = j \/ f.recs[i].off + f.recs[i].size <= f.recs[j].off
      BY <3>1 DEF FileSound
    <3>3. /\ f.recs[i].off \in Nat /\ f.recs[i].size \in Nat /\ f.recs[j].off \in Nat
          /\ baseline.bytes \in Nat
      BY <1>1, <3>1 DEF Record, Baseline
    <3>4. f.recs[i].off <= f.recs[j].off
      BY <3>2, <3>3, SMTT(30)
    <3>5. f.recs[i].off < baseline.bytes
      BY <1>5, <3>3, <3>4, SMTT(30)
    <3> QED BY <1>1, <3>1, <3>5
  <2>2. j \in Nat /\ Cardinality(1..j) = j
    BY <1>1, <1>2
  <2>3. Cardinality(1..j) <= Cardinality(keep)
    <3> HIDE DEF keep
    <3> QED BY <1>4, <2>1, FS_Subset
  <2> QED BY <2>2, <2>3
<1>6. g = [f EXCEPT !.recs = SubSeq(@, 1, n), !.foot = NoFooter, !.torn = FALSE,
                    !.dur = IF n < @ THEN n ELSE @, !.fdur = FALSE]
  BY DEF rollback_active_file
<1> HIDE DEF keep, n
<1> DEFINE recs == SubSeq(f.recs, 1, n)
<1>7. recs \in Seq(Record) /\ Len(recs) = n /\ \A j \in 1..n : recs[j] = f.recs[j]
  BY <1>1, <1>4, PrefixType
<1>8. g = [ver |-> f.ver, hdr |-> f.hdr, recs |-> recs, foot |-> NoFooter, torn |-> FALSE,
           dur |-> IF n < f.dur THEN n ELSE f.dur, fdur |-> FALSE]
  BY <1>6 DEF File
<1>9. g \in File
  BY RollbackType
<1> HIDE DEF g, recs
<1>10. /\ g.recs = recs /\ g.foot = NoFooter
       /\ g.dur = (IF Len(g.recs) < f.dur THEN Len(g.recs) ELSE f.dur)
  BY <1>7, <1>8
<1>11. Shorter(g, f) /\ g.dur <= Len(g.recs)
  BY <1>1, <1>4, <1>7, <1>10 DEF Shorter, FileSound
<1>12. FileSound(g)
  BY <1>9, <1>10, <1>11, ShorterSound
<1> QED BY <1>4, <1>5, <1>7, <1>9, <1>10, <1>11, <1>12 DEF g

\* Nothing of a sound file is lost to the scan.
LEMMA ScanSound ==
  ASSUME NEW f \in File, FileSound(f)
  PROVE  /\ scan_segment_file(f).recs = f.recs
         /\ scan_segment_file(f).sealed <=> f.foot # NoFooter
<1>1. f.recs \in Seq(Record) /\ Len(f.recs) \in Nat
  BY FileRecs
<1>2. Increasing(f.recs, Len(f.recs))
  BY <1>1, SMTT(30) DEF Increasing, FileSound
<1>3. GoodLen(f.recs) = Len(f.recs)
  <2>1. /\ GoodLen(f.recs) \in 0..Len(f.recs)
        /\ \A m \in 0..Len(f.recs) : Increasing(f.recs, m) => m <= GoodLen(f.recs)
    <3>1. \E n \in 0..Len(f.recs) :
            Increasing(f.recs, n) /\ \A m \in 0..Len(f.recs) : Increasing(f.recs, m) => m <= n
      <4>1. Len(f.recs) \in 0..Len(f.recs) /\ \A m \in 0..Len(f.recs) : m <= Len(f.recs)
        BY <1>1
      <4> QED BY <1>2, <4>1
    <3> QED BY <3>1 DEF GoodLen
  <2> QED BY <1>1, <1>2, <2>1
<1>4. SubSeq(f.recs, 1, GoodLen(f.recs)) = f.recs
  BY <1>1, <1>3
<1> QED BY <1>4 DEF scan_segment_file

\* What open makes of a file holds the same records, no less of them on disk.
Repaired(f) ==
  IF scan_segment_file(f).corrupt THEN execute_physical_repair(f, scan_segment_file(f)) ELSE f

LEMMA RepairSound ==
  ASSUME NEW f \in File, FileSound(f)
  PROVE  LET g == Repaired(f)
         IN  /\ g \in File /\ FileSound(g) /\ g.recs = f.recs /\ g.dur >= f.dur
             /\ g.foot = f.foot
             /\ scan_segment_file(f).corrupt => g.dur = Len(g.recs)
<1> DEFINE scan == scan_segment_file(f)
           g == Repaired(f)
<1>1. f.recs \in Seq(Record) /\ Len(f.recs) \in Nat /\ f.dur \in Nat
  BY FileRecs
<1>2. scan \in Scan /\ scan.recs = f.recs /\ (scan.sealed <=> f.foot # NoFooter)
  BY ScanType, ScanSound
<1> HIDE DEF scan
<1>3. CASE ~scan.corrupt
  <2>1. g = f
    BY <1>3 DEF Repaired, scan
  <2> QED BY <1>1, <1>3, <2>1 DEF scan, FileSound
<1>4. CASE scan.corrupt /\ scan.sealed
  <2>1. g = [f EXCEPT !.dur = Len(f.recs), !.fdur = TRUE]
    BY <1>4 DEF Repaired, execute_physical_repair, scan
  <2>2. g = [ver |-> f.ver, hdr |-> f.hdr, recs |-> f.recs, foot |-> f.foot, torn |-> f.torn,
             dur |-> Len(f.recs), fdur |-> TRUE]
    BY <2>1 DEF File
  <2>3. g \in File
    BY <1>1, <2>2 DEF File
  <2> QED BY <1>1, <2>2, <2>3 DEF FileSound
<1>5. CASE scan.corrupt /\ ~scan.sealed
  <2>1. g = [f EXCEPT !.recs = scan.recs, !.foot = NoFooter, !.torn = FALSE,
                      !.dur = Len(scan.recs), !.fdur = FALSE, !.hdr = "ok",
                      !.ver = IF scan.recs = <<>> THEN "cur" ELSE @]
    BY <1>5 DEF Repaired, execute_physical_repair, scan
  <2>2. g = [ver |-> IF f.recs = <<>> THEN "cur" ELSE f.ver, hdr |-> "ok", recs |-> f.recs,
             foot |-> NoFooter, torn |-> FALSE, dur |-> Len(f.recs), fdur |-> FALSE]
    BY <1>2, <2>1 DEF File
  <2>3. g \in File
    BY <1>1, <2>2 DEF File
  <2>4. f.foot = NoFooter
    BY <1>2, <1>5
  <2> QED BY <1>1, <2>2, <2>3, <2>4 DEF FileSound
<1> QED BY <1>3, <1>4, <1>5 DEF g

LEMMA SealSound ==
  ASSUME NEW f \in File, FileSound(f), NEW scan \in Scan
  PROVE  LET g == seal_file(f, scan)
         IN  /\ g \in File /\ FileSound(g) /\ g.recs = f.recs /\ g.dur >= f.dur
             /\ g.dur = Len(g.recs)
<1> DEFINE g == seal_file(f, scan)
<1>1. f.recs \in Seq(Record) /\ Len(f.recs) \in Nat /\ f.dur \in Nat
  BY FileRecs
<1>2. PICK foot : g = [f EXCEPT !.dur = Len(f.recs), !.fdur = TRUE, !.foot = foot]
  BY ZenonT(40) DEF seal_file
<1>3. g = [ver |-> f.ver, hdr |-> f.hdr, recs |-> f.recs, foot |-> foot, torn |-> f.torn,
           dur |-> Len(f.recs), fdur |-> TRUE]
  BY <1>2 DEF File
<1>4. g \in File
  BY SealType
<1> HIDE DEF g
<1>5. FileSound(g)
  BY <1>1, <1>3 DEF FileSound
<1> QED BY <1>1, <1>3, <1>4, <1>5 DEF g, FileSound

\* Where the bytes of a file end.
LEMMA PhysLenEnd ==
  ASSUME NEW f \in File, FileSound(f)
  PROVE  /\ PhysLen(f) \in Nat
         /\ \A j \in 1..Len(f.recs) : f.recs[j].off + f.recs[j].size <= PhysLen(f)
<1>1. /\ f.recs \in Seq(Record) /\ Len(f.recs) \in Nat
      /\ \A j \in 1..Len(f.recs) : f.recs[j] \in Record
  BY FileRecs
<1>2. PhysLen(f) \in Nat
  BY PhysLenType
<1>3. ASSUME NEW j \in 1..Len(f.recs)
      PROVE  f.recs[j].off + f.recs[j].size <= PhysLen(f)
  <2> DEFINE n == Len(f.recs)
  <2>1. f.recs # <<>> /\ n \in 1..Len(f.recs)
    BY <1>1
  <2>2. PhysLen(f) = f.recs[n].off + f.recs[n].size
    BY <2>1 DEF PhysLen, LastOf
  <2>3. /\ f.recs[j].off \in Nat /\ f.recs[j].size \in Nat
        /\ f.recs[n].off \in Nat /\ f.recs[n].size \in Nat
    BY <1>1, <2>1 DEF Record
  <2>4. j = n \/ f.recs[j].off + f.recs[j].size <= f.recs[n].off
    BY <1>1, <2>1 DEF FileSound
  <2> HIDE DEF n
  <2> QED BY <2>2, <2>3, <2>4, SMTT(30)
<1> QED BY <1>2, <1>3

\* A record placed behind all others.
LEMMA PlaceSound ==
  ASSUME NEW f \in File, FileSound(f), f.foot = NoFooter, NEW r \in Record,
         r.off = PhysLen(f), r.size > 0, \A j \in 1..Len(f.recs) : f.recs[j].lsn < r.lsn
  PROVE  LET g == [f EXCEPT !.recs = Append(@, r)]
         IN  /\ g \in File /\ FileSound(g) /\ g.dur = f.dur /\ g.foot = NoFooter
             /\ Len(g.recs) = Len(f.recs) + 1 /\ g.recs[Len(g.recs)] = r
             /\ \A j \in 1..Len(f.recs) : g.recs[j] = f.recs[j]
<1> DEFINE g == [f EXCEPT !.recs = Append(@, r)]
           recs == Append(f.recs, r)
<1>1. f.recs \in Seq(Record) /\ Len(f.recs) \in Nat /\ f.dur \in Nat
  BY FileRecs
<1>2. /\ recs \in Seq(Record) /\ Len(recs) = Len(f.recs) + 1 /\ recs[Len(f.recs) + 1] = r
      /\ \A j \in 1..Len(f.recs) : recs[j] = f.recs[j]
  BY <1>1, AppendProperties
<1>3. g = [ver |-> f.ver, hdr |-> f.hdr, recs |-> recs, foot |-> f.foot, torn |-> f.torn,
           dur |-> f.dur, fdur |-> f.fdur]
  BY SMTT(60) DEF File
<1> HIDE DEF recs
<1>4. g \in File
  BY <1>2, <1>3 DEF File
<1>5. g.recs = recs /\ g.dur = f.dur /\ g.foot = NoFooter
  BY <1>3
<1> HIDE DEF g
<1>6. \A i \in 1..Len(recs) : recs[i].size > 0
  BY <1>1, <1>2 DEF FileSound
<1>7. ASSUME NEW i \in 1..Len(recs), NEW j \in 1..Len(recs), i < j
      PROVE  recs[i].lsn < recs[j].lsn /\ recs[i].off + recs[i].size <= recs[j].off
  <2>1. i \in 1..Len(f.recs)
    BY <1>1, <1>2, <1>7
  <2>2. CASE j \in 1..Len(f.recs)
    BY <1>2, <1>7, <2>1, <2>2 DEF FileSound
  <2>3. CASE j = Len(f.recs) + 1
    BY <1>2, <2>1, <2>3, PhysLenEnd
  <2> QED BY <1>1, <1>2, <2>2, <2>3
<1>8. FileSound(g)
  BY <1>1, <1>2, <1>5, <1>6, <1>7 DEF FileSound
<1> QED BY <1>2, <1>4, <1>5, <1>8 DEF g
-----------------------------------------------------------------------------
(* The directory.                                                           *)

FilesSound == \A i \in DOMAIN files : FileSound(files[i])

\* There is a worker, or there will be one when the header is written.
Running == pc \notin {"closed", "refused", "dead"}
ActiveFile == files[active.seg + 1]
\* The LSN of the next record.
NextPlace == IF InBatch THEN tentative_lsn ELSE current_lsn

\* The active file ends where the worker believes or before, is open for
\* records, and has in front of the rollback baseline what the head covers.
ActiveSound ==
  Running =>
    /\ PhysLen(ActiveFile) <= active.bytes
    /\ IF pc \in {"roll_create", "roll_header"}
       THEN ActiveFile.dur = Len(ActiveFile.recs) ELSE ActiveFile.foot = NoFooter
    /\ InBatch => \A j \in 1..Len(ActiveFile.recs) :
                    ActiveFile.recs[j].lsn < current_lsn => ActiveFile.recs[j].off < baseline.bytes

RecordsBelow == Running => \A r \in AllRecs(files) : r.lsn < NextPlace

\* A file is left behind with all of it fsynced.
OthersDurable ==
  Running => \A i \in DOMAIN files : i # active.seg + 1 => files[i].dur = Len(files[i].recs)

CreatedEmpty ==
  /\ Creating => files[Len(files)].recs = <<>> /\ files[Len(files)].foot = NoFooter
  /\ pc = "open_header" => active.bytes >= HeaderLen

DirInv == FilesSound /\ ActiveSound /\ RecordsBelow /\ OthersDurable /\ CreatedEmpty

LEMMA FilesAre ==
  ASSUME TypeInv
  PROVE  /\ files \in Seq(File) /\ Len(files) \in Nat /\ DOMAIN files = 1..Len(files)
         /\ \A i \in DOMAIN files : files[i] \in File
         /\ active.seg \in Nat /\ active.bytes \in Nat /\ baseline \in Baseline
         /\ pc \notin {"closed", "refused"} => active.seg + 1 \in DOMAIN files
<1>1. files \in Seq(File) /\ active \in ActiveSegment /\ baseline \in Baseline
  BY DEF TypeInv, TypeOK, DirectoryType, WorkerType
<1>2. pc \notin {"closed", "refused"} => active.seg + 1 \in DOMAIN files
  BY DEF TypeInv, TypeOK, WorkerShape
<1>3. active.seg \in Nat /\ active.bytes \in Nat
  BY <1>1 DEF ActiveSegment
<1> QED BY <1>1, <1>2, <1>3, LenProperties, ElementOfSeq

\* A record of a directory has its place in a file.
LEMMA RecordPlaces ==
  ASSUME NEW fs \in Seq(File)
  PROVE  /\ \A r : r \in AllRecs(fs)
                     <=> \E i \in DOMAIN fs : \E j \in 1..Len(fs[i].recs) : r = fs[i].recs[j]
         /\ \A r : r \in DurableRecs(fs)
                     <=> \E i \in DOMAIN fs : \E j \in 1..fs[i].dur : r = fs[i].recs[j]
         /\ AllRecs(fs) \subseteq Record
<1>1. \A i \in DOMAIN fs : fs[i] \in File
  BY ElementOfSeq, LenProperties
<1>2. \A i \in DOMAIN fs : /\ DOMAIN fs[i].recs = 1..Len(fs[i].recs)
                           /\ \A j \in 1..Len(fs[i].recs) : fs[i].recs[j] \in Record
  BY <1>1, FileRecs
<1>3. ASSUME NEW r
      PROVE  r \in AllRecs(fs)
               <=> \E i \in DOMAIN fs : \E j \in 1..Len(fs[i].recs) : r = fs[i].recs[j]
  <2> DEFINE Part(i) == {fs[i].recs[j] : j \in DOMAIN fs[i].recs}
  <2>1. \A i \in DOMAIN fs : r \in Part(i) <=> \E j \in 1..Len(fs[i].recs) : r = fs[i].recs[j]
    BY <1>2
  <2>2. AllRecs(fs) = UNION {Part(i) : i \in DOMAIN fs}
    BY DEF AllRecs
  <2>3. r \in AllRecs(fs) <=> \E i \in DOMAIN fs : r \in Part(i)
    <3> HIDE DEF Part
    <3> QED BY <2>2
  <2> HIDE DEF Part
  <2> QED BY <2>1, <2>3
<1>4. ASSUME NEW r
      PROVE  r \in DurableRecs(fs)
               <=> \E i \in DOMAIN fs : \E j \in 1..fs[i].dur : r = fs[i].recs[j]
  <2> DEFINE Part(i) == {fs[i].recs[j] : j \in 1..fs[i].dur}
  <2>1. DurableRecs(fs) = UNION {Part(i) : i \in DOMAIN fs}
    BY DEF DurableRecs
  <2>2. r \in DurableRecs(fs) <=> \E i \in DOMAIN fs : r \in Part(i)
    <3> HIDE DEF Part
    <3> QED BY <2>1
  <2> QED BY <2>2
<1>5. AllRecs(fs) \subseteq Record
  <2> SUFFICES ASSUME NEW r \in AllRecs(fs) PROVE r \in Record
    OBVIOUS
  <2>1. PICK i \in DOMAIN fs : \E j \in 1..Len(fs[i].recs) : r = fs[i].recs[j]
    BY <1>3
  <2> QED BY <1>2, <2>1
<1> QED BY <1>3, <1>4, <1>5

\* What is durable is there.
LEMMA DurableAreThere ==
  ASSUME TypeInv, FilesSound
  PROVE  DurableRecs(files) \subseteq AllRecs(files)
<1> SUFFICES ASSUME NEW r \in DurableRecs(files) PROVE r \in AllRecs(files)
  OBVIOUS
<1>1. files \in Seq(File)
  BY FilesAre
<1>2. PICK i \in DOMAIN files : \E j \in 1..files[i].dur : r = files[i].recs[j]
  BY <1>1, RecordPlaces
<1>3. files[i].dur <= Len(files[i].recs) /\ files[i].dur \in Nat /\ Len(files[i].recs) \in Nat
  BY FilesAre, FileRecs DEF FileSound, FilesSound
<1>4. \E j \in 1..Len(files[i].recs) : r = files[i].recs[j]
  BY <1>2, <1>3
<1> QED BY <1>1, <1>4, RecordPlaces

\* Steps that leave the files alone.
LEMMA QuietDir ==
  ASSUME TypeInv, DirInv, UNCHANGED <<files, active>>, ~Creating',
         Running', Running, InBatch /\ InBatch' => UNCHANGED <<current_lsn, baseline>>,
         pc \notin {"roll_create", "roll_header"}, pc' # "roll_create",
         InBatch' => \/ InBatch
                     \/ current_lsn' = current_lsn /\ baseline'.bytes = active.bytes,
         NextPlace' = NextPlace
  PROVE  DirInv'
<1>1. FilesSound' /\ OthersDurable' /\ CreatedEmpty'
  BY DEF DirInv, FilesSound, OthersDurable, CreatedEmpty, Creating
<1>2. RecordsBelow'
  BY DEF DirInv, RecordsBelow
<1>3. ActiveFile \in File /\ FileSound(ActiveFile) /\ active.bytes \in Nat
  BY FilesAre DEF ActiveFile, DirInv, FilesSound, Running
<1>4. InBatch' => \A j \in 1..Len(ActiveFile.recs) :
                    ActiveFile.recs[j].lsn < current_lsn' => ActiveFile.recs[j].off < baseline'.bytes
  <2>1. CASE InBatch
    BY <2>1 DEF DirInv, ActiveSound
  <2>2. ASSUME ~InBatch, InBatch', NEW j \in 1..Len(ActiveFile.recs)
        PROVE  ActiveFile.recs[j].off < active.bytes
    <3>1. ActiveFile.recs[j] \in Record /\ ActiveFile.recs[j].size > 0
      BY <1>3, FileRecs DEF FileSound
    <3>2. ActiveFile.recs[j].off + ActiveFile.recs[j].size <= PhysLen(ActiveFile)
          /\ PhysLen(ActiveFile) \in Nat
      BY <1>3, PhysLenEnd
    <3>3. PhysLen(ActiveFile) <= active.bytes
      BY DEF DirInv, ActiveSound
    <3> QED BY <1>3, <3>1, <3>2, <3>3 DEF Record
  <2> QED BY <2>1, <2>2
<1>5. ActiveSound'
  BY <1>4 DEF DirInv, ActiveSound, ActiveFile, Creating
<1> QED BY <1>1, <1>2, <1>5 DEF DirInv
-----------------------------------------------------------------------------
(* The commands: in the queue, in the batch, or kept for phase 6.           *)

Elements(s) == {s[k] : k \in DOMAIN s}
Carried == Elements(queue) \cup Elements(batch) \cup Elements(flushes)

\* A flush never asks for more than is committed.
CommandSound(cmd) == cmd.mark <= committed_lsn /\ (cmd.op = "append" => cmd.size > 0)
CommandsSound ==
  /\ \A cmd \in Carried : CommandSound(cmd)
  /\ ~Serving => Carried = {}
  /\ pc \in {"place", "roll_create", "roll_header"} => Cmd.op = "append" /\ CasHolds(Cmd)

\* What a client puts in the queue.
NewCommand(cmd) ==
  \/ /\ cmd.op = "append" /\ cmd.size \in Sizes /\ cmd.mark = 0
     /\ \/ Leader = <<>> /\ cmd.expected = NoLsn
        \/ \E k \in DOMAIN Leader :
             /\ cmd.expected = k - 1 /\ cmd.id = Leader[k].id /\ cmd.ts = Leader[k].ts
  \/ cmd.op = "flush" /\ cmd.mark = committed_lsn

LEMMA NoElements == Elements(<<>>) = {}
BY DEF Elements

LEMMA AppendElements ==
  ASSUME NEW S, NEW s \in Seq(S), NEW x \in S
  PROVE  Elements(Append(s, x)) = Elements(s) \cup {x}
<1> DEFINE t == Append(s, x)
<1>1. Len(s) \in Nat /\ DOMAIN s = 1..Len(s)
  BY LenProperties
<1>2. /\ t \in Seq(S) /\ Len(t) = Len(s) + 1 /\ t[Len(s) + 1] = x
      /\ \A i \in 1..Len(s) : t[i] = s[i]
  BY AppendProperties
<1>3. DOMAIN t = 1..(Len(s) + 1)
  BY <1>2, LenProperties
<1> HIDE DEF t
<1>4. Elements(t) = Elements(s) \cup {x}
  BY <1>1, <1>2, <1>3 DEF Elements
<1> QED BY <1>4 DEF t

LEMMA SliceElements ==
  ASSUME NEW S, NEW s \in Seq(S), NEW n \in 0..Len(s)
  PROVE  /\ Elements(SubSeq(s, 1, n)) \subseteq Elements(s)
         /\ Elements(SubSeq(s, n + 1, Len(s))) \subseteq Elements(s)
BY LenProperties DEF Elements

\* A caller that gives up takes its command with it and leaves the others.
LEMMA GivenUp ==
  ASSUME queue \in Seq(Command), NEW c \in Clients, send_timeout(c)
  PROVE  /\ Elements(queue') \subseteq Elements(queue)
         /\ \A k, l \in DOMAIN queue' :
              k < l => \E i, j \in DOMAIN queue :
                         i < j /\ queue'[k] = queue[i] /\ queue'[l] = queue[j]
<1>1. PICK n \in DOMAIN queue :
        queue' = SubSeq(queue, 1, n - 1) \o SubSeq(queue, n + 1, Len(queue))
  BY DEF send_timeout
<1> DEFINE old(j) == IF j < n THEN j ELSE j + 1
<1>2. /\ n \in Nat /\ DOMAIN queue' = 1..(Len(queue) - 1) /\ Len(queue) \in Nat
      /\ \A j \in DOMAIN queue' : old(j) \in DOMAIN queue /\ queue'[j] = queue[old(j)]
  <2> DEFINE rest == SubSeq(queue, 1, n - 1) \o SubSeq(queue, n + 1, Len(queue))
  <2>1. /\ DOMAIN rest = 1..(Len(queue) - 1)
        /\ \A j \in DOMAIN rest : old(j) \in DOMAIN queue /\ rest[j] = queue[old(j)]
    BY Without
  <2>2. queue' = rest /\ Len(queue) \in Nat /\ n \in Nat
    BY <1>1, LenProperties
  <2> HIDE DEF rest, old
  <2> QED BY <2>1, <2>2
<1>3. \A k, l \in DOMAIN queue' : k < l => old(k) < old(l)
  BY <1>2
<1> HIDE DEF old
<1>4. Elements(queue') \subseteq Elements(queue)
  BY <1>2 DEF Elements
<1> QED BY <1>2, <1>3, <1>4

LEMMA HeadElements ==
  ASSUME NEW S, NEW s \in Seq(S), s # <<>>
  PROVE  Head(s) \in Elements(s) /\ Elements(Tail(s)) \subseteq Elements(s)
BY LenProperties DEF Elements

\* Commands reach the worker from the clients and from nowhere else.
LEMMA CommandsMove ==
  ASSUME TypeInv, [Next]_vars
  PROVE  /\ \A cmd \in Carried' : cmd \in Carried \/ (NewCommand(cmd) /\ Serving)
         /\ ~Serving' => Carried' = {} \/ UNCHANGED <<queue, batch, flushes, pc>> \/ open
<1>1. queue \in Seq(Command) /\ batch \in Seq(Command) /\ flushes \in Seq(Command)
  BY DEF TypeInv, TypeOK, CallsType
<1>2. Elements(<<>>) = {}
  BY NoElements
<1>3. ASSUME NEW c \in Clients, NEW size \in Sizes, NEW p \in PhysClock, append(c, size, p)
      PROVE  (\A cmd \in Carried' : cmd \in Carried \/ (NewCommand(cmd) /\ Serving)) /\ Serving'
  <2> DEFINE cmd == [op |-> "append", client |-> c, id |-> nextId + 1, ts |-> hlc', size |-> size,
                     expected |-> NoLsn, mark |-> 0]
  <2>1. Serving /\ Leader = <<>> /\ UNCHANGED <<batch, flushes, pc>>
        /\ queue' = Append(queue, cmd)
    BY <1>3, Zenon DEF append, worker
  <2>2. cmd \in Command
    BY <1>3, AppendType, ConstantsAssumption
       DEF TypeInv, TypeOK, CountersType, Command, append, HlcNow
  <2>3. NewCommand(cmd)
    BY <2>1 DEF NewCommand
  <2> HIDE DEF cmd
  <2>4. Elements(queue') \subseteq Elements(queue) \cup {cmd}
    <3>1. Elements(Append(queue, cmd)) = Elements(queue) \cup {cmd}
      BY <1>1, <2>2, AppendElements
    <3> QED BY <2>1, <3>1
  <2> QED BY <2>1, <2>3, <2>4 DEF Carried, Serving, Opened
<1>4. ASSUME NEW c \in Clients, NEW k \in DOMAIN Leader, append_replicated(c, k)
      PROVE  (\A cmd \in Carried' : cmd \in Carried \/ (NewCommand(cmd) /\ Serving)) /\ Serving'
  <2> DEFINE cmd == [op |-> "append", client |-> c, id |-> Leader[k].id, ts |-> Leader[k].ts,
                     size |-> Leader[k].size, expected |-> k - 1, mark |-> 0]
  <2>1. Serving /\ UNCHANGED <<batch, flushes, pc>>
        /\ (queue' = Append(queue, cmd) \/ queue' = queue)
    BY <1>4, Zenon DEF append_replicated, worker
  <2>2. k - 1 \in Nat /\ Leader[k] \in [id : Nat, ts : Nat, size : Sizes]
    <3> DEFINE Sent == [id : Nat, ts : Nat, size : Sizes]
    <3>1. Leader \in Seq(Sent)
      BY LeaderAssumption
    <3> HIDE DEF Sent
    <3>2. k - 1 \in Nat /\ Leader[k] \in Sent
      BY <3>1, LenProperties, ElementOfSeq
    <3> QED BY <3>2 DEF Sent
  <2>3. cmd \in Command /\ cmd.size \in Sizes
    BY <2>2, ConstantsAssumption DEF Command
  <2>4. NewCommand(cmd)
    BY <2>3 DEF NewCommand
  <2> HIDE DEF cmd
  <2>5. Elements(queue') \subseteq Elements(queue) \cup {cmd}
    BY <1>1, <2>1, <2>3, AppendElements
  <2> QED BY <2>1, <2>4, <2>5 DEF Carried, Serving, Opened
<1>5. ASSUME NEW c \in Clients, flush(c)
      PROVE  (\A cmd \in Carried' : cmd \in Carried \/ (NewCommand(cmd) /\ Serving)) /\ Serving'
  <2> DEFINE cmd == [op |-> "flush", client |-> c, id |-> 0, ts |-> 0, size |-> 0,
                     expected |-> NoLsn, mark |-> committed_lsn]
  <2>1. Serving /\ UNCHANGED <<batch, flushes, pc>> /\ queue' = Append(queue, cmd)
    BY <1>5, Zenon DEF flush, worker
  <2>2. cmd \in Command
    BY DEF Command, TypeInv, TypeOK, CountersType
  <2>3. NewCommand(cmd)
    BY DEF NewCommand
  <2> HIDE DEF cmd
  <2>4. Elements(queue') \subseteq Elements(queue) \cup {cmd}
    BY <1>1, <2>1, <2>2, AppendElements
  <2> QED BY <2>1, <2>3, <2>4 DEF Carried, Serving, Opened
<1>6. CASE recv
  <2>1. PICK n \in 0..Len(queue) : /\ batch' = SubSeq(queue, 1, n)
                                   /\ queue' = SubSeq(queue, n + 1, Len(queue))
    BY <1>1, <1>6, Received
  <2>2. Elements(batch') \subseteq Elements(queue) /\ Elements(queue') \subseteq Elements(queue)
    BY <1>1, <2>1, SliceElements
  <2>3. flushes' = <<>> /\ pc' = "write"
    BY <1>6 DEF recv
  <2> QED BY <1>2, <2>2, <2>3 DEF Carried, Serving, Opened
<1>7. CASE write_flush \/ reject \/ place
  <2>1. batch # <<>>
    BY <1>7 DEF write_flush, reject, place, TypeInv, TypeOK, WorkerShape
  <2>2. /\ batch' = Tail(batch) /\ queue' = queue /\ pc' = "write"
        /\ flushes' = Append(flushes, Cmd) \/ flushes' = flushes
    BY <1>7 DEF write_flush, reject, place
  <2>3. Cmd \in Command /\ Cmd \in Elements(batch) /\ Elements(batch') \subseteq Elements(batch)
    BY <1>1, <2>1, <2>2, HeadElements, CmdType DEF Cmd, TypeInv, TypeOK
  <2>4. Elements(flushes') \subseteq Elements(flushes) \cup {Cmd}
    <3>1. flushes \in Seq(Command) /\ Cmd \in Command
      BY <1>1, <2>3
    <3>2. Elements(Append(flushes, Cmd)) = Elements(flushes) \cup {Cmd}
      BY <3>1, AppendElements
    <3> QED BY <2>2, <3>2
  <2> QED BY <2>2, <2>3, <2>4 DEF Carried, Serving, Opened
<1>8. CASE ack
  <2>1. flushes' = <<>> /\ queue' = queue /\ batch' = batch /\ pc' = "recv"
    BY <1>8 DEF ack
  <2> QED BY <1>2, <2>1 DEF Carried, Serving, Opened
<1>9. CASE roll_seal \/ roll_create \/ fsync \/ publish \/ commit
  <2>1. UNCHANGED <<queue, batch, flushes>> /\ pc' \in {"roll_create", "roll_header", "publish",
                                                        "commit", "ack"}
    BY <1>9 DEF roll_seal, roll_create, fsync, publish, commit
  <2> QED BY <2>1 DEF Carried, Serving, Opened
<1>10. ASSUME NEW p \in PhysClock, roll_header(p) \/ open_header(p)
       PROVE  Carried' = Carried /\ Serving'
  <2>1. UNCHANGED <<queue, batch, flushes>> /\ pc' \in {"place", "recv"}
    BY <1>10 DEF roll_header, open_header
  <2> QED BY <2>1 DEF Carried, Serving, Opened
<1>11. CASE open
  BY <1>11, ZenonT(40) DEF open, Carried
<1>12. CASE io_error \/ process_crash \/ power_loss
  <2>1. queue' = <<>> /\ batch' = <<>> /\ flushes' = <<>>
    BY <1>12 DEF io_error, process_crash, power_loss, Restart, DropCalls
  <2> QED BY <1>2, <2>1 DEF Carried
<1>13. CASE UNCHANGED vars
  BY <1>13 DEF vars, worker, Carried
<1>14. ASSUME NEW c \in Clients, send_timeout(c)
       PROVE  Carried' \subseteq Carried /\ Serving'
  <2>1. Elements(queue') \subseteq Elements(queue)
    BY <1>1, <1>14, GivenUp
  <2>2. Serving /\ UNCHANGED <<batch, flushes, pc>>
    BY <1>14 DEF send_timeout, worker
  <2> QED BY <2>1, <2>2 DEF Carried, Serving, Opened
<1> QED BY <1>3, <1>4, <1>5, <1>6, <1>7, <1>8, <1>9, <1>10, <1>11, <1>12, <1>13, <1>14
        DEF Next, WorkerStep

\* While the log serves, neither head moves back.
LEMMA HeadsGrow ==
  ASSUME HeadInv, [Next]_vars, Opened, Opened'
  PROVE  committed_lsn' >= committed_lsn /\ current_lsn' >= current_lsn
<1>1. committed_lsn \in Nat /\ current_lsn \in Nat
  BY DEF HeadInv, TypeInv, TypeOK, CountersType
<1>2. CASE commit
  <2>1. CASE stash = <<>>
    BY <1>1, <1>2, <2>1 DEF commit
  <2>2. CASE stash # <<>>
    <3>1. stash \in Seq(Update) /\ Len(stash) \in Nat /\ DOMAIN stash = 1..Len(stash)
          /\ Len(stash) >= 1
      BY <2>2, LenProperties DEF HeadInv, TypeInv, TypeOK, CallsType
    <3>2. LastOf(stash).lsn = current_lsn + Len(stash) - 1 /\ current_lsn = committed_lsn
      BY <1>2, <3>1 DEF HeadInv, StashDense, InBatch, HeadIsPublished, commit, LastOf
    <3>3. current_lsn' = LastOf(stash).lsn + 1 /\ committed_lsn' = current_lsn'
      BY <1>2, <2>2 DEF commit
    <3>4. current_lsn' = current_lsn + Len(stash)
      BY <1>1, <3>1, <3>2, <3>3
    <3> QED BY <1>1, <3>1, <3>2, <3>3, <3>4
  <2> QED BY <2>1, <2>2
<1>3. ~commit => UNCHANGED <<committed_lsn, current_lsn>>
  <2>1. ~open /\ ~process_crash /\ ~power_loss
    BY DEF open, process_crash, power_loss, Restart, Opened
  <2>2. (\E c \in Clients, size \in Sizes, p \in PhysClock : append(c, size, p))
        => UNCHANGED <<committed_lsn, current_lsn>>
    BY DEF append, worker
  <2>3. (\E c \in Clients, k \in DOMAIN Leader : append_replicated(c, k))
        => UNCHANGED <<committed_lsn, current_lsn>>
    BY DEF append_replicated, worker
  <2>4. (\E c \in Clients : flush(c) \/ send_timeout(c)) => UNCHANGED <<committed_lsn, current_lsn>>
    BY DEF flush, send_timeout, worker
  <2>5. WorkerStep /\ ~commit => UNCHANGED <<committed_lsn, current_lsn>>
    BY DEF WorkerStep, recv, write_flush, reject, place, roll_seal, roll_create, roll_header,
       fsync, publish, ack
  <2>6. (\E p \in PhysClock : open_header(p)) \/ io_error
        => UNCHANGED <<committed_lsn, current_lsn>>
    BY DEF open_header, io_error
  <2>7. UNCHANGED vars => UNCHANGED <<committed_lsn, current_lsn>>
    BY DEF vars, worker
  <2> QED BY <2>1, <2>2, <2>3, <2>4, <2>5, <2>6, <2>7 DEF Next
<1> QED BY <1>1, <1>2, <1>3

LEMMA InitCommands == Init => CommandsSound
BY NoElements DEF Init, CommandsSound, Carried

LEMMA NextCommands ==
  ASSUME HeadInv, CommandsSound, [Next]_vars
  PROVE  CommandsSound'
<1>1. TypeInv
  BY DEF HeadInv
<1>2. committed_lsn \in Nat /\ \A cmd \in Carried : cmd.mark \in Nat
  <2>1. queue \in Seq(Command) /\ batch \in Seq(Command) /\ flushes \in Seq(Command)
    BY <1>1 DEF TypeInv, TypeOK, CallsType
  <2>2. Carried \subseteq Command
    BY <2>1, ElementOfSeq, LenProperties DEF Carried, Elements
  <2> QED BY <1>1, <2>2 DEF Command, TypeInv, TypeOK, CountersType
<1>3. ASSUME NEW cmd, NewCommand(cmd) PROVE CommandSound(cmd)
  <2>1. \A size \in Sizes : size > 0
    BY ConstantsAssumption
  <2>2. CASE cmd.op = "append" /\ cmd.size \in Sizes /\ cmd.mark = 0
    BY <1>2, <2>1, <2>2 DEF CommandSound
  <2>3. CASE cmd.op = "flush" /\ cmd.mark = committed_lsn
    BY <1>2, <2>3 DEF CommandSound
  <2> QED BY <1>3, <2>2, <2>3 DEF NewCommand
<1>4. \A cmd \in Carried' : CommandSound(cmd) /\ cmd.mark \in Nat
  BY <1>1, <1>2, <1>3, CommandsMove DEF CommandsSound, NewCommand
<1>5. Carried' # {} => Serving \/ open
  <2>1. Carried' # {} => Carried # {} \/ Serving
    BY <1>1, CommandsMove
  <2> QED BY <2>1 DEF CommandsSound
<1>6. ~Serving' => Carried' = {}
  <2>1. CASE open
    <3>1. Carried' = Carried /\ ~Serving
      BY <2>1 DEF open, Carried, Serving, Opened
    <3> QED BY <3>1 DEF CommandsSound
  <2>2. CASE UNCHANGED <<queue, batch, flushes, pc>>
    <3>1. Carried' = Carried /\ (Serving' <=> Serving)
      BY <2>2 DEF Carried, Serving, Opened
    <3> QED BY <3>1 DEF CommandsSound
  <2> QED BY <1>1, <2>1, <2>2, CommandsMove
<1>7. \A cmd \in Carried' : CommandSound(cmd)'
  <2> SUFFICES ASSUME NEW cmd \in Carried' PROVE CommandSound(cmd)'
    OBVIOUS
  <2>1. Serving' /\ (Serving \/ open)
    BY <1>5, <1>6
  <2>2. ~open
    <3> SUFFICES ASSUME open PROVE FALSE
      OBVIOUS
    <3>1. Carried' = Carried /\ ~Serving
      BY DEF open, Carried, Serving, Opened
    <3> QED BY <3>1 DEF CommandsSound
  <2>3. committed_lsn' \in Nat /\ committed_lsn' >= committed_lsn
    <3>1. Opened /\ Opened'
      BY <2>1, <2>2 DEF Serving
    <3>2. TypeInv'
      BY <1>1, NextType
    <3> QED BY <3>1, <3>2, HeadsGrow DEF TypeInv, TypeOK, CountersType
  <2> QED BY <1>2, <1>4, <2>3 DEF CommandSound
<1>8. pc' \in {"place", "roll_create", "roll_header"} => Cmd'.op = "append" /\ CasHolds(Cmd)'
  <2> SUFFICES ASSUME pc' \in {"place", "roll_create", "roll_header"}
               PROVE  Cmd'.op = "append" /\ CasHolds(Cmd)'
    OBVIOUS
  <2>1. CASE roll_seal
    BY <2>1 DEF roll_seal, Cmd, CasHolds
  <2>2. CASE roll_create \/ \E p \in PhysClock : roll_header(p)
    BY <2>2 DEF roll_create, roll_header, Cmd, CasHolds, CommandsSound
  <2>3. CASE UNCHANGED <<pc, batch, tentative_lsn>>
    BY <2>3 DEF Cmd, CasHolds, CommandsSound
  <2>4. \/ roll_seal \/ roll_create \/ (\E p \in PhysClock : roll_header(p))
        \/ UNCHANGED <<pc, batch, tentative_lsn>>
    <3>1. WorkerStep => roll_seal \/ roll_create \/ (\E p \in PhysClock : roll_header(p))
      BY DEF WorkerStep, recv, write_flush, reject, place, fsync, publish, commit, ack
    <3>2. ~open /\ ~io_error /\ ~process_crash /\ ~power_loss
          /\ ~\E p \in PhysClock : open_header(p)
      <4>1. open => pc' \in {"refused", "recv", "open_header"}
        BY Zenon DEF open
      <4> QED BY <4>1 DEF io_error, process_crash, power_loss, Restart, open_header
    <3>3. /\ (\E c \in Clients, size \in Sizes, p \in PhysClock : append(c, size, p))
             => UNCHANGED <<pc, batch, tentative_lsn>>
          /\ (\E c \in Clients, k \in DOMAIN Leader : append_replicated(c, k))
             => UNCHANGED <<pc, batch, tentative_lsn>>
          /\ (\E c \in Clients : flush(c) \/ send_timeout(c)) => UNCHANGED <<pc, batch, tentative_lsn>>
      BY DEF append, append_replicated, flush, send_timeout, worker
    <3>4. UNCHANGED vars => UNCHANGED <<pc, batch, tentative_lsn>>
      BY DEF vars, worker
    <3> QED BY <3>1, <3>2, <3>3, <3>4 DEF Next
  <2> QED BY <2>1, <2>2, <2>3, <2>4
<1> QED BY <1>6, <1>7, <1>8 DEF CommandsSound
-----------------------------------------------------------------------------
(* What a step does to the records of the directory.                        *)

LEMMA SameRecs ==
  ASSUME NEW fs \in Seq(File), NEW gs \in Seq(File), Len(fs) <= Len(gs),
         \A i \in DOMAIN fs : gs[i].recs = fs[i].recs /\ gs[i].dur >= fs[i].dur,
         \A i \in DOMAIN gs : i \in DOMAIN fs \/ gs[i].recs = <<>>
  PROVE  AllRecs(gs) = AllRecs(fs) /\ DurableRecs(fs) \subseteq DurableRecs(gs)
<1>1. /\ Len(fs) \in Nat /\ Len(gs) \in Nat /\ DOMAIN fs = 1..Len(fs) /\ DOMAIN gs = 1..Len(gs)
      /\ DOMAIN fs \subseteq DOMAIN gs
  BY LenProperties
<1>2. AllRecs(fs) \subseteq AllRecs(gs)
  <2> SUFFICES ASSUME NEW r \in AllRecs(fs) PROVE r \in AllRecs(gs)
    OBVIOUS
  <2>1. PICK i \in DOMAIN fs : \E j \in 1..Len(fs[i].recs) : r = fs[i].recs[j]
    BY RecordPlaces
  <2> QED BY <1>1, <2>1, RecordPlaces
<1>3. AllRecs(gs) \subseteq AllRecs(fs)
  <2> SUFFICES ASSUME NEW r \in AllRecs(gs) PROVE r \in AllRecs(fs)
    OBVIOUS
  <2>1. PICK i \in DOMAIN gs : \E j \in 1..Len(gs[i].recs) : r = gs[i].recs[j]
    BY RecordPlaces
  <2>2. gs[i].recs # <<>>
    <3>1. Len(<<>>) = 0
      OBVIOUS
    <3> QED BY <2>1, <3>1
  <2>3. i \in DOMAIN fs /\ gs[i].recs = fs[i].recs
    BY <2>2
  <2> QED BY <2>1, <2>3, RecordPlaces
<1>4. DurableRecs(fs) \subseteq DurableRecs(gs)
  <2> SUFFICES ASSUME NEW r \in DurableRecs(fs) PROVE r \in DurableRecs(gs)
    OBVIOUS
  <2>1. PICK i \in DOMAIN fs : \E j \in 1..fs[i].dur : r = fs[i].recs[j]
    BY RecordPlaces
  <2>2. PICK j \in 1..fs[i].dur : r = fs[i].recs[j]
    BY <2>1
  <2>3. i \in DOMAIN gs /\ fs[i].dur \in Nat /\ gs[i].dur \in Nat
    <3>1. i \in DOMAIN gs /\ fs[i] \in File /\ gs[i] \in File
      BY <1>1, ElementOfSeq
    <3> QED BY <3>1 DEF File
  <2>4. j \in 1..gs[i].dur /\ r = gs[i].recs[j]
    BY <2>2, <2>3
  <2> QED BY <2>3, <2>4, RecordPlaces
<1> QED BY <1>2, <1>3, <1>4

\* One file replaced by one with the same records.
LEMMA SameFile ==
  ASSUME NEW fs \in Seq(File), NEW i \in DOMAIN fs, NEW g \in File,
         g.recs = fs[i].recs, g.dur >= fs[i].dur
  PROVE  LET gs == [fs EXCEPT ![i] = g]
         IN  /\ gs \in Seq(File) /\ Len(gs) = Len(fs)
             /\ AllRecs(gs) = AllRecs(fs) /\ DurableRecs(fs) \subseteq DurableRecs(gs)
<1> DEFINE gs == [fs EXCEPT ![i] = g]
<1>1. gs \in Seq(File) /\ Len(gs) = Len(fs) /\ Len(fs) \in Nat /\ DOMAIN gs = DOMAIN fs
  BY ReplaceFile, LenProperties
<1>2. \A k \in DOMAIN fs : gs[k].recs = fs[k].recs /\ gs[k].dur >= fs[k].dur
  <2>1. \A k \in DOMAIN fs : fs[k].dur \in Nat
    <3>1. \A k \in DOMAIN fs : fs[k] \in File
      BY ElementOfSeq, LenProperties
    <3> QED BY <3>1 DEF File
  <2> QED BY <2>1
<1>3. Len(fs) <= Len(gs)
  BY <1>1
<1> HIDE DEF gs
<1>4. AllRecs(gs) = AllRecs(fs) /\ DurableRecs(fs) \subseteq DurableRecs(gs)
  BY <1>1, <1>2, <1>3, SameRecs
<1> QED BY <1>1, <1>4 DEF gs

\* A directory of which something is gone, and what must not be.
Within(gs, fs) ==
  \A i \in DOMAIN gs : gs[i].recs # <<>> => i \in DOMAIN fs /\ Shorter(gs[i], fs[i])

LEMMA WithinRecs ==
  ASSUME NEW fs \in Seq(File), NEW gs \in Seq(File), Within(gs, fs)
  PROVE  AllRecs(gs) \subseteq AllRecs(fs)
<1> SUFFICES ASSUME NEW r \in AllRecs(gs) PROVE r \in AllRecs(fs)
  OBVIOUS
<1>1. PICK i \in DOMAIN gs : \E j \in 1..Len(gs[i].recs) : r = gs[i].recs[j]
  BY RecordPlaces
<1>2. PICK j \in 1..Len(gs[i].recs) : r = gs[i].recs[j]
  BY <1>1
<1>3. gs[i].recs # <<>>
  <2>1. Len(<<>>) = 0
    OBVIOUS
  <2> QED BY <1>2, <2>1
<1>4. i \in DOMAIN fs /\ Shorter(gs[i], fs[i])
  BY <1>3 DEF Within
<1>5. gs[i] \in File /\ fs[i] \in File
  BY <1>4, ElementOfSeq, LenProperties
<1>6. Len(gs[i].recs) \in Nat /\ Len(fs[i].recs) \in Nat
  BY <1>5, FileRecs
<1>7. j \in 1..Len(fs[i].recs) /\ r = fs[i].recs[j]
  BY <1>2, <1>4, <1>6 DEF Shorter
<1> QED BY <1>4, <1>7, RecordPlaces

LEMMA EmptySound == EmptyFile \in File /\ FileSound(EmptyFile)
<1>1. EmptyFile \in File
  BY ShortSeqs DEF EmptyFile, File
<1>2. EmptyFile.recs = <<>> /\ Len(<<>>) = 0 /\ EmptyFile.dur = 0
  BY DEF EmptyFile
<1> QED BY <1>1, <1>2 DEF FileSound

\* The record that place writes.
Placed == [lsn |-> tentative_lsn, ts |-> Cmd.ts, id |-> Cmd.id, off |-> PhysLen(ActiveFile),
           size |-> Cmd.size]

LEMMA PlaceDir ==
  ASSUME HeadInv, DirInv, CommandsSound, place
  PROVE  /\ DirInv' /\ AllRecs(files') = AllRecs(files) \cup {Placed}
         /\ DurableRecs(files) \subseteq DurableRecs(files')
         /\ Cmd \in Command /\ Cmd.op = "append" /\ CasHolds(Cmd)
<1> DEFINE k == active.seg + 1
           f == ActiveFile
           r == Placed
           g == [f EXCEPT !.recs = Append(@, r)]
<1>1. TypeInv /\ Running /\ pc \in {"write", "place"} /\ batch # <<>>
  BY DEF HeadInv, place, Running, TypeInv, TypeOK, WorkerShape
<1>2. /\ files \in Seq(File) /\ Len(files) \in Nat /\ DOMAIN files = 1..Len(files)
      /\ \A i \in DOMAIN files : files[i] \in File
      /\ k \in DOMAIN files /\ f \in File /\ FileSound(f) /\ f.foot = NoFooter
      /\ active.seg \in Nat /\ active.bytes \in Nat /\ PhysLen(f) <= active.bytes
      /\ baseline \in Baseline
  BY <1>1, FilesAre DEF ActiveFile, DirInv, FilesSound, ActiveSound, Running
<1>3. /\ Cmd \in Command /\ Cmd \in Carried /\ Cmd.size \in Nat /\ Cmd.ts \in Nat /\ Cmd.id \in Nat
      /\ Cmd.op = "append" /\ Cmd.size > 0 /\ CasHolds(Cmd)
  <2>1. batch \in Seq(Command) /\ Cmd \in Command
    BY <1>1, CmdType DEF TypeInv, TypeOK, CallsType
  <2>2. Cmd \in Carried
    BY <1>1, <2>1, HeadElements DEF Carried, Cmd
  <2>3. Cmd.op = "append" /\ CasHolds(Cmd)
    BY DEF place, CommandsSound
  <2> QED BY <2>1, <2>2, <2>3 DEF CommandsSound, CommandSound, Command
<1>4. PhysLen(f) \in Nat /\ \A j \in 1..Len(f.recs) : f.recs[j].off + f.recs[j].size <= PhysLen(f)
  BY <1>2, PhysLenEnd
<1>5. tentative_lsn \in Nat /\ current_lsn \in Nat /\ current_lsn <= tentative_lsn /\ InBatch
      /\ InBatch' /\ Running'
  <2>1. Len(stash) \in Nat /\ current_lsn \in Nat
    BY <1>1, LenProperties DEF TypeInv, TypeOK, CallsType, CountersType
  <2>2. InBatch /\ InBatch' /\ Running'
    BY <1>1 DEF InBatch, place, Running
  <2> QED BY <2>1, <2>2 DEF HeadInv, StashDense
<1>6. r \in Record /\ r.off = PhysLen(f) /\ r.size > 0 /\ r.lsn = tentative_lsn
      /\ r.size = Cmd.size
  BY <1>3, <1>4, <1>5 DEF Record, Placed
<1>7. \A i \in DOMAIN files : \A j \in 1..Len(files[i].recs) : files[i].recs[j].lsn < tentative_lsn
  BY <1>1, <1>2, <1>5, RecordPlaces DEF DirInv, RecordsBelow, NextPlace
<1>8. \A j \in 1..Len(f.recs) : f.recs[j].lsn < r.lsn
  BY <1>2, <1>6, <1>7 DEF ActiveFile
<1> HIDE DEF r, f
<1>9. /\ g \in File /\ FileSound(g) /\ g.dur = f.dur /\ g.foot = NoFooter
      /\ Len(g.recs) = Len(f.recs) + 1 /\ g.recs[Len(g.recs)] = r
      /\ \A j \in 1..Len(f.recs) : g.recs[j] = f.recs[j]
  BY <1>2, <1>6, <1>8, PlaceSound
<1>10. files' = [files EXCEPT ![k] = g] /\ ActiveFile' = g /\ files'[k] = g
       /\ active'.seg = active.seg /\ active'.bytes = active.bytes + r.size
  <2>1. files' = [files EXCEPT ![k] = g]
    BY DEF place, f, r, Placed, ActiveFile
  <2>2. active'.seg = active.seg /\ active'.bytes = active.bytes + Cmd.size
    <3>1. active \in ActiveSegment
      BY <1>1 DEF TypeInv, TypeOK, WorkerType
    <3> QED BY <3>1 DEF place, ActiveSegment
  <2> HIDE DEF g
  <2> QED BY <1>2, <1>6, <2>1, <2>2 DEF ActiveFile
<1>11. f = files[k] /\ Len(f.recs) \in Nat /\ f.dur \in Nat
  BY <1>2, FileRecs DEF f, ActiveFile
<1> HIDE DEF g, k
<1>12. /\ files' \in Seq(File) /\ Len(files') = Len(files) /\ DOMAIN files' = DOMAIN files
       /\ \A i \in DOMAIN files : i # k => files'[i] = files[i]
  BY <1>2, <1>9, <1>10, ReplaceFile
<1>13. AllRecs(files') = AllRecs(files) \cup {r}
  <2>1. ASSUME NEW x \in AllRecs(files') PROVE x \in AllRecs(files) \cup {r}
    <3>1. PICK i \in DOMAIN files' : \E j \in 1..Len(files'[i].recs) : x = files'[i].recs[j]
      BY <1>12, <2>1, RecordPlaces
    <3>2. PICK j \in 1..Len(files'[i].recs) : x = files'[i].recs[j]
      BY <3>1
    <3>3. CASE i # k
      <4>1. i \in DOMAIN files /\ j \in 1..Len(files[i].recs) /\ x = files[i].recs[j]
        BY <1>12, <3>2, <3>3
      <4>2. x \in AllRecs(files)
        BY <1>2, <4>1, RecordPlaces
      <4> QED BY <4>2
    <3>4. CASE i = k
      <4>1. j \in 1..(Len(f.recs) + 1) /\ x = g.recs[j]
        BY <1>9, <1>10, <3>2, <3>4
      <4>2. CASE j = Len(f.recs) + 1
        BY <1>9, <4>1, <4>2
      <4>3. CASE j \in 1..Len(f.recs)
        BY <1>2, <1>9, <1>11, <4>1, <4>3, RecordPlaces
      <4> QED BY <1>11, <4>1, <4>2, <4>3
    <3> QED BY <3>3, <3>4
  <2>2. ASSUME NEW x \in AllRecs(files) PROVE x \in AllRecs(files')
    <3>1. PICK i \in DOMAIN files : \E j \in 1..Len(files[i].recs) : x = files[i].recs[j]
      BY <1>2, <2>2, RecordPlaces
    <3>2. PICK j \in 1..Len(files[i].recs) : x = files[i].recs[j]
      BY <3>1
    <3>3. j \in 1..Len(files'[i].recs) /\ x = files'[i].recs[j]
      <4>1. CASE i # k
        BY <1>12, <3>2, <4>1
      <4>2. CASE i = k
        BY <1>9, <1>10, <1>11, <3>2, <4>2
      <4> QED BY <4>1, <4>2
    <3> QED BY <1>12, <3>3, RecordPlaces
  <2>3. r \in AllRecs(files')
    <3>1. k \in DOMAIN files' /\ Len(g.recs) \in 1..Len(files'[k].recs)
          /\ r = files'[k].recs[Len(g.recs)]
      BY <1>2, <1>9, <1>10, <1>11, <1>12
    <3> QED BY <1>12, <3>1, RecordPlaces
  <2> QED BY <2>1, <2>2, <2>3
<1>14. DurableRecs(files) \subseteq DurableRecs(files')
  <2> SUFFICES ASSUME NEW x \in DurableRecs(files) PROVE x \in DurableRecs(files')
    OBVIOUS
  <2>1. PICK i \in DOMAIN files : \E j \in 1..files[i].dur : x = files[i].recs[j]
    BY <1>2, RecordPlaces
  <2>2. PICK j \in 1..files[i].dur : x = files[i].recs[j]
    BY <2>1
  <2>3. j \in 1..files'[i].dur /\ x = files'[i].recs[j]
    <3>1. CASE i # k
      BY <1>12, <2>2, <3>1
    <3>2. CASE i = k
      <4>1. j \in 1..Len(f.recs)
        BY <1>2, <1>11, <2>2, <3>2 DEF FileSound
      <4> QED BY <1>9, <1>10, <1>11, <2>2, <3>2, <4>1
    <3> QED BY <3>1, <3>2
  <2> QED BY <1>12, <2>3, RecordPlaces
<1>15. FilesSound' /\ OthersDurable' /\ CreatedEmpty'
  <2>1. FilesSound'
    BY <1>2, <1>9, <1>10, <1>12 DEF DirInv, FilesSound
  <2>2. OthersDurable'
    BY <1>1, <1>10, <1>12 DEF DirInv, OthersDurable, k
  <2>3. CreatedEmpty'
    BY DEF place, CreatedEmpty, Creating
  <2> QED BY <2>1, <2>2, <2>3
<1>16. RecordsBelow'
  <2>1. NextPlace' = tentative_lsn + 1 /\ NextPlace = tentative_lsn
    BY <1>5 DEF NextPlace, place
  <2>2. \A x \in AllRecs(files) : x.lsn \in Nat /\ x.lsn < tentative_lsn
    BY <1>1, <1>2, <2>1, RecordPlaces DEF DirInv, RecordsBelow, Record
  <2> QED BY <1>5, <1>6, <1>13, <2>1, <2>2 DEF RecordsBelow
<1>17. ActiveSound'
  <2>1. PhysLen(g) = PhysLen(f) + r.size
    <3>1. g.recs # <<>> /\ LastOf(g.recs) = r
      <4>1. Len(g.recs) # 0 /\ Len(<<>>) = 0
        BY <1>9, <1>11
      <4> QED BY <1>9, <4>1 DEF LastOf
    <3> QED BY <1>6, <3>1 DEF PhysLen
  <2>2. PhysLen(g) <= active'.bytes
    <3>1. r.size \in Nat
      BY <1>6 DEF Record
    <3> QED BY <1>2, <1>4, <1>10, <2>1, <3>1
  <2>3. UNCHANGED <<current_lsn, baseline>> /\ pc' = "write"
    BY DEF place
  <2>4. ASSUME NEW j \in 1..Len(g.recs), g.recs[j].lsn < current_lsn
        PROVE  g.recs[j].off < baseline.bytes
    <3>1. CASE j \in 1..Len(f.recs)
      <4>1. \A i \in 1..Len(f.recs) : f.recs[i].lsn < current_lsn => f.recs[i].off < baseline.bytes
        BY <1>1, <1>5 DEF DirInv, ActiveSound, f
      <4> QED BY <1>9, <2>4, <3>1, <4>1
    <3>2. CASE j = Len(f.recs) + 1
      BY <1>5, <1>6, <1>9, <2>4, <3>2
    <3> QED BY <1>9, <1>11, <3>1, <3>2, SMTT(30)
  <2> QED BY <1>9, <1>10, <2>2, <2>3, <2>4 DEF ActiveSound
<1> QED BY <1>3, <1>13, <1>14, <1>15, <1>16, <1>17 DEF DirInv, r

\* A file of the directory replaced by one with the same records.
LEMMA SwapSound ==
  ASSUME TypeInv, FilesSound, NEW i \in DOMAIN files, NEW g \in File,
         g.recs = files[i].recs, g.dur >= files[i].dur, g.dur <= Len(g.recs),
         g.foot # NoFooter => g.dur = Len(g.recs)
  PROVE  LET gs == [files EXCEPT ![i] = g]
         IN  /\ gs \in Seq(File) /\ Len(gs) = Len(files) /\ DOMAIN gs = DOMAIN files
             /\ gs[i] = g /\ \A m \in DOMAIN files : m # i => gs[m] = files[m]
             /\ \A m \in DOMAIN gs : FileSound(gs[m])
             /\ AllRecs(gs) = AllRecs(files) /\ DurableRecs(files) \subseteq DurableRecs(gs)
<1> DEFINE gs == [files EXCEPT ![i] = g]
<1>1. files \in Seq(File) /\ files[i] \in File /\ FileSound(files[i])
  BY FilesAre DEF FilesSound
<1>2. FileSound(g)
  BY <1>1 DEF FileSound
<1>3. /\ gs \in Seq(File) /\ Len(gs) = Len(files)
      /\ AllRecs(gs) = AllRecs(files) /\ DurableRecs(files) \subseteq DurableRecs(gs)
  BY <1>1, SameFile
<1>4. /\ DOMAIN gs = DOMAIN files /\ gs[i] = g
      /\ \A m \in DOMAIN files : m # i => gs[m] = files[m]
  BY <1>1, LenProperties
<1> HIDE DEF gs
<1>5. \A m \in DOMAIN gs : FileSound(gs[m])
  BY <1>2, <1>4 DEF FilesSound
<1> QED BY <1>3, <1>4, <1>5 DEF gs

LEMMA FsyncDir ==
  ASSUME HeadInv, DirInv, fsync
  PROVE  /\ DirInv' /\ AllRecs(files') = AllRecs(files)
         /\ DurableRecs(files) \subseteq DurableRecs(files')
         /\ sync_required' => ActiveFile'.dur = Len(ActiveFile'.recs)
<1> DEFINE k == active.seg + 1
           f == ActiveFile
           n == IF sync_required THEN Len(f.recs) ELSE f.dur
           g == [f EXCEPT !.dur = n]
<1>1. TypeInv /\ Running /\ pc = "write" /\ FilesSound /\ InBatch
  BY DEF HeadInv, fsync, Running, DirInv, InBatch
<1>2. /\ files \in Seq(File) /\ k \in DOMAIN files /\ f \in File /\ FileSound(f)
      /\ f.foot = NoFooter /\ f = files[k] /\ active.seg \in Nat
  BY <1>1, FilesAre DEF ActiveFile, DirInv, FilesSound, ActiveSound, Running
<1>3. Len(f.recs) \in Nat /\ f.dur \in Nat /\ f.dur <= Len(f.recs)
  BY <1>2, FileRecs DEF FileSound
<1>4. n \in Nat /\ f.dur <= n /\ n <= Len(f.recs) /\ (sync_required => n = Len(f.recs))
  BY <1>3
<1> HIDE DEF n, f
<1>5. g = [ver |-> f.ver, hdr |-> f.hdr, recs |-> f.recs, foot |-> f.foot, torn |-> f.torn,
           dur |-> n, fdur |-> f.fdur]
  <2>1. f \in File
    BY <1>2
  <2> QED BY <2>1 DEF File
<1>6. g \in File
  <2> HIDE DEF g
  <2>1. f \in File /\ n \in Nat
    BY <1>2, <1>4
  <2> QED BY <2>1, <1>5 DEF File
<1>7. files' = [files EXCEPT ![k] = g]
  <2>1. CASE sync_required
    BY <2>1 DEF fsync, n, f, ActiveFile
  <2>2. CASE ~sync_required
    <3>1. files' = files
      BY <2>2 DEF fsync
    <3>2. g = f
      BY <1>2, <1>5, <2>2 DEF n, File
    <3> HIDE DEF g
    <3> QED BY <1>2, <3>1, <3>2
  <2> QED BY <2>1, <2>2
<1>8. g.recs = f.recs /\ g.dur = n /\ g.foot = NoFooter /\ PhysLen(g) = PhysLen(f)
  BY <1>2, <1>5 DEF PhysLen
<1> HIDE DEF g, k
<1>9. /\ files' \in Seq(File) /\ Len(files') = Len(files) /\ DOMAIN files' = DOMAIN files
      /\ files'[k] = g /\ \A m \in DOMAIN files : m # k => files'[m] = files[m]
      /\ \A m \in DOMAIN files' : FileSound(files'[m])
      /\ AllRecs(files') = AllRecs(files) /\ DurableRecs(files) \subseteq DurableRecs(files')
  <2>1. /\ TypeInv /\ FilesSound /\ k \in DOMAIN files /\ g \in File
        /\ g.recs = files[k].recs /\ g.dur >= files[k].dur /\ g.dur <= Len(g.recs)
        /\ g.foot # NoFooter => g.dur = Len(g.recs)
    BY <1>1, <1>2, <1>3, <1>4, <1>6, <1>8
  <2> QED BY <1>7, <2>1, SwapSound
<1>10. ActiveFile' = g /\ InBatch' /\ Running' /\ pc' = "publish"
       /\ UNCHANGED <<active, current_lsn, tentative_lsn, baseline, sync_required>>
  BY <1>9 DEF fsync, ActiveFile, k, InBatch, Running
<1>11. ActiveSound'
  BY <1>1, <1>8, <1>10 DEF DirInv, ActiveSound, f
<1>12. FilesSound' /\ OthersDurable' /\ CreatedEmpty'
  BY <1>1, <1>9, <1>10 DEF DirInv, FilesSound, OthersDurable, CreatedEmpty, Creating, k
<1>13. RecordsBelow'
  BY <1>1, <1>9, <1>10 DEF DirInv, RecordsBelow, NextPlace
<1> QED BY <1>4, <1>8, <1>9, <1>10, <1>11, <1>12, <1>13 DEF DirInv

LEMMA RollSealDir ==
  ASSUME HeadInv, DirInv, roll_seal
  PROVE  /\ DirInv' /\ AllRecs(files') = AllRecs(files)
         /\ DurableRecs(files) \subseteq DurableRecs(files')
<1> DEFINE k == active.seg + 1
           f == ActiveFile
           foot == [count |-> Len(active.hashes), min |-> active.base, max |-> active.max,
                    root |-> merkle_root(active.hashes)]
           n == Len(f.recs)
           g == [f EXCEPT !.dur = n, !.foot = foot]
<1>1. TypeInv /\ Running /\ pc = "write" /\ FilesSound /\ InBatch
  BY DEF HeadInv, roll_seal, Running, DirInv, InBatch
<1>2. /\ files \in Seq(File) /\ k \in DOMAIN files /\ f \in File /\ FileSound(f)
      /\ f = files[k] /\ active.seg \in Nat
  BY <1>1, FilesAre DEF ActiveFile, DirInv, FilesSound, Running
<1>3. Len(f.recs) \in Nat /\ f.dur \in Nat /\ f.dur <= Len(f.recs)
  BY <1>2, FileRecs DEF FileSound
<1>4. foot \in Footer
  <2>1. active \in ActiveSegment
    BY <1>1 DEF TypeInv, TypeOK, WorkerType
  <2> QED BY <2>1, LenProperties DEF ActiveSegment, Footer, merkle_root
<1>5. files' = [files EXCEPT ![k] = g]
  BY DEF roll_seal, f, ActiveFile
<1> HIDE DEF f, foot, n
<1>6. /\ g \in File /\ g.recs = f.recs /\ g.hdr = f.hdr /\ g.dur = Len(f.recs)
      /\ g.foot = foot
  <2>1. f \in File /\ n \in Nat /\ foot \in Footer
    BY <1>2, <1>3, <1>4 DEF n
  <2>3. g \in File
    BY <2>1 DEF File
  <2>4. g.recs = f.recs /\ g.hdr = f.hdr /\ g.dur = n /\ g.foot = foot
    BY <2>1 DEF File
  <2> QED BY <2>3, <2>4 DEF n
<1>8. g.recs = f.recs /\ g.dur = Len(f.recs) /\ PhysLen(g) = PhysLen(f)
  BY <1>6 DEF PhysLen
<1> HIDE DEF g, k
<1>14. g.recs = files[k].recs /\ g.dur >= files[k].dur /\ g.dur <= Len(g.recs)
       /\ g.dur = Len(g.recs)
  BY <1>2, <1>3, <1>8
<1>9. /\ files' \in Seq(File) /\ Len(files') = Len(files) /\ DOMAIN files' = DOMAIN files
      /\ files'[k] = g /\ \A m \in DOMAIN files : m # k => files'[m] = files[m]
      /\ \A m \in DOMAIN files' : FileSound(files'[m])
      /\ AllRecs(files') = AllRecs(files) /\ DurableRecs(files) \subseteq DurableRecs(files')
  BY <1>1, <1>2, <1>5, <1>6, <1>14, SwapSound
<1>10. ActiveFile' = g /\ InBatch' /\ Running' /\ pc' = "roll_create"
       /\ UNCHANGED <<active, current_lsn, tentative_lsn, baseline>>
  BY <1>9 DEF roll_seal, ActiveFile, k, InBatch, Running
<1>11. ActiveSound'
  BY <1>1, <1>8, <1>10 DEF DirInv, ActiveSound, f
<1>12. FilesSound' /\ OthersDurable' /\ CreatedEmpty'
  BY <1>1, <1>9, <1>10 DEF DirInv, FilesSound, OthersDurable, CreatedEmpty, Creating, k
<1>13. RecordsBelow'
  BY <1>1, <1>9, <1>10 DEF DirInv, RecordsBelow, NextPlace
<1> QED BY <1>9, <1>11, <1>12, <1>13 DEF DirInv

LEMMA RollCreateDir ==
  ASSUME HeadInv, DirInv, roll_create
  PROVE  /\ DirInv' /\ AllRecs(files') = AllRecs(files)
         /\ DurableRecs(files) \subseteq DurableRecs(files')
<1> DEFINE k == active.seg + 1
           f == ActiveFile
           g == [f EXCEPT !.fdur = TRUE]
           gs == [files EXCEPT ![k] = g]
<1>1. TypeInv /\ Running /\ pc = "roll_create" /\ FilesSound /\ InBatch
  BY DEF HeadInv, roll_create, Running, DirInv, InBatch
<1>2. /\ files \in Seq(File) /\ k \in DOMAIN files /\ f \in File /\ FileSound(f)
      /\ f = files[k] /\ active.seg \in Nat /\ Len(files) \in Nat /\ DOMAIN files = 1..Len(files)
  BY <1>1, FilesAre DEF ActiveFile, DirInv, FilesSound, Running
<1>3. Len(f.recs) \in Nat /\ f.dur \in Nat /\ f.dur <= Len(f.recs) /\ f.dur = Len(f.recs)
  BY <1>1, <1>2, FileRecs DEF FileSound, DirInv, ActiveSound
<1>4. files' = Append(gs, EmptyFile)
  BY DEF roll_create, f, ActiveFile
<1> HIDE DEF f
<1>5. g \in File /\ g.recs = f.recs /\ g.dur = f.dur /\ PhysLen(g) = PhysLen(f)
  <2>1. f \in File
    BY <1>2
  <2>2. g \in File
    BY <2>1 DEF File
  <2>3. g.recs = f.recs /\ g.dur = f.dur /\ g.hdr = f.hdr
    BY <2>1 DEF File
  <2> QED BY <2>2, <2>3 DEF PhysLen
<1> HIDE DEF g, k
<1>6. g.recs = files[k].recs /\ g.dur >= files[k].dur /\ g.dur <= Len(g.recs)
      /\ g.dur = Len(g.recs)
  BY <1>2, <1>3, <1>5
<1>7. /\ gs \in Seq(File) /\ Len(gs) = Len(files) /\ DOMAIN gs = DOMAIN files
      /\ gs[k] = g /\ \A m \in DOMAIN files : m # k => gs[m] = files[m]
      /\ \A m \in DOMAIN gs : FileSound(gs[m])
      /\ AllRecs(gs) = AllRecs(files) /\ DurableRecs(files) \subseteq DurableRecs(gs)
  BY <1>1, <1>2, <1>5, <1>6, SwapSound
<1> HIDE DEF gs
<1>8. EmptyFile \in File /\ FileSound(EmptyFile) /\ EmptyFile.recs = <<>>
      /\ EmptyFile.dur = 0 /\ EmptyFile.foot = NoFooter
  BY EmptySound DEF EmptyFile
<1>9. /\ files' \in Seq(File) /\ Len(files') = Len(files) + 1 /\ DOMAIN files' = 1..(Len(files) + 1)
      /\ files'[Len(files) + 1] = EmptyFile
      /\ \A m \in DOMAIN files : files'[m] = gs[m]
  BY <1>2, <1>4, <1>7, <1>8, AppendProperties, LenProperties
<1>10. AllRecs(files') = AllRecs(gs) /\ DurableRecs(gs) \subseteq DurableRecs(files')
  <2>1. \A m \in DOMAIN gs : files'[m].recs = gs[m].recs /\ files'[m].dur >= gs[m].dur
    <3>1. \A m \in DOMAIN gs : gs[m] \in File
      BY <1>7, ElementOfSeq, LenProperties
    <3>2. \A m \in DOMAIN gs : gs[m].dur \in Nat
      BY <3>1 DEF File
    <3> QED BY <1>7, <1>9, <3>2
  <2>2. \A m \in DOMAIN files' : m \in DOMAIN gs \/ files'[m].recs = <<>>
    BY <1>2, <1>7, <1>8, <1>9
  <2>3. Len(gs) <= Len(files')
    BY <1>2, <1>7, <1>9
  <2> QED BY <1>7, <1>9, <2>1, <2>2, <2>3, SameRecs
<1>11. ActiveFile' = g /\ InBatch' /\ Running' /\ pc' = "roll_header"
       /\ UNCHANGED <<active, current_lsn, tentative_lsn, baseline>>
  BY <1>2, <1>7, <1>9 DEF roll_create, ActiveFile, k, InBatch, Running
<1>12. ActiveSound'
  BY <1>1, <1>5, <1>6, <1>11 DEF DirInv, ActiveSound, f
<1>13. FilesSound'
  BY <1>2, <1>7, <1>8, <1>9 DEF FilesSound
<1>14. OthersDurable'
  <2>1. Len(<<>>) = 0
    OBVIOUS
  <2>2. ASSUME NEW m \in DOMAIN files', m # active.seg + 1
        PROVE  files'[m].dur = Len(files'[m].recs)
    <3>1. CASE m \in DOMAIN files
      BY <1>1, <1>7, <1>9, <2>2, <3>1 DEF DirInv, OthersDurable, k
    <3>2. CASE m = Len(files) + 1
      BY <1>8, <1>9, <2>1, <3>2
    <3> QED BY <1>2, <1>9, <3>1, <3>2
  <2> QED BY <1>11, <2>2 DEF OthersDurable
<1>15. CreatedEmpty'
  BY <1>8, <1>9, <1>11 DEF CreatedEmpty
<1>16. RecordsBelow'
  BY <1>1, <1>7, <1>10, <1>11 DEF DirInv, RecordsBelow, NextPlace
<1> QED BY <1>7, <1>10, <1>12, <1>13, <1>14, <1>15, <1>16 DEF DirInv

\* A header written to the file that was created: it is the active one from
\* then on, or was already.
LEMMA HeaderDir ==
  ASSUME HeadInv, DirInv, NEW p \in PhysClock, roll_header(p) \/ open_header(p)
  PROVE  /\ DirInv' /\ AllRecs(files') = AllRecs(files)
         /\ DurableRecs(files) \subseteq DurableRecs(files')
<1> DEFINE n == Len(files)
           f == files[n]
           g == [f EXCEPT !.hdr = "ok"]
<1>1. TypeInv /\ Running /\ Creating /\ FilesSound /\ pc \in {"roll_header", "open_header"}
  BY DEF HeadInv, roll_header, open_header, Running, DirInv, Creating
<1>2. /\ files \in Seq(File) /\ n \in Nat /\ DOMAIN files = 1..n /\ active.seg \in Nat
      /\ active.bytes \in Nat /\ active.seg + 1 \in DOMAIN files
  BY <1>1, FilesAre DEF Running
<1>3. active'.seg + 1 = n /\ active'.bytes >= HeaderLen /\ Running'
  <2>1. CASE roll_header(p)
    <3>1. active.seg + 2 = n
      BY <1>1, <2>1 DEF roll_header, TypeInv, TypeOK, WorkerShape
    <3>2. active'.seg = active.seg + 1 /\ active'.bytes = HeaderLen /\ pc' = "place"
      BY <2>1 DEF roll_header, new_active
    <3> QED BY <1>2, <3>1, <3>2 DEF Running, HeaderLen
  <2>2. CASE open_header(p)
    <3>1. active' = active /\ pc = "open_header" /\ pc' = "recv"
      BY <2>2 DEF open_header
    <3> QED BY <1>1, <3>1 DEF Running, DirInv, CreatedEmpty, TypeInv, ActiveIsLast
  <2> QED BY <2>1, <2>2
<1>4. n \in DOMAIN files /\ f \in File /\ FileSound(f) /\ f.recs = <<>> /\ f.foot = NoFooter
  <2>1. n \in DOMAIN files
    BY <1>2
  <2> QED BY <1>1, <1>2, <2>1, FilesAre DEF FilesSound, DirInv, CreatedEmpty
<1>5. f.dur = 0 /\ Len(<<>>) = 0
  BY <1>4, FileRecs DEF FileSound
<1>6. files' = [files EXCEPT ![n] = g]
  <2>1. CASE roll_header(p)
    <3>1. active.seg + 2 = n
      BY <1>1, <2>1 DEF roll_header, TypeInv, TypeOK, WorkerShape
    <3>2. active.seg + 1 + 1 = n
      BY <1>2, <3>1
    <3> QED BY <2>1, <3>2 DEF roll_header
  <2>2. CASE open_header(p)
    BY <2>2 DEF open_header
  <2> QED BY <2>1, <2>2
<1> HIDE DEF f
<1>7. /\ g \in File /\ g.recs = <<>> /\ g.dur = 0 /\ g.hdr = "ok" /\ g.foot = NoFooter
  <2>1. f \in File
    BY <1>4
  <2>2. g \in File
    BY <2>1 DEF File
  <2>3. g.recs = f.recs /\ g.dur = f.dur /\ g.hdr = "ok" /\ g.foot = f.foot
    BY <2>1 DEF File
  <2> QED BY <1>4, <1>5, <2>2, <2>3
<1> HIDE DEF g, n
<1>8. g.recs = files[n].recs /\ g.dur >= files[n].dur /\ g.dur <= Len(g.recs)
  BY <1>4, <1>5, <1>7 DEF f
<1>9. /\ files' \in Seq(File) /\ Len(files') = Len(files) /\ DOMAIN files' = DOMAIN files
      /\ files'[n] = g /\ \A m \in DOMAIN files : m # n => files'[m] = files[m]
      /\ \A m \in DOMAIN files' : FileSound(files'[m])
      /\ AllRecs(files') = AllRecs(files) /\ DurableRecs(files) \subseteq DurableRecs(files')
  BY <1>1, <1>2, <1>4, <1>5, <1>6, <1>7, <1>8, SwapSound
<1>10. ActiveFile' = g
  BY <1>2, <1>3, <1>9 DEF ActiveFile
<1>11. FilesSound'
  BY <1>9 DEF FilesSound
<1>12. ActiveSound'
  <2>1. PhysLen(g) = HeaderLen
    BY <1>7 DEF PhysLen
  <2>2. pc' \notin {"roll_create", "roll_header"}
    BY DEF roll_header, open_header
  <2>3. 1..Len(g.recs) = {}
    BY <1>5, <1>7
  <2> QED BY <1>3, <1>7, <1>10, <2>1, <2>2, <2>3 DEF ActiveSound
<1>13. OthersDurable'
  <2>1. ASSUME NEW m \in DOMAIN files', m # n
        PROVE  files'[m].dur = Len(files'[m].recs)
    <3>1. m \in DOMAIN files /\ files'[m] = files[m]
      BY <1>9, <2>1
    <3>2. CASE m # active.seg + 1
      BY <1>1, <3>1, <3>2 DEF DirInv, OthersDurable
    <3>3. CASE m = active.seg + 1
      <4>1. roll_header(p)
        <5> SUFFICES ASSUME open_header(p) PROVE FALSE
          OBVIOUS
        <5>1. active.seg + 1 = n
          BY <1>1 DEF open_header, TypeInv, ActiveIsLast, n
        <5> QED BY <2>1, <3>3, <5>1
      <4> QED BY <1>1, <3>1, <3>3, <4>1 DEF DirInv, ActiveSound, ActiveFile, roll_header
    <3> QED BY <3>2, <3>3
  <2> QED BY <1>3, <2>1 DEF OthersDurable
<1>14. CreatedEmpty'
  BY DEF CreatedEmpty, Creating, roll_header, open_header
<1>15. RecordsBelow'
  <2>1. NextPlace' = NextPlace
    BY DEF roll_header, open_header, NextPlace, InBatch
  <2> QED BY <1>1, <1>9, <2>1 DEF DirInv, RecordsBelow
<1> QED BY <1>9, <1>11, <1>12, <1>13, <1>14, <1>15 DEF DirInv

\* The phases that write nothing leave the next record its LSN.
LEMMA NextPlaceKept ==
  ASSUME HeadInv, recv \/ write_flush \/ reject \/ publish \/ commit \/ ack
  PROVE  NextPlace' = NextPlace
<1>1. CASE ~commit
  BY <1>1 DEF recv, write_flush, reject, publish, ack, InBatch, NextPlace
<1>2. CASE commit
  <2>1. /\ tentative_lsn = current_lsn + Len(stash) /\ current_lsn \in Nat
        /\ \A k \in DOMAIN stash : stash[k].lsn = current_lsn + k - 1
        /\ stash \in Seq(Update) /\ Len(stash) \in Nat /\ DOMAIN stash = 1..Len(stash)
    BY <1>2, LenProperties DEF HeadInv, StashDense, InBatch, commit, TypeInv, TypeOK, CallsType,
       CountersType
  <2>2. current_lsn' = tentative_lsn
    <3>1. CASE stash = <<>>
      BY <1>2, <2>1, <3>1 DEF commit
    <3>2. CASE stash # <<>>
      <4>1. Len(stash) \in DOMAIN stash
        BY <2>1, <3>2
      <4> QED BY <1>2, <2>1, <3>2, <4>1 DEF commit, LastOf
    <3> QED BY <3>1, <3>2
  <2> QED BY <1>2, <2>2 DEF NextPlace, InBatch, commit
<1> QED BY <1>1, <1>2

\* The steps of the clients and the phases that write nothing.
LEMMA OtherDir ==
  ASSUME HeadInv, DirInv, UNCHANGED files, ~Creating, Running,
         \/ recv \/ write_flush \/ reject \/ publish \/ commit \/ ack
         \/ UNCHANGED <<worker, files>>
  PROVE  DirInv'
<1>1. TypeInv
  BY DEF HeadInv
<1>2. CASE recv \/ write_flush \/ reject \/ publish \/ commit \/ ack
  <2>1. /\ UNCHANGED <<files, active>> /\ pc' \in {"write", "commit", "ack", "recv"}
        /\ pc \in {"recv", "write", "publish", "commit", "ack"}
    BY <1>2 DEF recv, write_flush, reject, publish, commit, ack
  <2>2. ~Creating' /\ Running' /\ Running /\ pc \notin {"roll_create", "roll_header"}
        /\ pc' # "roll_create"
    BY <2>1 DEF Creating, Running
  <2>3. InBatch /\ InBatch' => UNCHANGED <<current_lsn, baseline>>
    BY <1>2 DEF recv, write_flush, reject, publish, commit, ack, InBatch
  <2>4. InBatch' => InBatch \/ (current_lsn' = current_lsn /\ baseline'.bytes = active.bytes)
    BY <1>2 DEF recv, write_flush, reject, publish, commit, ack, InBatch
  <2>5. NextPlace' = NextPlace
    BY <1>2, NextPlaceKept
  <2> QED BY <1>1, <2>1, <2>2, <2>3, <2>4, <2>5, QuietDir
<1>3. CASE UNCHANGED <<worker, files>>
  BY <1>3 DEF worker, DirInv, FilesSound, ActiveSound, ActiveFile, RecordsBelow, NextPlace,
     OthersDurable, CreatedEmpty, Creating, Running, InBatch
<1> QED BY <1>2, <1>3
-----------------------------------------------------------------------------
(* What a failure leaves of the directory.                                  *)

\* The record that a batch wrote and nobody was told about yet.
Unpublished(r) == InBatch /\ r.lsn >= current_lsn

\* gs continues hs with files that hold nothing.
WithCreated(gs, hs) ==
  /\ Len(gs) >= Len(hs) /\ \A m \in 1..Len(hs) : gs[m] = hs[m]
  /\ \A m \in 1..Len(gs) : m \in 1..Len(hs) \/ (gs[m].recs = <<>> /\ FileSound(gs[m]))

LEMMA NewImage ==
  ASSUME NEW hs \in Seq(File), NEW img \in NewFileImages
  PROVE  hs \o img \in Seq(File) /\ WithCreated(hs \o img, hs)
<1> DEFINE gs == hs \o img
           torn == [EmptyFile EXCEPT !.hdr = "torn"]
<1>1. Len(hs) \in Nat /\ DOMAIN hs = 1..Len(hs)
  BY LenProperties
<1>2. EmptyFile \in File /\ FileSound(EmptyFile) /\ EmptyFile.recs = <<>>
  BY EmptySound DEF EmptyFile
<1>3. torn \in File /\ torn.recs = <<>> /\ FileSound(torn)
  <2>1. torn \in File
    BY <1>2 DEF File
  <2>2. torn.recs = <<>> /\ torn.dur = 0 /\ Len(<<>>) = 0
    BY DEF EmptyFile
  <2> QED BY <2>1, <2>2 DEF FileSound
<1> HIDE DEF torn
<1>4. img \in {<<>>, <<torn>>, <<EmptyFile>>}
  BY Zenon DEF NewFileImages, torn
<1>5. CASE img = <<>>
  <2>1. gs = hs
    BY <1>5
  <2> QED BY <1>1, <2>1 DEF WithCreated
<1>6. ASSUME NEW f \in File, f.recs = <<>>, FileSound(f), img = <<f>>
      PROVE  gs \in Seq(File) /\ WithCreated(gs, hs)
  <2>1. gs = Append(hs, f)
    BY <1>1, <1>6
  <2>2. /\ gs \in Seq(File) /\ Len(gs) = Len(hs) + 1 /\ gs[Len(hs) + 1] = f
        /\ \A m \in 1..Len(hs) : gs[m] = hs[m]
    BY <2>1, AppendProperties
  <2> HIDE DEF gs
  <2> QED BY <1>1, <1>6, <2>2 DEF WithCreated
<1> QED BY <1>2, <1>3, <1>4, <1>5, <1>6

\* What may be left of the i-th file.
LeftOf(g, i) ==
  /\ FileSound(g) /\ Shorter(g, files[i])
  /\ \A j \in 1..files[i].dur : j <= g.dur \/ Unpublished(files[i].recs[j])

\* hs is what is left of the files known to be there, the one being created
\* not counted.
Remains(hs) ==
  /\ IF Creating THEN Len(hs) + 1 = Len(files) ELSE Len(hs) = Len(files)
  /\ \A m \in 1..Len(hs) : LeftOf(hs[m], m)

LEMMA LossDir ==
  ASSUME TypeInv, DirInv, TypeInv', NEW hs \in Seq(File), Remains(hs), WithCreated(files', hs)
  PROVE  /\ FilesSound' /\ AllRecs(files') \subseteq AllRecs(files)
         /\ \A r \in DurableRecs(files) : r \in DurableRecs(files') \/ Unpublished(r)
<1>1. /\ files \in Seq(File) /\ Len(files) \in Nat /\ DOMAIN files = 1..Len(files)
      /\ \A m \in DOMAIN files : files[m] \in File /\ FileSound(files[m])
  BY FilesAre DEF DirInv, FilesSound
<1>2. /\ Len(hs) \in Nat /\ \A m \in 1..Len(hs) : hs[m] \in File
      /\ Len(hs) <= Len(files) /\ \A m \in 1..Len(hs) : m \in DOMAIN files
  <2>1. Len(hs) \in Nat /\ \A m \in 1..Len(hs) : hs[m] \in File
    BY LenProperties, ElementOfSeq
  <2>2. Len(hs) <= Len(files)
    <3>1. Len(hs) + 1 = Len(files) \/ Len(hs) = Len(files)
      BY Zenon DEF Remains
    <3>2. Len(files) \in Nat
      BY <1>1
    <3> QED BY <2>1, <3>1, <3>2
  <2> QED BY <1>1, <2>1, <2>2
<1>3. /\ files' \in Seq(File) /\ Len(files') >= Len(hs) /\ Len(files') \in Nat
      /\ DOMAIN files' = 1..Len(files')
      /\ \A m \in 1..Len(hs) : files'[m] = hs[m] /\ m \in DOMAIN files'
      /\ \A m \in DOMAIN files' :
           m \in 1..Len(hs) \/ (files'[m].recs = <<>> /\ FileSound(files'[m]))
  <2>1. files' \in Seq(File) /\ Len(files') \in Nat /\ DOMAIN files' = 1..Len(files')
    BY LenProperties DEF TypeInv, TypeOK, DirectoryType
  <2> QED BY <1>2, <2>1 DEF WithCreated
<1>4. FilesSound'
  BY <1>3 DEF FilesSound, Remains, LeftOf
<1>5. Within(files', files)
  BY <1>2, <1>3 DEF Within, Remains, LeftOf
<1>6. AllRecs(files') \subseteq AllRecs(files)
  BY <1>1, <1>3, <1>5, WithinRecs
<1>7. ASSUME NEW r \in DurableRecs(files), ~Unpublished(r) PROVE r \in DurableRecs(files')
  <2>1. PICK m \in DOMAIN files : \E j \in 1..files[m].dur : r = files[m].recs[j]
    BY <1>1, RecordPlaces
  <2>2. PICK j \in 1..files[m].dur : r = files[m].recs[j]
    BY <2>1
  <2>3. /\ files[m].dur \in Nat /\ Len(files[m].recs) \in Nat
        /\ files[m].dur <= Len(files[m].recs)
    BY <1>1, FileRecs DEF FileSound
  <2>4. m \in 1..Len(hs)
    <3>1. CASE ~Creating
      BY <1>1, <1>2, <3>1 DEF Remains, LeftOf
    <3>2. CASE Creating
      <4>1. files[Len(files)].recs = <<>> /\ Len(<<>>) = 0
        BY <3>2 DEF DirInv, CreatedEmpty
      <4>2. m # Len(files)
        BY <2>3, <4>1
      <4> QED BY <1>1, <1>2, <3>2, <4>2 DEF Remains, LeftOf
    <3> QED BY <3>1, <3>2
  <2>5. /\ j <= hs[m].dur /\ hs[m].dur \in Nat /\ Len(hs[m].recs) \in Nat
        /\ hs[m].dur <= Len(hs[m].recs)
    <3>1. hs[m] \in File /\ FileSound(hs[m])
      BY <1>2, <2>4 DEF Remains, LeftOf
    <3>2. j <= hs[m].dur
      BY <1>7, <2>2, <2>4 DEF Remains, LeftOf
    <3> QED BY <3>1, <3>2, FileRecs DEF FileSound
  <2>6. j \in 1..files'[m].dur /\ r = files'[m].recs[j]
    <3>1. files'[m] = hs[m] /\ Shorter(hs[m], files[m])
      BY <1>3, <2>4 DEF Remains, LeftOf
    <3>2. j \in 1..hs[m].dur /\ j \in 1..Len(hs[m].recs)
      BY <2>3, <2>5
    <3>3. hs[m].recs[j] = files[m].recs[j]
      BY <3>1, <3>2 DEF Shorter
    <3> QED BY <2>2, <3>1, <3>2, <3>3
  <2> QED BY <1>3, <2>4, <2>6, RecordPlaces
<1> QED BY <1>4, <1>6, <1>7

\* What is left of the i-th file by an I/O error, by the death of the process,
\* by power loss.
Loss(kind, g, i) ==
  \/ g = files[i] /\ (kind = "power" => ~AtRisk(files[i]))
  \/ kind = "power" /\ AtRisk(files[i]) /\ g \in SurvivingImages(files[i])
  \/ /\ kind # "power" /\ i = active.seg + 1
     /\ \E half \in BOOLEAN : (half => Writing) /\ g = [files[i] EXCEPT !.torn = half]
  \/ kind = "io" /\ i = active.seg + 1 /\ g = rollback_active_file(files[i])

\* What is left of the directory: hs of the files known to be there, new of
\* the one being created.
LostTo(kind, hs, new) ==
  /\ files' = hs \o new /\ (~Creating => new = <<>>)
  /\ IF Creating THEN Len(hs) + 1 = Len(files) ELSE Len(hs) = Len(files)
  /\ \A m \in 1..Len(hs) : Loss(kind, hs[m], m)

LEMMA LossLeft ==
  ASSUME TypeInv, DirInv, NEW i \in DOMAIN files, NEW kind, NEW g, Loss(kind, g, i),
         kind = "io" => InBatch
  PROVE  g \in File /\ LeftOf(g, i)
<1> DEFINE f == files[i]
<1>1. f \in File /\ FileSound(f) /\ baseline \in Baseline
  BY FilesAre DEF DirInv, FilesSound
<1>2. Len(f.recs) \in Nat /\ f.dur \in Nat /\ f.dur <= Len(f.recs)
      /\ \A j \in 1..Len(f.recs) : f.recs[j].lsn \in Nat
  BY <1>1, FileRecs DEF FileSound, Record
<1>3. CASE g = f
  BY <1>1, <1>2, <1>3 DEF LeftOf, Shorter
<1>4. CASE g \in SurvivingImages(f)
  <2>1. FileSound(g) /\ Shorter(g, f) /\ KeepsDurable(g, f) /\ g \in File
    BY <1>1, <1>4, ImageSound
  <2>2. g.dur \in Nat /\ f.dur <= g.dur
    BY <2>1 DEF KeepsDurable, File
  <2>3. \A j \in 1..f.dur : j <= g.dur
    BY <1>2, <2>2
  <2> QED BY <2>1, <2>3 DEF LeftOf
<1>5. ASSUME NEW half \in BOOLEAN, g = [f EXCEPT !.torn = half]
      PROVE  g \in File /\ LeftOf(g, i)
  <2> HIDE DEF f
  <2>1. g \in File /\ g.recs = f.recs /\ g.dur = f.dur /\ g.foot = f.foot
    BY <1>1, <1>5 DEF File
  <2>2. FileSound(g)
    BY <1>1, <2>1 DEF FileSound
  <2>3. Shorter(g, f)
    BY <1>2, <2>1 DEF Shorter
  <2>4. \A j \in 1..f.dur : j <= g.dur
    BY <1>2, <2>1
  <2> QED BY <2>1, <2>2, <2>3, <2>4 DEF LeftOf, f
<1>6. CASE kind = "io" /\ i = active.seg + 1 /\ g = rollback_active_file(f)
  <2>1. /\ g \in File /\ FileSound(g) /\ Shorter(g, f)
        /\ g.dur = (IF Len(g.recs) < f.dur THEN Len(g.recs) ELSE f.dur)
        /\ \A j \in 1..Len(f.recs) : f.recs[j].off < baseline.bytes => j <= Len(g.recs)
    BY <1>1, <1>6, RollbackSound
  <2>2. Len(g.recs) \in Nat /\ current_lsn \in Nat /\ InBatch /\ Running
    BY <1>6, <2>1, FileRecs DEF TypeInv, TypeOK, CountersType, InBatch, Running
  <2>3. ASSUME NEW j \in 1..f.dur PROVE j <= g.dur \/ Unpublished(f.recs[j])
    <3>1. j \in 1..Len(f.recs)
      BY <1>2
    <3>2. f.recs[j].lsn < current_lsn => f.recs[j].off < baseline.bytes
      BY <1>6, <2>2, <3>1 DEF DirInv, ActiveSound, ActiveFile
    <3>3. CASE f.recs[j].lsn < current_lsn
      BY <1>2, <2>1, <2>2, <3>1, <3>2, <3>3
    <3>4. CASE ~(f.recs[j].lsn < current_lsn)
      BY <1>2, <2>2, <3>1, <3>4 DEF Unpublished
    <3> QED BY <3>3, <3>4
  <2> QED BY <2>1, <2>3 DEF LeftOf
<1> HIDE DEF f
<1>7. \/ g = f \/ g \in SurvivingImages(f) \/ \E half \in BOOLEAN : g = [f EXCEPT !.torn = half]
      \/ kind = "io" /\ i = active.seg + 1 /\ g = rollback_active_file(f)
  BY Zenon DEF Loss, f
<1> QED BY <1>3, <1>4, <1>5, <1>6, <1>7 DEF f

\* A failure of the process: fs is what is left of each file.
LEMMA ProcessLoss ==
  ASSUME TypeInv, pc \notin {"closed", "refused"}, NEW kind, NEW fs \in Seq(File),
         Len(fs) = Len(files), \A m \in DOMAIN files : Loss(kind, fs[m], m),
         NEW img \in NewFileImages, files' = WithNewFile(fs, img)
  PROVE  \E hs \in Seq(File), new \in NewFileImages : LostTo(kind, hs, new)
<1> DEFINE n == Len(files)
           cut == SubSeq(fs, 1, n - 1)
           hs == IF Creating THEN cut ELSE fs
           new == IF Creating THEN img ELSE <<>>
<1>1. n \in Nat /\ DOMAIN files = 1..n /\ n - 1 \in 0..n
  <2>1. active.seg + 1 \in DOMAIN files /\ n \in Nat /\ DOMAIN files = 1..n
    BY FilesAre
  <2> QED BY <2>1
<1>2. cut \in Seq(File) /\ Len(cut) = n - 1 /\ \A m \in 1..(n - 1) : cut[m] = fs[m]
  BY <1>1, PrefixType
<1>3. fs \o <<>> = fs
  OBVIOUS
<1>4. new \in NewFileImages
  BY DEF NewFileImages
<1>5. files' = hs \o new /\ (~Creating => new = <<>>)
  <2>1. CASE Creating
    BY <2>1 DEF WithNewFile
  <2>2. CASE ~Creating
    BY <1>3, <2>2 DEF WithNewFile
  <2> QED BY <2>1, <2>2
<1> HIDE DEF cut, new, n
<1>6. /\ hs \in Seq(File)
      /\ IF Creating THEN Len(hs) + 1 = Len(files) ELSE Len(hs) = Len(files)
      /\ \A m \in 1..Len(hs) : Loss(kind, hs[m], m)
  <2>1. CASE Creating
    <3>1. \A m \in 1..(n - 1) : m \in DOMAIN files
      BY <1>1
    <3>2. n - 1 + 1 = n
      BY <1>1
    <3> QED BY <1>2, <2>1, <3>1, <3>2 DEF n
  <2>2. CASE ~Creating
    BY <1>1, <2>2 DEF n
  <2> QED BY <2>1, <2>2
<1> HIDE DEF hs
<1>7. LostTo(kind, hs, new)
  BY <1>5, <1>6 DEF LostTo
<1> QED BY <1>4, <1>6, <1>7

LEMMA IoErrorLoss ==
  ASSUME TypeInv, DirInv, io_error
  PROVE  \E hs \in Seq(File), new \in NewFileImages : LostTo("io", hs, new)
<1> DEFINE k == active.seg + 1
<1>1. /\ files \in Seq(File) /\ k \in DOMAIN files /\ InBatch /\ pc \notin {"closed", "refused"}
      /\ DOMAIN files = 1..Len(files)
  <2>1. InBatch /\ pc \notin {"closed", "refused"}
    BY DEF io_error, Writing, InBatch
  <2> QED BY <2>1, FilesAre
<1>2. PICK done \in BOOLEAN, half \in BOOLEAN, img \in NewFileImages :
        /\ half => ~done /\ Writing
        /\ files' = WithNewFile([files EXCEPT ![active.seg + 1] =
                      IF done THEN rollback_active_file(@) ELSE [@ EXCEPT !.torn = half]], img)
  BY DEF io_error
<1> DEFINE g == IF done THEN rollback_active_file(files[k]) ELSE [files[k] EXCEPT !.torn = half]
           fs == [files EXCEPT ![k] = g]
<1>3. files' = WithNewFile(fs, img)
  BY <1>2
<1>4. Loss("io", g, k)
  BY <1>2 DEF Loss
<1>5. g \in File
  BY <1>1, <1>4, LossLeft
<1> HIDE DEF g, k
<1>6. /\ fs \in Seq(File) /\ Len(fs) = Len(files)
      /\ fs[k] = g /\ \A m \in DOMAIN files : m # k => fs[m] = files[m]
  BY <1>1, <1>5, ReplaceFile
<1> HIDE DEF fs
<1>7. \A m \in DOMAIN files : Loss("io", fs[m], m)
  <2>1. \A m \in DOMAIN files : Loss("io", files[m], m)
    BY DEF Loss
  <2> QED BY <1>4, <1>6, <2>1
<1> QED BY <1>1, <1>3, <1>6, <1>7, ProcessLoss

LEMMA ProcessCrashLoss ==
  ASSUME TypeInv, DirInv, process_crash
  PROVE  \E hs \in Seq(File), new \in NewFileImages : LostTo("process", hs, new)
<1> DEFINE k == active.seg + 1
           Torn(half) == IF half THEN [files EXCEPT ![active.seg + 1].torn = TRUE] ELSE files
<1>1. PICK img \in NewFileImages, half \in BOOLEAN :
        /\ half => Writing
        /\ Restart("process", WithNewFile(Torn(half), img))
  BY DEF process_crash
<1>2. pc \notin {"closed", "refused"} /\ files' = WithNewFile(Torn(half), img)
  BY <1>1 DEF Restart
<1>3. files \in Seq(File) /\ k \in DOMAIN files /\ DOMAIN files = 1..Len(files)
  BY <1>2, FilesAre
<1>4. \A m \in DOMAIN files : Loss("process", files[m], m)
  BY DEF Loss
<1>5. /\ Torn(half) \in Seq(File) /\ Len(Torn(half)) = Len(files)
      /\ \A m \in DOMAIN files : Loss("process", Torn(half)[m], m)
  <2>1. CASE ~half
    BY <1>3, <1>4, <2>1
  <2>2. CASE half
    <3> DEFINE g == [files[k] EXCEPT !.torn = half]
    <3>1. Loss("process", g, k)
      BY <1>1 DEF Loss
    <3>2. g \in File
      BY <1>3, <3>1, LossLeft
    <3>3. Torn(half) = [files EXCEPT ![k] = g]
      BY <2>2
    <3> HIDE DEF g, k, Torn
    <3>4. /\ Torn(half) \in Seq(File) /\ Len(Torn(half)) = Len(files)
          /\ Torn(half)[k] = g /\ \A m \in DOMAIN files : m # k => Torn(half)[m] = files[m]
      BY <1>3, <3>2, <3>3, ReplaceFile
    <3> QED BY <1>4, <3>1, <3>4
  <2> QED BY <2>1, <2>2
<1> HIDE DEF Torn
<1> QED BY <1>2, <1>5, ProcessLoss

LEMMA PowerLoss ==
  ASSUME TypeInv, power_loss
  PROVE  \E hs \in Seq(File), new \in NewFileImages : LostTo("power", hs, new)
<1> DEFINE n == Len(files)
           cut == SubSeq(files, 1, n - 1)
           known == IF Creating THEN cut ELSE files
<1>1. PICK img \in NewFileImages, dir \in SurvivingDirs(known) :
        Restart("power", dir \o (IF Creating THEN img ELSE <<>>))
  BY DEF power_loss
<1> DEFINE new == IF Creating THEN img ELSE <<>>
<1>2. pc \notin {"closed", "refused"} /\ files' = dir \o new /\ (~Creating => new = <<>>)
  BY <1>1 DEF Restart
<1>3. files \in Seq(File) /\ n \in Nat /\ DOMAIN files = 1..n /\ n - 1 \in 0..n
  <2>1. active.seg + 1 \in DOMAIN files /\ n \in Nat /\ DOMAIN files = 1..n
    BY <1>2, FilesAre
  <2> QED BY <2>1, FilesAre
<1>4. cut \in Seq(File) /\ Len(cut) = n - 1 /\ \A m \in 1..(n - 1) : cut[m] = files[m]
  BY <1>3, PrefixType
<1>5. new \in NewFileImages
  BY DEF NewFileImages
<1> HIDE DEF cut, new, n
<1>6. /\ known \in Seq(File) /\ Len(known) \in Nat /\ DOMAIN known = 1..Len(known)
      /\ IF Creating THEN Len(known) + 1 = Len(files) ELSE Len(known) = Len(files)
      /\ \A m \in 1..Len(known) : m \in DOMAIN files /\ known[m] = files[m]
  <2>1. CASE Creating
    <3>1. known = cut /\ known \in Seq(File) /\ Len(known) = n - 1
      BY <1>4, <2>1
    <3>2. DOMAIN known = 1..Len(known) /\ \A m \in 1..(n - 1) : known[m] = files[m]
      BY <1>4, <3>1, LenProperties
    <3> HIDE DEF known
    <3>3. Len(known) \in Nat /\ Len(known) + 1 = n
      BY <1>3, <3>1
    <3>4. \A m \in 1..(n - 1) : m \in DOMAIN files
      BY <1>3
    <3> QED BY <2>1, <3>1, <3>2, <3>3, <3>4 DEF n
  <2>2. CASE ~Creating
    BY <1>3, <2>2, LenProperties DEF n
  <2> QED BY <2>1, <2>2
<1> HIDE DEF known
<1>7. /\ dir \in Seq(File) /\ DOMAIN dir = DOMAIN known
      /\ \A m \in DOMAIN known :
           IF AtRisk(known[m]) THEN dir[m] \in SurvivingImages(known[m]) ELSE dir[m] = known[m]
  <2>1. dir \in Seq(File)
    BY <1>6, SurvivingType
  <2> DEFINE risky == {i \in DOMAIN known : AtRisk(known[i])}
  <2>2. PICK g : /\ \A i \in risky : g[i] \in SurvivingImages(known[i])
                 /\ dir = [i \in DOMAIN known |-> IF i \in risky THEN g[i] ELSE known[i]]
    <3> HIDE DEF risky
    <3>1. SurvivingDirs(known) =
            {[i \in DOMAIN known |-> IF i \in risky THEN g[i] ELSE known[i]] :
               g \in {h \in [risky -> UNION {SurvivingImages(known[i]) : i \in risky}] :
                        \A i \in risky : h[i] \in SurvivingImages(known[i])}}
      BY DEF SurvivingDirs, risky
    <3> QED BY <3>1
  <2> QED BY <2>1, <2>2
<1>8. Len(dir) = Len(known)
  BY <1>6, <1>7, LenProperties
<1>9. \A m \in 1..Len(dir) : Loss("power", dir[m], m)
  <2> SUFFICES ASSUME NEW m \in 1..Len(dir) PROVE Loss("power", dir[m], m)
    OBVIOUS
  <2>1. m \in DOMAIN known /\ known[m] = files[m]
    BY <1>6, <1>8
  <2>2. IF AtRisk(files[m]) THEN dir[m] \in SurvivingImages(files[m]) ELSE dir[m] = files[m]
    BY <1>7, <2>1
  <2> QED BY <2>2, Zenon DEF Loss
<1>10. LostTo("power", dir, new)
  BY <1>2, <1>6, <1>8, <1>9 DEF LostTo
<1> QED BY <1>5, <1>7, <1>10

LEMMA LostFiles ==
  ASSUME TypeInv, TypeInv', DirInv, NEW kind, NEW hs \in Seq(File), NEW new \in NewFileImages,
         LostTo(kind, hs, new), kind = "io" => InBatch
  PROVE  /\ FilesSound' /\ AllRecs(files') \subseteq AllRecs(files)
         /\ \A r \in DurableRecs(files) : r \in DurableRecs(files') \/ Unpublished(r)
<1>1. Len(files) \in Nat /\ DOMAIN files = 1..Len(files) /\ Len(hs) \in Nat
  BY FilesAre, LenProperties
<1>2. IF Creating THEN Len(hs) + 1 = Len(files) ELSE Len(hs) = Len(files)
  BY DEF LostTo
<1>3. Len(hs) <= Len(files)
  <2>1. Len(hs) + 1 = Len(files) \/ Len(hs) = Len(files)
    BY <1>2
  <2>2. Len(hs) \in Nat /\ Len(files) \in Nat
    BY <1>1
  <2> QED BY <2>1, <2>2
<1>4. ASSUME NEW m \in 1..Len(hs) PROVE LeftOf(hs[m], m)
  <2>1. m \in DOMAIN files
    BY <1>1, <1>3
  <2>2. Loss(kind, hs[m], m)
    BY DEF LostTo
  <2> QED BY <2>1, <2>2, LossLeft
<1>5. Remains(hs)
  BY <1>2, <1>4, Zenon DEF Remains
<1>6. WithCreated(files', hs)
  <2>1. files' = hs \o new
    BY DEF LostTo
  <2> QED BY <2>1, NewImage
<1> QED BY <1>5, <1>6, LossDir

LEMMA FailureDir ==
  ASSUME HeadInv, TypeInv', DirInv, io_error \/ process_crash \/ power_loss
  PROVE  /\ DirInv' /\ AllRecs(files') \subseteq AllRecs(files)
         /\ \A r \in DurableRecs(files) : r \in DurableRecs(files') \/ Unpublished(r)
<1>1. TypeInv /\ (io_error => InBatch)
  BY DEF HeadInv, io_error, Writing, InBatch
<1>2. /\ FilesSound' /\ AllRecs(files') \subseteq AllRecs(files)
      /\ \A r \in DurableRecs(files) : r \in DurableRecs(files') \/ Unpublished(r)
  <2>1. CASE io_error
    <3>1. PICK hs \in Seq(File), new \in NewFileImages : LostTo("io", hs, new)
      BY <1>1, <2>1, IoErrorLoss
    <3> QED BY <1>1, <2>1, <3>1, LostFiles
  <2>2. CASE process_crash
    <3>1. PICK hs \in Seq(File), new \in NewFileImages : LostTo("process", hs, new)
      BY <1>1, <2>2, ProcessCrashLoss
    <3> QED BY <1>1, <3>1, LostFiles
  <2>3. CASE power_loss
    <3>1. PICK hs \in Seq(File), new \in NewFileImages : LostTo("power", hs, new)
      BY <1>1, <2>3, PowerLoss
    <3> QED BY <1>1, <3>1, LostFiles
  <2> QED BY <2>1, <2>2, <2>3
<1>3. pc' \in {"dead", "closed"}
  BY DEF io_error, process_crash, power_loss, Restart
<1>4. ~Running' /\ ~Creating' /\ pc' # "open_header"
  BY <1>3 DEF Running, Creating
<1> QED BY <1>2, <1>4 DEF DirInv, ActiveSound, RecordsBelow, OthersDurable, CreatedEmpty
-----------------------------------------------------------------------------
(* Recovery.                                                                *)

Recovered(f, keep) ==
  IF scan_segment_file(f).sealed \/ keep THEN Repaired(f)
  ELSE seal_file(Repaired(f), scan_segment_file(f))

\* Recovery keeps every record of a file; only the tail it goes on writing to
\* may hold records that are not fsynced.
LEMMA RecoverSound ==
  ASSUME NEW f \in File, FileSound(f), NEW keep \in BOOLEAN
  PROVE  LET g == Recovered(f, keep)
             scan == scan_segment_file(f)
         IN  /\ g \in File /\ FileSound(g) /\ g.recs = f.recs /\ g.dur >= f.dur
             /\ ~keep => g.dur = Len(g.recs)
             /\ keep /\ ~scan.sealed => g.foot = NoFooter
             /\ PhysLen(g) <= scan.valid_len
<1> DEFINE scan == scan_segment_file(f)
           h == Repaired(f)
           g == Recovered(f, keep)
<1>1. Len(f.recs) \in Nat /\ f.dur \in Nat /\ f.recs \in Seq(Record)
  BY FileRecs
<1>2. scan \in Scan /\ scan.recs = f.recs /\ (scan.sealed <=> f.foot # NoFooter)
  BY ScanType, ScanSound
<1>3. /\ h \in File /\ FileSound(h) /\ h.recs = f.recs /\ h.dur >= f.dur /\ h.foot = f.foot
  BY RepairSound
<1>4. h.dur \in Nat /\ h.dur <= Len(f.recs)
  BY <1>3 DEF File, FileSound
<1>5. scan.valid_len = IF f.recs = <<>> THEN HeaderLen
                       ELSE LastOf(f.recs).off + LastOf(f.recs).size
  <2>1. scan.valid_len = IF scan.recs = <<>> THEN HeaderLen
                         ELSE LastOf(scan.recs).off + LastOf(scan.recs).size
    BY DEF scan_segment_file
  <2> HIDE DEF scan
  <2> QED BY <1>2, <2>1
<1>6. g = IF scan.sealed \/ keep THEN h ELSE seal_file(h, scan)
  BY DEF Recovered
<1> HIDE DEF scan, h, g
<1>7. /\ g \in File /\ FileSound(g) /\ g.recs = f.recs /\ g.dur >= f.dur
      /\ ~keep => g.dur = Len(g.recs)
      /\ keep /\ ~scan.sealed => g.foot = NoFooter
  <2>1. CASE scan.sealed
    <3>1. f.dur = Len(f.recs)
      BY <1>2, <2>1 DEF FileSound
    <3>2. g = h
      BY <1>6, <2>1
    <3> QED BY <1>1, <1>3, <1>4, <2>1, <3>1, <3>2
  <2>2. CASE ~scan.sealed /\ keep
    <3>1. g = h
      BY <1>6, <2>2
    <3> QED BY <1>2, <1>3, <2>2, <3>1
  <2>3. CASE ~scan.sealed /\ ~keep
    <3>1. g = seal_file(h, scan)
      BY <1>6, <2>3
    <3>2. g \in File /\ FileSound(g) /\ g.recs = h.recs /\ g.dur >= h.dur /\ g.dur = Len(g.recs)
      BY <1>2, <1>3, <3>1, SealSound
    <3>3. g.dur >= f.dur
      BY <1>1, <1>3, <1>4, <3>2
    <3> QED BY <1>3, <2>3, <3>2, <3>3
  <2> QED BY <2>1, <2>2, <2>3
<1>8. PhysLen(g) <= scan.valid_len
  <2>1. CASE f.recs = <<>>
    BY <1>5, <1>7, <2>1 DEF PhysLen, HeaderLen
  <2>2. CASE f.recs # <<>>
    <3>1. LastOf(f.recs) \in Record
      BY <1>1, <2>2, LastType
    <3> QED BY <1>5, <1>7, <2>2, <3>1 DEF PhysLen, Record
  <2> QED BY <2>1, <2>2
<1> QED BY <1>7, <1>8 DEF scan, g

Scans == [i \in DOMAIN files |-> scan_segment_file(files[i])]
LastFile == files[Len(files)]

\* The last segment goes on being the active one.
KeepsTail ==
  /\ Len(files) > 0
  /\ ~scan_segment_file(LastFile).sealed /\ scan_segment_file(LastFile).ver = "cur"

\* The active segment open goes on with, or starts.
TailKept(lsn0) ==
  /\ KeepsTail /\ pc' = "recv" /\ Len(files') = Len(files)
  /\ active' = [seg |-> Len(files) - 1,
                base |-> IF LastFile.recs = <<>> THEN lsn0 ELSE LastFile.recs[1].lsn,
                max |-> IF LastFile.recs = <<>> THEN lsn0 ELSE LastOf(LastFile.recs).lsn,
                bytes |-> scan_segment_file(LastFile).valid_len,
                hashes |-> Leaves(LastFile.recs)]
TailStarted(lsn0) ==
  /\ ~KeepsTail /\ pc' = "open_header" /\ Len(files') = Len(files) + 1
  /\ files'[Len(files) + 1] = EmptyFile
  /\ active' = new_active(Len(files), lsn0)

\* What open makes of the directory when it does not refuse it.
Reopens(lsn0) ==
  /\ lsn0 \in NextLsn(AllRecs(files)) /\ current_lsn' = lsn0 /\ committed_lsn' = lsn0
  /\ \A i \in DOMAIN files : files'[i] = Recovered(files[i], i = Len(files) /\ KeepsTail)
  /\ TailKept(lsn0) \/ TailStarted(lsn0)

\* The scan gives every record of a sound directory.
ScannedRecs == UNION {{Scans[i].recs[k] : k \in DOMAIN Scans[i].recs} : i \in DOMAIN Scans}

LEMMA ScanComplete ==
  ASSUME TypeInv, FilesSound
  PROVE  ScannedRecs = AllRecs(files)
<1> DEFINE Part(i) == {Scans[i].recs[k] : k \in DOMAIN Scans[i].recs}
           Own(i) == {files[i].recs[k] : k \in DOMAIN files[i].recs}
<1>1. DOMAIN Scans = DOMAIN files
  BY DEF Scans
<1>2. \A i \in DOMAIN files : Scans[i].recs = files[i].recs
  BY FilesAre, ScanSound DEF Scans, FilesSound
<1>3. \A i \in DOMAIN files : Part(i) = Own(i)
  BY <1>2
<1>4. ScannedRecs = UNION {Part(i) : i \in DOMAIN files}
      /\ AllRecs(files) = UNION {Own(i) : i \in DOMAIN files}
  BY <1>1 DEF AllRecs, ScannedRecs
<1> HIDE DEF Part, Own
<1> QED BY <1>3, <1>4

LEMMA OpenFiles ==
  ASSUME TypeInv, FilesSound, open
  PROVE  \/ open_refuses(Scans) /\ pc' = "refused" /\ files' = files
         \/ ~open_refuses(Scans) /\ \E lsn0 : Reopens(lsn0)
<1> DEFINE n == Len(files)
           scans == Scans
           recs == UNION {{scans[i].recs[k] : k \in DOMAIN scans[i].recs} : i \in DOMAIN scans}
           tail == n > 0 /\ ~scans[n].sealed /\ scans[n].ver = "cur"
           repaired == [i \in DOMAIN files |->
                          IF scans[i].corrupt THEN execute_physical_repair(files[i], scans[i])
                          ELSE files[i]]
           recovered == [i \in DOMAIN files |->
                          IF scans[i].sealed \/ (i = n /\ tail) THEN repaired[i]
                          ELSE seal_file(repaired[i], scans[i])]
           containers == [i \in 1..(IF tail THEN n - 1 ELSE n) |-> SealedContainer(scans, i)]
<1>1. /\ files \in Seq(File) /\ n \in Nat /\ DOMAIN files = 1..n
      /\ \A i \in DOMAIN files : files[i] \in File /\ FileSound(files[i])
  BY FilesAre DEF FilesSound
<1>2. CASE open_refuses(scans)
  <2>1. pc' = "refused" /\ files' = files
    BY <1>2 DEF open, Scans
  <2> QED BY <1>2, <2>1
<1>3. CASE ~open_refuses(scans)
  <2> DEFINE last == scans[n].recs
             kept(lsn0) == [seg |-> n - 1, base |-> IF last = <<>> THEN lsn0 ELSE last[1].lsn,
                            max |-> IF last = <<>> THEN lsn0 ELSE LastOf(last).lsn,
                            bytes |-> scans[n].valid_len, hashes |-> Leaves(last)]
  <2>1. PICK lsn0 \in NextLsn(recs) :
          /\ current_lsn' = lsn0 /\ committed_lsn' = lsn0
          /\ \/ tail /\ files' = recovered /\ pc' = "recv" /\ active' = kept(lsn0)
             \/ /\ ~tail /\ files' = Append(recovered, EmptyFile) /\ pc' = "open_header"
                /\ active' = new_active(n, lsn0)
    <3>1. PICK lsn0 \in NextLsn(recs), sealed \in SortedByBase(containers) :
            /\ current_lsn' = lsn0 /\ committed_lsn' = lsn0
            /\ \/ tail /\ files' = recovered /\ pc' = "recv" /\ active' = kept(lsn0)
               \/ /\ ~tail /\ files' = Append(recovered, EmptyFile) /\ pc' = "open_header"
                  /\ active' = new_active(n, lsn0)
      BY <1>3, Zenon DEF open, Scans
    <3> HIDE DEF recs, recovered, containers, tail, scans, n, last, kept
    <3> QED BY <3>1
  <2>2. \A i \in DOMAIN files : scans[i] = scan_segment_file(files[i])
                                /\ scans[i].recs = files[i].recs
    BY <1>1, ScanSound DEF Scans
  <2>3. recs = AllRecs(files)
    BY ScanComplete DEF ScannedRecs
  <2>4. tail <=> KeepsTail
    <3>1. n > 0 => n \in DOMAIN files
      BY <1>1
    <3> HIDE DEF scans
    <3> QED BY <2>2, <3>1 DEF KeepsTail, LastFile
  <2>5. tail => /\ n \in DOMAIN files /\ last = LastFile.recs
                /\ scans[n].valid_len = scan_segment_file(LastFile).valid_len
    <3>1. tail => n \in DOMAIN files
      BY <1>1
    <3> HIDE DEF scans
    <3> QED BY <2>2, <3>1 DEF LastFile
  <2>6. ASSUME NEW i \in DOMAIN files
        PROVE  recovered[i] = Recovered(files[i], i = n /\ KeepsTail)
    <3>1. \A k \in DOMAIN files : repaired[k] = Repaired(files[k])
      BY <2>2 DEF Repaired
    <3> HIDE DEF scans, repaired, tail, n
    <3> QED BY <2>2, <2>4, <3>1 DEF Recovered
  <2>7. DOMAIN recovered = 1..n /\ ~open_refuses(Scans)
    BY <1>1, <1>3
  <2>8. recovered \in Seq(File) /\ Len(recovered) = n
    <3>1. ASSUME NEW i \in DOMAIN files PROVE recovered[i] \in File
      <4> DEFINE keep == i = n /\ KeepsTail
      <4>1. recovered[i] = Recovered(files[i], keep) /\ keep \in BOOLEAN
        BY <2>6 DEF KeepsTail
      <4> HIDE DEF keep, recovered
      <4> QED BY <1>1, <4>1, RecoverSound
    <3>2. recovered = [i \in 1..n |-> recovered[i]]
      BY <1>1
    <3> HIDE DEF recovered, n
    <3>3. recovered \in [1..n -> File]
      BY <1>1, <3>1, <3>2
    <3> QED BY <1>1, <2>7, <3>3 DEF Seq
  <2> HIDE DEF tail, recovered, scans, recs, last
  <2>9. CASE tail /\ files' = recovered /\ pc' = "recv" /\ active' = kept(lsn0)
    <3>1. active' = [seg |-> n - 1,
                     base |-> IF LastFile.recs = <<>> THEN lsn0 ELSE LastFile.recs[1].lsn,
                     max |-> IF LastFile.recs = <<>> THEN lsn0 ELSE LastOf(LastFile.recs).lsn,
                     bytes |-> scan_segment_file(LastFile).valid_len,
                     hashes |-> Leaves(LastFile.recs)]
      BY <2>5, <2>9
    <3>2. Reopens(lsn0)
      <4>1. \A i \in DOMAIN files : files'[i] = Recovered(files[i], i = n /\ KeepsTail)
        BY <2>6, <2>9
      <4>2. KeepsTail /\ pc' = "recv" /\ Len(files') = n
        BY <2>4, <2>8, <2>9
      <4>3. lsn0 \in NextLsn(AllRecs(files)) /\ current_lsn' = lsn0 /\ committed_lsn' = lsn0
        BY <2>1, <2>3
      <4>4. TailKept(lsn0)
        BY <3>1, <4>2 DEF TailKept
      <4> HIDE DEF kept
      <4> QED BY <4>1, <4>3, <4>4 DEF Reopens
    <3> QED BY <2>7, <3>2
  <2>10. CASE /\ ~tail /\ files' = Append(recovered, EmptyFile) /\ pc' = "open_header"
              /\ active' = new_active(n, lsn0)
    <3>1. /\ Len(files') = n + 1 /\ files'[n + 1] = EmptyFile
          /\ \A m \in DOMAIN files : files'[m] = recovered[m]
      BY <1>1, <2>8, <2>10, EmptySound, AppendProperties
    <3>2. Reopens(lsn0)
      <4>1. \A i \in DOMAIN files : files'[i] = Recovered(files[i], i = n /\ KeepsTail)
        BY <2>6, <3>1
      <4>2. ~KeepsTail /\ pc' = "open_header" /\ active' = new_active(n, lsn0)
        BY <2>4, <2>10
      <4>3. lsn0 \in NextLsn(AllRecs(files)) /\ current_lsn' = lsn0 /\ committed_lsn' = lsn0
        BY <2>1, <2>3
      <4>4. TailStarted(lsn0)
        BY <3>1, <4>2 DEF TailStarted
      <4> HIDE DEF kept
      <4> QED BY <4>1, <4>3, <4>4 DEF Reopens
    <3> QED BY <2>7, <3>2
  <2> QED BY <2>1, <2>9, <2>10
<1> QED BY <1>2, <1>3

LEMMA OpenDir ==
  ASSUME HeadInv, TypeInv', DirInv, open
  PROVE  /\ DirInv' /\ AllRecs(files') = AllRecs(files)
         /\ DurableRecs(files) \subseteq DurableRecs(files')
<1> DEFINE n == Len(files)
<1>1. /\ TypeInv /\ FilesSound /\ files \in Seq(File) /\ n \in Nat /\ DOMAIN files = 1..n
      /\ \A i \in DOMAIN files : files[i] \in File /\ FileSound(files[i])
      /\ files' \in Seq(File) /\ DOMAIN files' = 1..Len(files')
  BY FilesAre, LenProperties DEF HeadInv, DirInv, FilesSound, TypeInv, TypeOK, DirectoryType
<1>2. CASE pc' = "refused" /\ files' = files
  BY <1>1, <1>2 DEF DirInv, FilesSound, ActiveSound, RecordsBelow, OthersDurable,
     CreatedEmpty, Running, Creating
<1>3. ASSUME NEW lsn0, Reopens(lsn0)
      PROVE  /\ DirInv' /\ AllRecs(files') = AllRecs(files)
             /\ DurableRecs(files) \subseteq DurableRecs(files')
  <2>1. ASSUME NEW i \in DOMAIN files
        PROVE  /\ FileSound(files'[i])
               /\ files'[i].recs = files[i].recs /\ files'[i].dur >= files[i].dur
               /\ ~(i = n /\ KeepsTail) => files'[i].dur = Len(files'[i].recs)
               /\ i = n /\ KeepsTail =>
                    /\ files'[i].foot = NoFooter
                    /\ PhysLen(files'[i]) <= scan_segment_file(files[i]).valid_len
    <3> DEFINE keep == i = n /\ KeepsTail
    <3>1. keep \in BOOLEAN /\ files'[i] = Recovered(files[i], keep)
      BY <1>3 DEF Reopens, KeepsTail
    <3>2. keep => ~scan_segment_file(files[i]).sealed
      BY DEF KeepsTail, LastFile
    <3> HIDE DEF keep, n
    <3>3. LET g == Recovered(files[i], keep)
              scan == scan_segment_file(files[i])
          IN  /\ g \in File /\ FileSound(g) /\ g.recs = files[i].recs /\ g.dur >= files[i].dur
              /\ ~keep => g.dur = Len(g.recs)
              /\ keep /\ ~scan.sealed => g.foot = NoFooter
              /\ PhysLen(g) <= scan.valid_len
      BY <1>1, <3>1, RecoverSound
    <3> QED BY <3>1, <3>2, <3>3 DEF keep
  <2>2. /\ Len(<<>>) = 0 /\ FileSound(EmptyFile)
        /\ EmptyFile.recs = <<>> /\ EmptyFile.dur = 0 /\ EmptyFile.foot = NoFooter
        /\ PhysLen(EmptyFile) = 0 /\ 0 <= HeaderLen
    BY EmptySound DEF EmptyFile, PhysLen, HeaderLen
  <2>3. NextPlace' = lsn0 /\ \A r \in AllRecs(files) : r.lsn < lsn0
    <3>1. pc' \in {"recv", "open_header"}
      BY <1>3 DEF Reopens, TailKept, TailStarted
    <3>2. NextPlace' = lsn0
      BY <1>3, <3>1 DEF Reopens, NextPlace, InBatch
    <3> QED BY <1>3, <3>2 DEF Reopens, NextLsn
  <2> HIDE DEF n
  <2>4. CASE /\ KeepsTail /\ pc' = "recv" /\ Len(files') = n
             /\ active'.seg = n - 1 /\ active'.bytes = scan_segment_file(LastFile).valid_len
    <3>1. active'.seg + 1 = n /\ n \in DOMAIN files /\ DOMAIN files' = DOMAIN files
      BY <1>1, <2>4 DEF KeepsTail, n
    <3>2. AllRecs(files') = AllRecs(files) /\ DurableRecs(files) \subseteq DurableRecs(files')
      <4>1. Len(files) <= Len(files')
        BY <1>1, <2>4 DEF n
      <4> QED BY <1>1, <2>1, <3>1, <4>1, SameRecs
    <3>3. FilesSound'
      BY <2>1, <3>1 DEF FilesSound
    <3>4. ActiveSound'
      <4>1. ActiveFile' = files'[n] /\ LastFile = files[n]
        BY <3>1 DEF ActiveFile, LastFile, n
      <4> QED BY <2>1, <2>4, <3>1, <4>1 DEF ActiveSound, InBatch
    <3>5. OthersDurable'
      BY <2>1, <3>1 DEF OthersDurable
    <3>6. RecordsBelow' /\ CreatedEmpty'
      BY <2>3, <2>4, <3>2 DEF RecordsBelow, CreatedEmpty, Creating
    <3> QED BY <3>2, <3>3, <3>4, <3>5, <3>6 DEF DirInv
  <2>5. CASE /\ ~KeepsTail /\ pc' = "open_header" /\ Len(files') = n + 1
             /\ files'[n + 1] = EmptyFile
             /\ active'.seg = n /\ active'.bytes = HeaderLen
    <3>1. \A m \in DOMAIN files' : m \in DOMAIN files \/ m = n + 1
      BY <1>1, <2>5
    <3>2. AllRecs(files') = AllRecs(files) /\ DurableRecs(files) \subseteq DurableRecs(files')
      <4>1. Len(files) <= Len(files')
        BY <1>1, <2>5 DEF n
      <4>2. \A m \in DOMAIN files : files'[m].recs = files[m].recs /\ files'[m].dur >= files[m].dur
        BY <2>1
      <4>3. \A m \in DOMAIN files' : m \in DOMAIN files \/ files'[m].recs = <<>>
        BY <2>2, <2>5, <3>1
      <4> QED BY <1>1, <4>1, <4>2, <4>3, SameRecs
    <3>3. FilesSound'
      BY <2>1, <2>2, <2>5, <3>1 DEF FilesSound
    <3>4. ActiveFile' = EmptyFile
      BY <2>5 DEF ActiveFile
    <3>5. ActiveSound'
      BY <2>2, <2>5, <3>4 DEF ActiveSound, InBatch
    <3>6. OthersDurable'
      BY <2>1, <2>5, <3>1 DEF OthersDurable
    <3>7. RecordsBelow'
      BY <2>3, <3>2 DEF RecordsBelow
    <3>8. CreatedEmpty'
      <4>1. HeaderLen >= HeaderLen
        BY DEF HeaderLen
      <4> QED BY <2>2, <2>5, <4>1 DEF CreatedEmpty
    <3> QED BY <3>2, <3>3, <3>5, <3>6, <3>7, <3>8 DEF DirInv
  <2>6. CASE TailKept(lsn0)
    BY <2>4, <2>6 DEF TailKept, n
  <2>7. CASE TailStarted(lsn0)
    BY <2>5, <2>7 DEF TailStarted, new_active, n
  <2> QED BY <1>3, <2>6, <2>7 DEF Reopens
<1> QED BY <1>1, <1>2, <1>3, OpenFiles
-----------------------------------------------------------------------------
(* Every step.                                                              *)

LEMMA InitDir == Init => DirInv
<1> SUFFICES ASSUME Init PROVE DirInv
  OBVIOUS
<1>1. ~Running /\ ~Creating /\ pc # "open_header"
  BY DEF Init, Running, Creating
<1>2. FilesSound
  <2> DEFINE r == [lsn |-> 0, ts |-> 1, id |-> 0, off |-> HeaderLen, size |-> 1]
  <2>1. Len(<<r>>) = 1 /\ <<r>>[1] = r /\ r.size = 1
    OBVIOUS
  <2>2. OldSegment.recs = <<r>> /\ OldSegment.dur = 1
    BY DEF OldSegment, EmptyFile
  <2> HIDE DEF r
  <2>3. FileSound(OldSegment)
    BY <2>1, <2>2 DEF FileSound
  <2>4. files = <<>> \/ files = <<OldSegment>>
    BY Zenon DEF Init
  <2>5. CASE files = <<>>
    BY <2>5 DEF FilesSound
  <2>6. CASE files = <<OldSegment>>
    BY <2>3, <2>6 DEF FilesSound
  <2> QED BY <2>4, <2>5, <2>6
<1> QED BY <1>1, <1>2 DEF DirInv, ActiveSound, RecordsBelow, OthersDurable, CreatedEmpty

\* A record comes into the directory by place alone and leaves it by a failure
\* alone; none that is durable ever does, but for what a batch that is rolled
\* back had written and not answered yet.
DirStep ==
  /\ \A r \in AllRecs(files') : r \in AllRecs(files) \/ (place /\ r = Placed)
  /\ \A r \in DurableRecs(files) : r \in DurableRecs(files') \/ (Unpublished(r) /\ ~Running')
  /\ Running' => AllRecs(files) \subseteq AllRecs(files')

LEMMA NextDir ==
  ASSUME HeadInv, DirInv, CommandsSound, [Next]_vars
  PROVE  DirInv' /\ DirStep
<1>1. TypeInv /\ TypeInv'
  BY NextType DEF HeadInv
<1>2. CASE place
  <2>1. /\ DirInv' /\ AllRecs(files') = AllRecs(files) \cup {Placed}
        /\ DurableRecs(files) \subseteq DurableRecs(files')
    BY <1>2, PlaceDir
  <2>2. \A r \in AllRecs(files') : r \in AllRecs(files) \/ r = Placed
    BY <2>1
  <2>3. AllRecs(files) \subseteq AllRecs(files')
    BY <2>1
  <2> QED BY <1>2, <2>1, <2>2, <2>3 DEF DirStep
<1>3. CASE roll_seal \/ roll_create \/ fsync \/ open
           \/ \E p \in PhysClock : roll_header(p) \/ open_header(p)
  <2>1. /\ DirInv' /\ AllRecs(files') = AllRecs(files)
        /\ DurableRecs(files) \subseteq DurableRecs(files')
    BY <1>1, <1>3, RollSealDir, RollCreateDir, FsyncDir, OpenDir, HeaderDir
  <2> QED BY <2>1 DEF DirStep
<1>4. CASE io_error \/ process_crash \/ power_loss
  <2>1. /\ DirInv' /\ AllRecs(files') \subseteq AllRecs(files)
        /\ \A r \in DurableRecs(files) : r \in DurableRecs(files') \/ Unpublished(r)
    BY <1>1, <1>4, FailureDir
  <2>2. ~Running'
    BY <1>4 DEF io_error, process_crash, power_loss, Restart, Running
  <2> QED BY <2>1, <2>2 DEF DirStep
<1>5. CASE \/ recv \/ write_flush \/ reject \/ publish \/ commit \/ ack
  <2>1. files' = files /\ ~Creating /\ Running
    BY <1>5 DEF recv, write_flush, reject, publish, commit, ack, Creating, Running
  <2>2. DirInv'
    BY <1>5, <2>1, OtherDir
  <2> QED BY <2>1, <2>2 DEF DirStep
<1>6. CASE UNCHANGED <<worker, files>>
  <2>1. DirInv'
    BY <1>6 DEF worker, DirInv, FilesSound, ActiveSound, ActiveFile, RecordsBelow, NextPlace,
       OthersDurable, CreatedEmpty, Creating, Running, InBatch
  <2> QED BY <1>6, <2>1 DEF DirStep
<1>7. \/ \E c \in Clients, size \in Sizes, p \in PhysClock : append(c, size, p)
      \/ \E c \in Clients, k \in DOMAIN Leader : append_replicated(c, k)
      \/ \E c \in Clients : flush(c) \/ send_timeout(c)
      \/ UNCHANGED vars
      => UNCHANGED <<worker, files>>
  BY DEF append, append_replicated, flush, send_timeout, vars
<1> QED BY <1>2, <1>3, <1>4, <1>5, <1>6, <1>7 DEF Next, WorkerStep
-----------------------------------------------------------------------------
(* The answers.                                                             *)

Answering == InBatch \/ pc = "ack"

\* What phase 6 answers is in the directory.
Stashed ==
  Answering => \A k \in DOMAIN stash :
                 \E r \in AllRecs(files) : r.lsn = stash[k].lsn /\ r.id = stash[k].id

\* A batch that owes a promise asks for the fsync, and has had it when it is
\* published.
Synced ==
  /\ Answering /\ (flushes # <<>> \/ (Policy = "always" /\ stash # <<>>)) => sync_required
  /\ pc \in {"publish", "commit", "ack"} /\ sync_required
       => ActiveFile.dur = Len(ActiveFile.recs)

\* What was promised is on disk, and not in front of the next LSN.
PromisedDurable ==
  /\ \A a \in promised : \E r \in DurableRecs(files) : a = <<r.lsn, r.id>>
  /\ Running \/ pc = "dead" => \A a \in promised : a[1] < current_lsn

DurableInv ==
  HeadInv /\ DirInv /\ CommandsSound /\ Stashed /\ Synced /\ PromisedDurable

LEMMA InitDurable == Init => DurableInv
<1> SUFFICES ASSUME Init PROVE DurableInv
  OBVIOUS
<1>1. HeadInv /\ DirInv /\ CommandsSound
  BY InitHead, InitDir, InitCommands
<1>2. Stashed /\ Synced /\ PromisedDurable
  BY DEF Init, Stashed, Synced, PromisedDurable, Answering, InBatch
<1> QED BY <1>1, <1>2 DEF DurableInv

\* Once the active file is fsynced the whole directory is.
LEMMA AllDurable ==
  ASSUME TypeInv, DirInv, Running, ActiveFile.dur = Len(ActiveFile.recs)
  PROVE  AllRecs(files) \subseteq DurableRecs(files)
<1>1. files \in Seq(File) /\ \A i \in DOMAIN files : files[i].dur = Len(files[i].recs)
  BY FilesAre DEF DirInv, OthersDurable, ActiveFile
<1> SUFFICES ASSUME NEW r \in AllRecs(files) PROVE r \in DurableRecs(files)
  OBVIOUS
<1>2. PICK i \in DOMAIN files : \E j \in 1..Len(files[i].recs) : r = files[i].recs[j]
  BY <1>1, RecordPlaces
<1>3. \E j \in 1..files[i].dur : r = files[i].recs[j]
  BY <1>1, <1>2
<1> QED BY <1>1, <1>3, RecordPlaces

LEMMA NextStashed ==
  ASSUME DurableInv, [Next]_vars, DirStep
  PROVE  Stashed'
<1>1. TypeInv /\ stash \in Seq(Update) /\ Len(stash) \in Nat /\ DOMAIN stash = 1..Len(stash)
  BY LenProperties DEF DurableInv, HeadInv, TypeInv, TypeOK, CallsType
<1>2. CASE place
  <2>1. PICK u : stash' = Append(stash, u) /\ u \in Update /\ u.lsn = tentative_lsn /\ u.id = Cmd.id
    <3> DEFINE u == [lsn |-> tentative_lsn, id |-> Cmd.id, off |-> active.bytes,
                     client |-> Cmd.client]
    <3>1. stash' = Append(stash, u)
      BY <1>2 DEF place
    <3>2. Cmd \in Command
      BY <1>2, PlaceDir DEF DurableInv
    <3>3. u \in Update
      BY <1>1, <3>2 DEF TypeInv, TypeOK, CountersType, WorkerType, ActiveSegment, Command, Update
    <3> QED BY <3>1, <3>3
  <2>2. /\ DOMAIN stash' = 1..(Len(stash) + 1) /\ \A i \in DOMAIN stash : stash'[i] = stash[i]
        /\ stash'[Len(stash) + 1] = u
    BY <1>1, <2>1, AppendProperties, LenProperties
  <2>3. AllRecs(files') = AllRecs(files) \cup {Placed}
    BY <1>2, PlaceDir DEF DurableInv
  <2>4. Placed.lsn = u.lsn /\ Placed.id = u.id
    BY <2>1 DEF Placed
  <2>5. \A k \in DOMAIN stash :
          \E r \in AllRecs(files) : r.lsn = stash[k].lsn /\ r.id = stash[k].id
    BY <1>2 DEF DurableInv, Stashed, Answering, InBatch, place
  <2>6. ASSUME NEW k \in DOMAIN stash'
        PROVE  \E r \in AllRecs(files') : r.lsn = stash'[k].lsn /\ r.id = stash'[k].id
    <3>1. CASE k \in DOMAIN stash
      BY <2>2, <2>3, <2>5, <3>1
    <3>2. CASE k = Len(stash) + 1
      BY <2>2, <2>3, <2>4, <3>2
    <3> QED BY <1>1, <2>2, <3>1, <3>2
  <2> QED BY <2>6 DEF Stashed
<1>3. CASE UNCHANGED stash /\ (Answering' => Answering /\ Running')
  <2>1. Answering' => AllRecs(files) \subseteq AllRecs(files')
    BY <1>3 DEF DirStep
  <2> QED BY <1>3, <2>1 DEF DurableInv, Stashed
<1>4. CASE stash' = <<>>
  BY <1>4 DEF Stashed
<1>5. CASE ~Answering'
  BY <1>5 DEF Stashed
<1>6. \/ place \/ stash' = <<>> \/ ~Answering'
      \/ UNCHANGED stash /\ (Answering' => Answering /\ Running')
  <2>1. CASE recv \/ ack
    BY <2>1 DEF recv, ack
  <2>2. CASE write_flush \/ reject \/ roll_seal \/ roll_create \/ fsync \/ publish \/ commit
             \/ \E p \in PhysClock : roll_header(p)
    BY <2>2 DEF write_flush, reject, roll_seal, roll_create, fsync, publish, commit, roll_header,
       Answering, InBatch, Running
  <2>3. CASE open \/ io_error \/ process_crash \/ power_loss
             \/ \E p \in PhysClock : open_header(p)
    <3>1. open => pc' \in {"refused", "recv", "open_header"}
      BY Zenon DEF open
    <3> QED BY <2>3, <3>1 DEF io_error, process_crash, power_loss, Restart, open_header,
               Answering, InBatch
  <2>4. CASE UNCHANGED <<stash, pc>>
    BY <2>4 DEF Answering, InBatch, Running
  <2>5. \/ \E c \in Clients, size \in Sizes, p \in PhysClock : append(c, size, p)
        \/ \E c \in Clients, k \in DOMAIN Leader : append_replicated(c, k)
        \/ \E c \in Clients : flush(c) \/ send_timeout(c)
        \/ UNCHANGED vars
        => UNCHANGED <<stash, pc>>
    BY DEF append, append_replicated, flush, send_timeout, vars, worker
  <2> QED BY <2>1, <2>2, <2>3, <2>4, <2>5 DEF Next, WorkerStep
<1> QED BY <1>2, <1>3, <1>4, <1>5, <1>6

LEMMA NextSynced ==
  ASSUME DurableInv, [Next]_vars
  PROVE  Synced'
<1>1. HeadInv /\ DirInv /\ CommandsSound /\ TypeInv /\ sync_required \in BOOLEAN
  BY DEF DurableInv, HeadInv, TypeInv, TypeOK, WorkerType
<1>2. CASE recv \/ ack \/ write_flush
  BY <1>2 DEF recv, ack, write_flush, Synced, Answering, InBatch
<1>3. CASE place
  <2>1. pc' = "write" /\ flushes' = flushes /\ Answering /\ sync_required' \in SyncAfterWrite
    BY <1>3 DEF place, Answering, InBatch
  <2>2. (Policy = "always" \/ sync_required) => sync_required'
    <3>1. Policy = "always" => SyncAfterWrite = {TRUE}
      BY Zenon DEF SyncAfterWrite
    <3>2. SyncAfterWrite = {TRUE} \/ SyncAfterWrite = {sync_required, TRUE}
      BY Zenon DEF SyncAfterWrite
    <3>3. CASE SyncAfterWrite = {TRUE}
      <4>1. sync_required' = TRUE
        BY <2>1, <3>3
      <4> QED BY <4>1
    <3>4. CASE SyncAfterWrite = {sync_required, TRUE}
      <4>1. sync_required' = sync_required \/ sync_required' = TRUE
        BY <2>1, <3>4, Zenon
      <4> QED BY <3>1, <3>3, <4>1, Zenon
    <3> QED BY <3>2, <3>3, <3>4
  <2> QED BY <2>1, <2>2 DEF DurableInv, Synced
<1>4. CASE fsync
  <2>1. sync_required' => ActiveFile'.dur = Len(ActiveFile'.recs)
    BY <1>1, <1>4, FsyncDir
  <2> QED BY <1>4, <2>1 DEF DurableInv, Synced, Answering, InBatch, fsync
<1>5. CASE publish \/ commit
  BY <1>5 DEF publish, commit, DurableInv, Synced, Answering, InBatch, ActiveFile
<1>6. CASE reject \/ roll_seal \/ roll_create \/ \E p \in PhysClock : roll_header(p)
  <2>1. /\ UNCHANGED <<flushes, stash, sync_required>>
        /\ pc' \in {"write", "roll_create", "roll_header", "place"} /\ Answering
    BY <1>6 DEF reject, roll_seal, roll_create, roll_header, Answering, InBatch
  <2> QED BY <2>1 DEF DurableInv, Synced
<1>7. CASE open \/ io_error \/ process_crash \/ power_loss
           \/ \E p \in PhysClock : open_header(p)
  <2>1. open => pc' \in {"refused", "recv", "open_header"}
    BY Zenon DEF open
  <2>2. ~Answering'
    BY <1>7, <2>1 DEF io_error, process_crash, power_loss, Restart, open_header, Answering,
       InBatch
  <2>3. pc' \notin {"publish", "commit", "ack"}
    BY <2>2 DEF Answering, InBatch
  <2> QED BY <2>2, <2>3 DEF Synced
<1>8. CASE UNCHANGED <<worker, files>>
  BY <1>8 DEF worker, DurableInv, Synced, Answering, InBatch, ActiveFile
<1>9. \/ \E c \in Clients, size \in Sizes, p \in PhysClock : append(c, size, p)
      \/ \E c \in Clients, k \in DOMAIN Leader : append_replicated(c, k)
      \/ \E c \in Clients : flush(c) \/ send_timeout(c)
      \/ UNCHANGED vars
      => UNCHANGED <<worker, files>>
  BY DEF append, append_replicated, flush, send_timeout, vars
<1> QED BY <1>2, <1>3, <1>4, <1>5, <1>6, <1>7, <1>8, <1>9 DEF Next, WorkerStep

\* What an answer promises is on disk when it is given.
LEMMA AckDurable ==
  ASSUME DurableInv, ack
  PROVE  \A a \in promised' \ promised :
           (\E r \in DurableRecs(files) : a = <<r.lsn, r.id>>) /\ a[1] < current_lsn
<1>1. TypeInv /\ pc = "ack" /\ Answering /\ Running /\ CommandsSound
  BY DEF DurableInv, HeadInv, ack, Answering, Running
<1>2. current_lsn = committed_lsn /\ current_lsn \in Nat
  BY <1>1 DEF DurableInv, HeadInv, HeadIsPublished, TypeInv, TypeOK, CountersType
<1>3. files \in Seq(File) /\ AllRecs(files) \subseteq Record
  BY <1>1, FilesAre, RecordPlaces
<1>4. sync_required => AllRecs(files) \subseteq DurableRecs(files)
  <2>1. sync_required => ActiveFile.dur = Len(ActiveFile.recs)
    BY <1>1 DEF DurableInv, Synced
  <2> QED BY <1>1, <2>1, AllDurable DEF DurableInv
<1>5. \A i \in DOMAIN flushes : flushes[i].mark <= current_lsn /\ flushes[i].mark \in Nat
  <2>1. flushes \in Seq(Command)
    BY <1>1 DEF TypeInv, TypeOK, CallsType
  <2>2. \A i \in DOMAIN flushes : flushes[i] \in Command
    BY <2>1, ElementOfSeq, LenProperties
  <2>3. \A i \in DOMAIN flushes : flushes[i] \in Carried
    BY DEF Carried, Elements
  <2> QED BY <1>1, <1>2, <2>2, <2>3 DEF CommandsSound, CommandSound, Command
<1> SUFFICES ASSUME NEW a \in promised' \ promised
             PROVE  (\E r \in DurableRecs(files) : a = <<r.lsn, r.id>>) /\ a[1] < current_lsn
  OBVIOUS
<1>6. CASE a \in Pairs(files) /\ \E i \in DOMAIN flushes : a[1] < flushes[i].mark
  <2>1. PICK r \in AllRecs(files) : a = <<r.lsn, r.id>>
    BY <1>6 DEF Pairs
  <2>2. PICK i \in DOMAIN flushes : a[1] < flushes[i].mark
    BY <1>6
  <2>3. r.lsn \in Nat /\ a[1] = r.lsn
    BY <1>3, <2>1 DEF Record
  <2>4. sync_required
    <3>1. flushes # <<>>
      BY <2>2
    <3> QED BY <1>1, <3>1 DEF DurableInv, Synced
  <2> QED BY <1>2, <1>4, <1>5, <2>1, <2>2, <2>3, <2>4
<1>7. ASSUME Policy = "always", NEW i \in DOMAIN stash, a = <<stash[i].lsn, stash[i].id>>
      PROVE  (\E r \in DurableRecs(files) : a = <<r.lsn, r.id>>) /\ a[1] < current_lsn
  <2>1. PICK r \in AllRecs(files) : r.lsn = stash[i].lsn /\ r.id = stash[i].id
    BY <1>1 DEF DurableInv, Stashed
  <2>2. sync_required
    <3>1. stash # <<>>
      BY <1>7
    <3> QED BY <1>1, <1>7, <3>1 DEF DurableInv, Synced
  <2>3. stash[i].lsn < committed_lsn
    BY <1>1 DEF DurableInv, HeadInv, StashBelowHead
  <2> QED BY <1>2, <1>4, <1>7, <2>1, <2>2, <2>3
<1>8. \/ a \in Pairs(files) /\ \E i \in DOMAIN flushes : a[1] < flushes[i].mark
      \/ Policy = "always" /\ \E i \in DOMAIN stash : a = <<stash[i].lsn, stash[i].id>>
  <2> DEFINE new == {<<stash[i].lsn, stash[i].id>> : i \in DOMAIN stash}
             covered == {x \in Pairs(files) : \E i \in DOMAIN flushes : x[1] < flushes[i].mark}
  <2>1. promised' = promised \cup covered \cup (IF Policy = "always" THEN new ELSE {})
    BY DEF ack
  <2>2. a \in covered \/ (Policy = "always" /\ a \in new)
    <3> HIDE DEF covered, new
    <3> QED BY <2>1, Zenon
  <2> QED BY <2>2
<1> QED BY <1>6, <1>7, <1>8

\* Apart from open, a log that runs or has stopped was there before, and its
\* head has not moved back.
LEMMA HeadKept ==
  ASSUME HeadInv, [Next]_vars, ~open, Running' \/ pc' = "dead"
  PROVE  (Running \/ pc = "dead") /\ current_lsn' >= current_lsn
<1>1. TypeInv /\ current_lsn \in Nat
  BY DEF HeadInv, TypeInv, TypeOK, CountersType
<1>2. CASE Opened
  <2>1. Opened'
    <3>1. pc' # "open_header"
      <4>1. ~(\E p \in PhysClock : open_header(p))
        BY <1>2 DEF open_header, Opened
      <4>2. WorkerStep => pc' # "open_header"
        BY <1>2 DEF WorkerStep, recv, write_flush, reject, place, roll_seal, roll_create,
           roll_header, fsync, publish, commit, ack, Opened
      <4>3. io_error \/ process_crash \/ power_loss => pc' # "open_header"
        BY DEF io_error, process_crash, power_loss, Restart
      <4>4. /\ (\E c \in Clients, size \in Sizes, p \in PhysClock : append(c, size, p)) => pc' = pc
            /\ (\E c \in Clients, k \in DOMAIN Leader : append_replicated(c, k)) => pc' = pc
            /\ (\E c \in Clients : flush(c) \/ send_timeout(c)) => pc' = pc
            /\ UNCHANGED vars => pc' = pc
        BY DEF append, append_replicated, flush, send_timeout, vars, worker
      <4> QED BY <1>2, <4>1, <4>2, <4>3, <4>4 DEF Next, Opened
    <3> QED BY <3>1 DEF Running, Opened
  <2> QED BY <1>2, <2>1, HeadsGrow DEF Running, Opened
<1>3. CASE pc = "open_header"
  <2>1. (\E p \in PhysClock : open_header(p)) => current_lsn' = current_lsn
    BY DEF open_header
  <2>2. ~io_error /\ ~WorkerStep
    BY <1>3 DEF io_error, Writing, WorkerStep, recv, write_flush, reject, place, roll_seal,
       roll_create, roll_header, fsync, publish, commit, ack
  <2>3. ~process_crash /\ ~power_loss
    BY DEF process_crash, power_loss, Restart, Running
  <2>4. /\ (\E c \in Clients, size \in Sizes, p \in PhysClock : append(c, size, p)) => Opened
        /\ (\E c \in Clients, k \in DOMAIN Leader : append_replicated(c, k)) => Opened
        /\ (\E c \in Clients : flush(c) \/ send_timeout(c)) => Opened
    BY DEF append, append_replicated, flush, send_timeout, Serving
  <2>5. UNCHANGED vars => current_lsn' = current_lsn
    BY DEF vars, worker
  <2>6. current_lsn' = current_lsn
    BY <1>3, <2>1, <2>2, <2>3, <2>4, <2>5 DEF Next, Opened
  <2> QED BY <1>1, <1>3, <2>6 DEF Running
<1>4. CASE pc \in {"closed", "refused"}
  <2>1. /\ (\E c \in Clients, size \in Sizes, p \in PhysClock : append(c, size, p)) => Opened
        /\ (\E c \in Clients, k \in DOMAIN Leader : append_replicated(c, k)) => Opened
        /\ (\E c \in Clients : flush(c) \/ send_timeout(c)) => Opened
    BY DEF append, append_replicated, flush, send_timeout, Serving
  <2>2. ~io_error /\ ~WorkerStep /\ ~process_crash /\ ~power_loss
        /\ ~\E p \in PhysClock : open_header(p)
    BY <1>4 DEF io_error, Writing, WorkerStep, recv, write_flush, reject, place, roll_seal,
       roll_create, roll_header, fsync, publish, commit, ack, process_crash, power_loss, Restart,
       open_header
  <2>3. UNCHANGED vars
    BY <1>4, <2>1, <2>2 DEF Next, Opened
  <2> QED BY <1>4, <2>3 DEF vars, worker, Running
<1> QED BY <1>2, <1>3, <1>4 DEF Opened

LEMMA NextPromised ==
  ASSUME DurableInv, [Next]_vars, DirInv', DirStep
  PROVE  PromisedDurable'
<1>1. /\ HeadInv /\ TypeInv /\ files \in Seq(File) /\ AllRecs(files) \subseteq Record
      /\ current_lsn \in Nat
  BY FilesAre, RecordPlaces DEF DurableInv, HeadInv, TypeInv, TypeOK, CountersType
<1>2. DurableRecs(files) \subseteq AllRecs(files)
  BY <1>1, DurableAreThere DEF DurableInv, DirInv
<1>3. ack \/ promised' = promised
  <2>1. /\ (\E c \in Clients, size \in Sizes, p \in PhysClock : append(c, size, p))
           => promised' = promised
        /\ (\E c \in Clients, k \in DOMAIN Leader : append_replicated(c, k))
           => promised' = promised
        /\ (\E c \in Clients : flush(c) \/ send_timeout(c)) => promised' = promised
        /\ UNCHANGED vars => promised' = promised
    BY DEF append, append_replicated, flush, send_timeout, vars, ghosts
  <2>2. WorkerStep => ack \/ promised' = promised
    BY DEF WorkerStep, recv, write_flush, reject, place, roll_seal, roll_create, roll_header,
       fsync, publish, commit, ghosts
  <2>3. open \/ io_error \/ process_crash \/ power_loss \/ (\E p \in PhysClock : open_header(p))
        => promised' = promised
    BY ZenonT(40) DEF open, io_error, process_crash, power_loss, Restart, open_header, ghosts
  <2> QED BY <2>1, <2>2, <2>3 DEF Next
<1>4. ASSUME NEW a \in promised
      PROVE  \E r \in AllRecs(files) : a = <<r.lsn, r.id>> /\ r \in DurableRecs(files')
  <2>1. PICK r \in DurableRecs(files) : a = <<r.lsn, r.id>>
    BY DEF DurableInv, PromisedDurable
  <2>2. r \in Record /\ r.lsn \in Nat /\ a[1] = r.lsn
    BY <1>1, <1>2, <2>1 DEF Record
  <2>3. ~Unpublished(r)
    <3>1. Running => a[1] < current_lsn
      BY DEF DurableInv, PromisedDurable
    <3>2. InBatch => Running
      BY DEF InBatch, Running
    <3> QED BY <1>1, <2>2, <3>1, <3>2 DEF Unpublished
  <2> QED BY <1>2, <2>1, <2>3 DEF DirStep
<1>5. ASSUME NEW a \in promised, Running' \/ pc' = "dead" PROVE a[1] < current_lsn'
  <2>1. CASE ~open
    <3>1. (Running \/ pc = "dead") /\ current_lsn' >= current_lsn
      BY <1>1, <1>5, <2>1, HeadKept
    <3>2. a[1] < current_lsn /\ a[1] \in Nat
      BY <1>1, <3>1 DEF DurableInv, PromisedDurable, TypeInv, TypeOK, GhostsType
    <3>3. current_lsn' \in Nat
      <4>1. TypeInv'
        BY <1>1, NextType
      <4> QED BY <4>1 DEF TypeInv, TypeOK, CountersType
    <3> QED BY <1>1, <3>1, <3>2, <3>3
  <2>2. CASE open
    <3>1. pc' \in {"refused", "recv", "open_header"}
      BY <2>2, Zenon DEF open
    <3>2. Running' /\ NextPlace' = current_lsn'
      BY <1>5, <3>1 DEF Running, NextPlace, InBatch
    <3>3. PICK r \in AllRecs(files) : a = <<r.lsn, r.id>>
      BY <1>4
    <3>4. r \in AllRecs(files')
      BY <3>2 DEF DirStep
    <3> QED BY <3>2, <3>3, <3>4 DEF DirInv, RecordsBelow
  <2> QED BY <2>1, <2>2
<1>6. CASE promised' = promised
  BY <1>4, <1>5, <1>6 DEF PromisedDurable
<1>7. CASE ack
  <2>1. /\ files' = files /\ current_lsn' = current_lsn
        /\ \A a \in promised' \ promised :
             (\E r \in DurableRecs(files) : a = <<r.lsn, r.id>>) /\ a[1] < current_lsn
    BY <1>7, AckDurable DEF ack
  <2>2. \A a \in promised' : \E r \in DurableRecs(files') : a = <<r.lsn, r.id>>
    BY <1>4, <2>1
  <2>3. Running' \/ pc' = "dead" => \A a \in promised' : a[1] < current_lsn'
    BY <1>5, <2>1
  <2> QED BY <2>2, <2>3 DEF PromisedDurable
<1> QED BY <1>3, <1>6, <1>7

LEMMA NextDurable ==
  ASSUME DurableInv, [Next]_vars
  PROVE  DurableInv'
<1>1. DirInv' /\ DirStep
  BY NextDir DEF DurableInv
<1>2. HeadInv' /\ CommandsSound'
  BY NextHead, NextCommands DEF DurableInv
<1> QED BY <1>1, <1>2, NextStashed, NextSynced, NextPromised DEF DurableInv

\* What was promised is never lost: an append answered under
\* FsyncPolicy::Always, and everything below the head when an answered flush
\* was asked for, is fsynced, and stays in the directory through every crash,
\* power loss, rollback, repair and roll that follows (lib.rs phases 3 and 6,
\* rollback_active_file, execute_physical_repair).
THEOREM PromisesSurvive ==
  Spec => []PromisesKept
<1>1. Init => DurableInv
  BY InitDurable
<1>2. DurableInv /\ [Next]_vars => DurableInv'
  BY NextDurable
<1>3. DurableInv => PromisesKept
  <2> SUFFICES ASSUME DurableInv, NEW a \in promised PROVE a \in Pairs(files)
    BY DEF PromisesKept
  <2>1. PICK r \in DurableRecs(files) : a = <<r.lsn, r.id>>
    BY DEF DurableInv, PromisedDurable
  <2>2. r \in AllRecs(files)
    BY DurableAreThere DEF DurableInv, HeadInv, DirInv
  <2> QED BY <2>1, <2>2 DEF Pairs
<1> QED BY <1>1, <1>2, <1>3, PTL DEF Spec
-----------------------------------------------------------------------------
(* The follower.                                                            *)

\* cmd asks for an entry of the leader's history, at its place in it.
FromLeader(cmd) ==
  cmd.op = "append" =>
    \E k \in DOMAIN Leader :
      cmd.expected = k - 1 /\ cmd.id = Leader[k].id /\ cmd.ts = Leader[k].ts

FollowInv ==
  /\ Leader # <<>> => \A cmd \in Carried : FromLeader(cmd)
  /\ FollowerMatchesLeader

LEMMA NextFollow ==
  ASSUME FollowInv, HeadInv, DirInv, CommandsSound, [Next]_vars
  PROVE  FollowInv'
<1> SUFFICES ASSUME Leader # <<>>
             PROVE  /\ \A cmd \in Carried' : FromLeader(cmd)
                    /\ \A r \in AllRecs(files') :
                         r.lsn < Len(Leader) /\ r.id = Leader[r.lsn + 1].id
                                             /\ r.ts = Leader[r.lsn + 1].ts
  BY DEF FollowInv, FollowerMatchesLeader, FromLeader
<1>1. \A cmd \in Carried' : FromLeader(cmd)
  <2>1. ASSUME NEW cmd, NewCommand(cmd) PROVE FromLeader(cmd)
    BY <2>1 DEF NewCommand, FromLeader
  <2>2. TypeInv
    BY DEF HeadInv
  <2> QED BY <2>1, <2>2, CommandsMove DEF FollowInv
<1>2. ASSUME place PROVE Placed.lsn < Len(Leader) /\ Placed.id = Leader[Placed.lsn + 1].id
                         /\ Placed.ts = Leader[Placed.lsn + 1].ts
  <2>1. Cmd.op = "append" /\ CasHolds(Cmd) /\ Cmd \in Carried
    <3>1. batch # <<>> /\ batch \in Seq(Command)
      BY <1>2 DEF place, HeadInv, TypeInv, TypeOK, WorkerShape, CallsType
    <3> QED BY <1>2, <3>1, PlaceDir, HeadElements DEF Carried, Cmd
  <2>2. PICK k \in DOMAIN Leader :
          Cmd.expected = k - 1 /\ Cmd.id = Leader[k].id /\ Cmd.ts = Leader[k].ts
    BY <2>1 DEF FollowInv, FromLeader
  <2>3. k \in Nat /\ k >= 1 /\ k <= Len(Leader) /\ Len(Leader) \in Nat
    BY LeaderAssumption, LenProperties
  <2>4. tentative_lsn = k - 1
    BY <2>1, <2>2, <2>3 DEF CasHolds, NoLsn
  <2>5. Placed.lsn = k - 1 /\ Placed.id = Leader[k].id /\ Placed.ts = Leader[k].ts
    BY <2>2, <2>4 DEF Placed
  <2>6. k - 1 < Len(Leader) /\ k - 1 + 1 = k
    BY <2>3
  <2> QED BY <2>5, <2>6
<1>3. DirStep
  BY NextDir
<1> QED BY <1>1, <1>2, <1>3 DEF DirStep, FollowInv, FollowerMatchesLeader

\* The log of a follower is its leader's, entry by entry, whatever its clients
\* apply again, apply twice or apply at once, and through every failure: an
\* entry goes to the LSN the leader gave it or is refused (the expected_lsn
\* test of lib.rs phase 2).  A directory left by an older build is the one
\* place where records may come from elsewhere.
THEOREM FollowerMatches ==
  ASSUME ~OldTail
  PROVE  Spec => []FollowerMatchesLeader
<1> DEFINE Inv == HeadInv /\ DirInv /\ CommandsSound /\ FollowInv
<1>1. Init => Inv
  <2> SUFFICES ASSUME Init PROVE FollowInv
    BY InitHead, InitDir, InitCommands
  <2>1. Carried = {}
    BY NoElements DEF Init, Carried
  <2>2. files = <<>>
    BY Zenon DEF Init
  <2>3. AllRecs(files) = {}
    BY <2>2 DEF AllRecs
  <2> QED BY <2>1, <2>3 DEF FollowInv, FollowerMatchesLeader
<1>2. Inv /\ [Next]_vars => Inv'
  BY NextHead, NextDir, NextCommands, NextFollow
<1>3. Inv => FollowerMatchesLeader
  BY DEF FollowInv
<1> QED BY <1>1, <1>2, <1>3, PTL DEF Spec

-----------------------------------------------------------------------------
(* The LSN barrier.                                                         *)

\* With FsyncPolicy::Always whatever is below the head is fsynced; after a
\* power loss all that is left is.
BarrierInv ==
  /\ Running \/ pc = "dead" =>
       \A r \in AllRecs(files) : r.lsn < committed_lsn => r \in DurableRecs(files)
  /\ pc = "closed" => AllRecs(files) \subseteq DurableRecs(files)

\* What power loss leaves is on disk.
LEMMA PowerLossDurable ==
  ASSUME TypeInv, TypeInv', DirInv, power_loss
  PROVE  AllRecs(files') \subseteq DurableRecs(files')
<1>1. PICK hs \in Seq(File), new \in NewFileImages : LostTo("power", hs, new)
  BY PowerLoss
<1>2. /\ Len(hs) \in Nat /\ DOMAIN files = 1..Len(files) /\ Len(files) \in Nat
      /\ \A i \in DOMAIN files : files[i] \in File /\ FileSound(files[i])
      /\ files' \in Seq(File) /\ DOMAIN files' = 1..Len(files')
  BY FilesAre, LenProperties DEF DirInv, FilesSound, TypeInv, TypeOK, DirectoryType
<1>3. WithCreated(files', hs)
  <2>1. files' = hs \o new
    BY <1>1 DEF LostTo
  <2> QED BY <2>1, NewImage
<1>4. ASSUME NEW m \in 1..Len(hs) PROVE hs[m].dur = Len(hs[m].recs)
  <2>1. m \in DOMAIN files
    <3>1. Len(hs) + 1 = Len(files) \/ Len(hs) = Len(files)
      BY <1>1 DEF LostTo
    <3>2. Len(hs) \in Nat /\ Len(files) \in Nat
      BY <1>2
    <3>3. m \in 1..Len(files)
      BY <3>1, <3>2
    <3> QED BY <1>2, <3>3
  <2>2. Loss("power", hs[m], m)
    BY <1>1 DEF LostTo
  <2>3. CASE hs[m] = files[m] /\ ~AtRisk(files[m])
    <3>1. files[m].dur \in Nat /\ Len(files[m].recs) \in Nat /\ files[m].dur <= Len(files[m].recs)
      BY <1>2, <2>1, FileRecs DEF FileSound
    <3> QED BY <2>3, <3>1 DEF AtRisk
  <2>4. CASE hs[m] \in SurvivingImages(files[m])
    BY <1>2, <2>1, <2>4, ImageSound
  <2> QED BY <2>2, <2>3, <2>4 DEF Loss
<1>5. ASSUME NEW m \in DOMAIN files' PROVE files'[m].dur = Len(files'[m].recs)
  <2>1. CASE m \in 1..Len(hs)
    BY <1>3, <1>4, <2>1 DEF WithCreated
  <2>2. CASE m \notin 1..Len(hs)
    <3>1. files'[m].recs = <<>> /\ FileSound(files'[m]) /\ files'[m] \in File
      BY <1>2, <1>3, <2>2, ElementOfSeq DEF WithCreated
    <3>2. files'[m].dur \in Nat /\ Len(<<>>) = 0 /\ files'[m].dur <= Len(files'[m].recs)
      BY <3>1, FileRecs DEF FileSound
    <3> QED BY <3>1, <3>2
  <2> QED BY <2>1, <2>2
<1> SUFFICES ASSUME NEW r \in AllRecs(files') PROVE r \in DurableRecs(files')
  OBVIOUS
<1>6. PICK i \in DOMAIN files' : \E j \in 1..Len(files'[i].recs) : r = files'[i].recs[j]
  BY <1>2, RecordPlaces
<1>7. \E j \in 1..files'[i].dur : r = files'[i].recs[j]
  BY <1>5, <1>6
<1> QED BY <1>2, <1>7, RecordPlaces

\* Outside commit, open and the crashes the head stays where it is.
LEMMA HeadUnmoved ==
  ASSUME [Next]_vars, ~commit, ~open, ~process_crash, ~power_loss
  PROVE  /\ committed_lsn' = committed_lsn
         /\ UNCHANGED <<files, pc>> \/ (Running /\ (Running' \/ pc' = "dead"))
<1>1. CASE \/ \E c \in Clients, size \in Sizes, p \in PhysClock : append(c, size, p)
           \/ \E c \in Clients, k \in DOMAIN Leader : append_replicated(c, k)
           \/ \E c \in Clients : flush(c) \/ send_timeout(c)
           \/ UNCHANGED vars
  BY <1>1 DEF append, append_replicated, flush, send_timeout, vars, worker
<1>2. CASE recv \/ write_flush \/ reject \/ place \/ roll_seal \/ roll_create \/ fsync
           \/ publish \/ ack
  BY <1>2 DEF recv, write_flush, reject, place, roll_seal, roll_create, fsync, publish, ack,
     Running
<1>3. CASE \E p \in PhysClock : roll_header(p) \/ open_header(p)
  BY <1>3 DEF roll_header, open_header, Running
<1>4. CASE io_error
  BY <1>4 DEF io_error, Writing, Running
<1> QED BY <1>1, <1>2, <1>3, <1>4 DEF Next, WorkerStep

LEMMA NextBarrier ==
  ASSUME Policy = "always", CrashKinds \subseteq {"power"}, DurableInv, BarrierInv,
         [Next]_vars
  PROVE  BarrierInv'
<1>1. /\ HeadInv /\ TypeInv /\ TypeInv' /\ DirInv /\ DirStep /\ files \in Seq(File)
      /\ current_lsn \in Nat /\ AllRecs(files) \subseteq Record
  BY NextType, NextDir, FilesAre, RecordPlaces DEF DurableInv, HeadInv, TypeInv, TypeOK, CountersType
<1>2. CASE commit
  <2>1. files' = files /\ pc' = "ack" /\ Running /\ current_lsn = committed_lsn
    BY <1>1, <1>2 DEF commit, Running, HeadInv, HeadIsPublished
  <2>2. CASE stash = <<>>
    BY <1>2, <2>1, <2>2 DEF commit, BarrierInv
  <2>3. CASE stash # <<>>
    <3>1. sync_required
      BY <1>2, <2>3 DEF DurableInv, Synced, Answering, InBatch, commit
    <3>2. ActiveFile.dur = Len(ActiveFile.recs)
      BY <1>2, <3>1 DEF DurableInv, Synced, commit
    <3>3. AllRecs(files) \subseteq DurableRecs(files)
      BY <1>1, <2>1, <3>2, AllDurable
    <3> QED BY <2>1, <3>3 DEF BarrierInv
  <2> QED BY <2>2, <2>3
<1>3. CASE open
  <2>1. AllRecs(files') = AllRecs(files) /\ DurableRecs(files) \subseteq DurableRecs(files')
    BY <1>1, <1>3, OpenDir
  <2>2. pc = "closed" /\ pc' \in {"refused", "recv", "open_header"}
    BY <1>3, Zenon DEF open
  <2>3. AllRecs(files) \subseteq DurableRecs(files)
    BY <2>2 DEF BarrierInv
  <2>4. AllRecs(files') \subseteq DurableRecs(files')
    BY <2>1, <2>3
  <2> QED BY <2>2, <2>4 DEF BarrierInv
<1>4. CASE power_loss
  <2>1. AllRecs(files') \subseteq DurableRecs(files')
    BY <1>1, <1>4, PowerLossDurable
  <2>2. pc' = "closed"
    BY <1>4 DEF power_loss, Restart
  <2> QED BY <2>1, <2>2 DEF BarrierInv, Running
<1>5. ~process_crash
  BY DEF process_crash, Restart
<1>6. CASE ~commit /\ ~open /\ ~power_loss
  <2>1. /\ committed_lsn' = committed_lsn
        /\ UNCHANGED <<files, pc>> \/ (Running /\ (Running' \/ pc' = "dead"))
    BY <1>5, <1>6, HeadUnmoved
  <2>2. CASE UNCHANGED <<files, pc>>
    BY <2>1, <2>2 DEF BarrierInv, Running
  <2>3. ASSUME Running, Running' \/ pc' = "dead", NEW r \in AllRecs(files'), r.lsn < committed_lsn
        PROVE  r \in DurableRecs(files')
    <3>1. committed_lsn = current_lsn
      BY <2>3 DEF HeadInv, HeadIsPublished, DurableInv, Running
    <3>2. r \in AllRecs(files)
      <4>1. ASSUME place PROVE ~(Placed.lsn < current_lsn)
        <5>1. tentative_lsn = current_lsn + Len(stash) /\ Len(stash) \in Nat
          BY <1>1, <4>1, LenProperties DEF place, HeadInv, StashDense, InBatch, TypeInv, TypeOK,
             CallsType
        <5>2. Placed.lsn = tentative_lsn
          BY DEF Placed
        <5> QED BY <1>1, <5>1, <5>2
      <4> QED BY <1>1, <2>3, <3>1, <4>1 DEF DirStep
    <3>3. r \in DurableRecs(files)
      BY <2>3, <3>2 DEF BarrierInv
    <3>4. ~Unpublished(r)
      <4>1. r.lsn \in Nat
        BY <1>1, <3>2 DEF Record
      <4> QED BY <1>1, <2>3, <3>1, <4>1 DEF Unpublished
    <3> QED BY <1>1, <3>3, <3>4 DEF DirStep
  <2>4. CASE Running /\ (Running' \/ pc' = "dead")
    <3>1. pc' # "closed"
      BY <2>4 DEF Running
    <3> QED BY <2>1, <2>3, <2>4, <3>1 DEF BarrierInv
  <2> QED BY <2>1, <2>2, <2>4
<1> QED BY <1>2, <1>3, <1>4, <1>6

\* Under FsyncPolicy::Always, and as long as it is only the machine that goes
\* down, the head never covers a record that is not fsynced, after any
\* recovery (the LSN barrier, lib.rs:15).
THEOREM BarrierHolds ==
  ASSUME Policy = "always", CrashKinds \subseteq {"power"}
  PROVE  Spec => []LsnBarrier
<1> DEFINE Inv == DurableInv /\ BarrierInv
<1>1. Init => Inv
  <2> SUFFICES ASSUME Init PROVE BarrierInv
    BY InitDurable
  <2>1. ~Running /\ pc = "closed"
    BY DEF Init, Running
  <2>2. AllRecs(files) \subseteq DurableRecs(files)
    <3>1. TypeInv /\ files \in Seq(File)
      BY InitDurable, FilesAre DEF DurableInv, HeadInv
    <3>2. \A i \in DOMAIN files : files[i].dur = Len(files[i].recs)
      <4> DEFINE r == [lsn |-> 0, ts |-> 1, id |-> 0, off |-> HeaderLen, size |-> 1]
      <4>1. OldSegment.recs = <<r>> /\ OldSegment.dur = 1
        BY DEF OldSegment, EmptyFile
      <4>2. Len(<<r>>) = 1
        OBVIOUS
      <4>3. files = <<>> \/ files = <<OldSegment>>
        BY Zenon DEF Init
      <4>4. OldSegment.dur = Len(OldSegment.recs)
        <5> HIDE DEF r
        <5> QED BY <4>1, <4>2
      <4>5. ASSUME NEW i \in DOMAIN files PROVE files[i] = OldSegment
        BY <4>3
      <4> QED BY <4>4, <4>5
    <3> SUFFICES ASSUME NEW r \in AllRecs(files) PROVE r \in DurableRecs(files)
      OBVIOUS
    <3>3. PICK i \in DOMAIN files : \E j \in 1..Len(files[i].recs) : r = files[i].recs[j]
      BY <3>1, RecordPlaces
    <3>4. \E j \in 1..files[i].dur : r = files[i].recs[j]
      BY <3>2, <3>3
    <3> QED BY <3>1, <3>4, RecordPlaces
  <2> QED BY <2>1, <2>2 DEF BarrierInv
<1>2. Inv /\ [Next]_vars => Inv'
  BY NextDurable, NextBarrier
<1>3. Inv => LsnBarrier
  <2>1. Serving => Running
    BY DEF Serving, Opened, Running
  <2> QED BY <2>1 DEF BarrierInv, LsnBarrier
<1> QED BY <1>1, <1>2, <1>3, PTL DEF Spec
-----------------------------------------------------------------------------
(* The footers.                                                             *)

\* The footer of a file, if it has one, is that of its records.
Sealed(f) ==
  f.foot # NoFooter =>
    f.foot.root = merkle_root(Leaves(f.recs)) /\ FooterOK(f, f.recs)

\* a has counted the records of f, of which n is the next.
Mirrors(a, f, n) ==
  /\ a.hashes = Leaves(f.recs)
  /\ f.recs = <<>> => a.base = n /\ a.max = n
  /\ f.recs # <<>> => a.base = f.recs[1].lsn /\ a.max = LastOf(f.recs).lsn

\* What the worker counts is what it has written.
ActiveMirrors ==
  Running /\ pc \notin {"roll_create", "roll_header"} => Mirrors(active, ActiveFile, NextPlace)

SealInv == SealedVerifies /\ ActiveMirrors

LEMMA LeavesAppend ==
  ASSUME NEW s \in Seq(Record), NEW r \in Record
  PROVE  Leaves(Append(s, r)) = Append(Leaves(s), record_leaf(r))
<1> DEFINE t == Append(s, r)
<1>1. /\ t \in Seq(Record) /\ Len(t) = Len(s) + 1 /\ t[Len(s) + 1] = r
      /\ \A i \in 1..Len(s) : t[i] = s[i]
  BY AppendProperties
<1>2. Len(s) \in Nat /\ DOMAIN s = 1..Len(s) /\ DOMAIN t = 1..(Len(s) + 1)
  BY <1>1, LenProperties
<1> HIDE DEF t
<1>3. Leaves(s) \in Seq(Leaf) /\ Leaves(t) \in Seq(Leaf)
  BY <1>1, LeavesType
<1>4. Len(Leaves(s)) = Len(s) /\ Len(Leaves(t)) = Len(s) + 1
  BY <1>2, <1>3 DEF Leaves
<1>5. \A i \in 1..(Len(s) + 1) : Leaves(t)[i] = record_leaf(t[i])
  BY <1>2 DEF Leaves
<1>6. \A i \in 1..Len(s) : Leaves(s)[i] = record_leaf(s[i])
  BY <1>2 DEF Leaves
<1>7. record_leaf(r) \in Leaf
  BY DEF Record, Leaf, record_leaf
<1> DEFINE u == Append(Leaves(s), record_leaf(r))
<1>8. /\ u \in Seq(Leaf) /\ Len(u) = Len(s) + 1 /\ u[Len(s) + 1] = record_leaf(r)
      /\ \A i \in 1..Len(s) : u[i] = Leaves(s)[i]
  BY <1>3, <1>4, <1>7, AppendProperties
<1> HIDE DEF u
<1>9. \A i \in 1..Len(Leaves(t)) : Leaves(t)[i] = u[i]
  BY <1>1, <1>2, <1>4, <1>5, <1>6, <1>8
<1>10. Leaves(t) = u
  BY <1>3, <1>4, <1>8, <1>9, SeqEqual
<1> QED BY <1>10 DEF t, u

\* A failure takes a footer away or leaves it with its records.
LEMMA LossSealed ==
  ASSUME TypeInv, NEW i \in DOMAIN files, NEW kind, NEW g, Loss(kind, g, i),
         Sealed(files[i])
  PROVE  Sealed(g)
<1> DEFINE f == files[i]
<1>1. f \in File
  BY FilesAre
<1>2. CASE g = f
  BY <1>2
<1>3. CASE g \in SurvivingImages(f)
  <2>1. CASE \E n \in f.dur..Len(f.recs), half \in BOOLEAN : g = CutAt(f, n, half)
    <3>1. g.foot = NoFooter
      BY <1>1, <2>1 DEF CutAt, File
    <3> QED BY <3>1 DEF Sealed
  <2>2. CASE g = [f EXCEPT !.dur = Len(f.recs), !.fdur = TRUE]
    <3>1. g.foot = f.foot /\ g.recs = f.recs
      BY <1>1, <2>2 DEF File
    <3> QED BY <3>1 DEF Sealed, FooterOK
  <2> QED BY <1>3, <2>1, <2>2 DEF SurvivingImages
<1>4. ASSUME NEW half \in BOOLEAN, g = [f EXCEPT !.torn = half]
      PROVE  Sealed(g)
  <2>1. g.foot = f.foot /\ g.recs = f.recs
    BY <1>1, <1>4 DEF File
  <2> QED BY <2>1 DEF Sealed, FooterOK
<1>5. CASE g = rollback_active_file(f)
  <2>1. g.foot = NoFooter
    BY <1>1, <1>5 DEF rollback_active_file, File
  <2> QED BY <2>1 DEF Sealed
<1> HIDE DEF f
<1> QED BY <1>2, <1>3, <1>4, <1>5 DEF Loss, f

LEMMA NewImageOpen ==
  ASSUME NEW hs \in Seq(File), NEW img \in NewFileImages
  PROVE  \A m \in DOMAIN (hs \o img) :
           \/ m \in 1..Len(hs) /\ (hs \o img)[m] = hs[m]
           \/ /\ m = Len(hs) + 1 /\ m = Len(hs \o img)
              /\ (hs \o img)[m] \in {EmptyFile, [EmptyFile EXCEPT !.hdr = "torn"]}
              /\ (hs \o img)[m] = EmptyFile => EmptyFileSurvives
<1> DEFINE gs == hs \o img
           torn == [EmptyFile EXCEPT !.hdr = "torn"]
<1>1. Len(hs) \in Nat /\ DOMAIN hs = 1..Len(hs)
  BY LenProperties
<1>2. EmptyFile \in File /\ torn \in File /\ torn # EmptyFile
  <2>1. EmptyFile \in File
    BY EmptySound
  <2> QED BY <2>1 DEF File, EmptyFile
<1> HIDE DEF torn
<1>3. img \in {<<>>, <<torn>>} \/ (img = <<EmptyFile>> /\ EmptyFileSurvives)
  BY Zenon DEF NewFileImages, torn
<1>4. CASE img = <<>>
  <2>1. gs = hs
    BY <1>4
  <2> QED BY <1>1, <2>1
<1>5. ASSUME NEW f \in File, img = <<f>>
      PROVE  \A m \in DOMAIN gs : \/ m \in 1..Len(hs) /\ gs[m] = hs[m]
                                  \/ m = Len(hs) + 1 /\ m = Len(gs) /\ gs[m] = f
  <2>1. gs = Append(hs, f)
    BY <1>1, <1>5
  <2>2. /\ gs \in Seq(File) /\ Len(gs) = Len(hs) + 1 /\ gs[Len(hs) + 1] = f
        /\ \A m \in 1..Len(hs) : gs[m] = hs[m]
    BY <2>1, AppendProperties
  <2>3. DOMAIN gs = 1..(Len(hs) + 1)
    BY <2>2, LenProperties
  <2> HIDE DEF gs
  <2> QED BY <1>1, <2>2, <2>3
<1>6. CASE img = <<torn>>
  <2>1. \A m \in DOMAIN gs : \/ m \in 1..Len(hs) /\ gs[m] = hs[m]
                             \/ m = Len(hs) + 1 /\ m = Len(gs) /\ gs[m] = torn
    BY <1>2, <1>5, <1>6
  <2> HIDE DEF gs
  <2>2. \A m \in DOMAIN gs : \/ m \in 1..Len(hs) /\ gs[m] = hs[m]
                             \/ /\ m = Len(hs) + 1 /\ m = Len(gs) /\ gs[m] \in {EmptyFile, torn}
                                /\ gs[m] = EmptyFile => EmptyFileSurvives
    BY <1>2, <2>1
  <2> QED BY <2>2 DEF gs, torn
<1>7. CASE img = <<EmptyFile>> /\ EmptyFileSurvives
  <2>1. \A m \in DOMAIN gs : \/ m \in 1..Len(hs) /\ gs[m] = hs[m]
                             \/ m = Len(hs) + 1 /\ m = Len(gs) /\ gs[m] = EmptyFile
    BY <1>2, <1>5, <1>7
  <2> HIDE DEF gs
  <2>2. \A m \in DOMAIN gs : \/ m \in 1..Len(hs) /\ gs[m] = hs[m]
                             \/ /\ m = Len(hs) + 1 /\ m = Len(gs) /\ gs[m] \in {EmptyFile, torn}
                                /\ gs[m] = EmptyFile => EmptyFileSurvives
    BY <1>7, <2>1
  <2> QED BY <2>2 DEF gs, torn
<1> QED BY <1>3, <1>4, <1>6, <1>7

LEMMA FailureSealed ==
  ASSUME TypeInv, DirInv, SealInv, io_error \/ process_crash \/ power_loss
  PROVE  SealInv'
<1>1. ASSUME NEW kind, NEW hs \in Seq(File), NEW new \in NewFileImages, LostTo(kind, hs, new)
      PROVE  SealedVerifies'
  <2>1. files' = hs \o new /\ Len(hs) \in Nat /\ Len(files) \in Nat /\ DOMAIN files = 1..Len(files)
    BY <1>1, FilesAre, LenProperties, ZenonT(40) DEF LostTo
  <2>2. \A m \in 1..Len(hs) : m \in DOMAIN files /\ Loss(kind, hs[m], m)
    <3>1. Len(hs) + 1 = Len(files) \/ Len(hs) = Len(files)
      BY <1>1 DEF LostTo
    <3>2. Len(hs) \in Nat /\ Len(files) \in Nat
      BY <2>1
    <3>3. \A m \in 1..Len(hs) : m \in 1..Len(files)
      BY <3>1, <3>2
    <3> QED BY <1>1, <2>1, <3>3, ZenonT(40) DEF LostTo
  <2>3. \A i \in DOMAIN files : Sealed(files[i])
    BY DEF SealInv, SealedVerifies, Sealed
  <2>4. \A m \in 1..Len(hs) : Sealed(hs[m])
    BY <2>2, <2>3, LossSealed
  <2>5. EmptyFile.foot = NoFooter /\ [EmptyFile EXCEPT !.hdr = "torn"].foot = NoFooter
    BY DEF EmptyFile
  <2>6. \A m \in DOMAIN files' : (m \in 1..Len(hs) /\ files'[m] = hs[m]) \/ files'[m].foot = NoFooter
    BY <2>1, <2>5, NewImageOpen
  <2>7. \A m \in DOMAIN files' : Sealed(files'[m])
    BY <2>4, <2>6 DEF Sealed
  <2> QED BY <2>7 DEF SealedVerifies, Sealed
<1>2. SealedVerifies'
  <2>1. CASE io_error
    <3>1. PICK hs \in Seq(File), new \in NewFileImages : LostTo("io", hs, new)
      BY <2>1, IoErrorLoss
    <3> QED BY <1>1, <3>1
  <2>2. CASE process_crash
    <3>1. PICK hs \in Seq(File), new \in NewFileImages : LostTo("process", hs, new)
      BY <2>2, ProcessCrashLoss
    <3> QED BY <1>1, <3>1
  <2>3. CASE power_loss
    <3>1. PICK hs \in Seq(File), new \in NewFileImages : LostTo("power", hs, new)
      BY <2>3, PowerLoss
    <3> QED BY <1>1, <3>1
  <2> QED BY <2>1, <2>2, <2>3
<1>3. ~Running'
  BY DEF io_error, process_crash, power_loss, Restart, Running
<1> QED BY <1>2, <1>3 DEF SealInv, ActiveMirrors

\* The footer that open writes to a segment it found without one.
LEMMA RecoverSealed ==
  ASSUME NEW f \in File, FileSound(f), Sealed(f), NEW keep \in BOOLEAN
  PROVE  Sealed(Recovered(f, keep))
<1> DEFINE scan == scan_segment_file(f)
           h == Repaired(f)
<1>1. scan.recs = f.recs /\ h \in File /\ h.recs = f.recs /\ h.foot = f.foot
  BY ScanSound, RepairSound
<1>2. Sealed(h)
  BY <1>1 DEF Sealed, FooterOK
<1>3. Sealed(seal_file(h, scan))
  <2> DEFINE foot == [count |-> Len(f.recs),
                      min |-> IF f.recs = <<>> THEN 0 ELSE f.recs[1].lsn,
                      max |-> IF f.recs = <<>> THEN 0 ELSE LastOf(f.recs).lsn,
                      root |-> merkle_root(Leaves(f.recs))]
             g == seal_file(h, scan)
  <2> HIDE DEF scan, h
  <2>1. g = [h EXCEPT !.dur = Len(h.recs), !.fdur = TRUE, !.foot = foot]
    BY <1>1 DEF seal_file
  <2> HIDE DEF g, foot
  <2>2. g.foot = foot /\ g.recs = f.recs
    BY <1>1, <2>1 DEF File
  <2> QED BY <2>2 DEF Sealed, FooterOK, foot, g
<1> QED BY <1>2, <1>3 DEF Recovered

LEMMA OpenSealed ==
  ASSUME TypeInv, TypeInv', DirInv, SealInv, open
  PROVE  SealInv'
<1>1. /\ FilesSound /\ Len(files) \in Nat /\ DOMAIN files = 1..Len(files)
      /\ \A i \in DOMAIN files : files[i] \in File /\ FileSound(files[i]) /\ Sealed(files[i])
      /\ DOMAIN files' = 1..Len(files')
  BY FilesAre, LenProperties DEF DirInv, FilesSound, TypeInv, TypeOK, DirectoryType, SealInv,
     SealedVerifies, Sealed
<1>2. CASE pc' = "refused" /\ files' = files
  BY <1>2 DEF SealInv, SealedVerifies, ActiveMirrors, Running, FooterOK
<1>3. ASSUME NEW lsn0, Reopens(lsn0) PROVE SealInv'
  <2>1. ASSUME NEW i \in DOMAIN files PROVE Sealed(files'[i]) /\ files'[i].recs = files[i].recs
    <3> DEFINE keep == i = Len(files) /\ KeepsTail
    <3>1. keep \in BOOLEAN /\ files'[i] = Recovered(files[i], keep)
      BY <1>3 DEF Reopens, KeepsTail
    <3> HIDE DEF keep
    <3> QED BY <1>1, <3>1, RecoverSealed, RecoverSound
  <2>2. NextPlace' = lsn0
    <3>1. pc' \in {"recv", "open_header"}
      BY <1>3 DEF Reopens, TailKept, TailStarted
    <3> QED BY <1>3, <3>1 DEF Reopens, NextPlace, InBatch
  <2>3. CASE TailKept(lsn0)
    <3>1. DOMAIN files' = DOMAIN files /\ Len(files) \in DOMAIN files /\ ActiveFile' = files'[Len(files)]
      BY <1>1, <2>3 DEF TailKept, KeepsTail, ActiveFile
    <3>2. files'[Len(files)].recs = LastFile.recs
      BY <2>1, <3>1 DEF LastFile
    <3>3. Mirrors(active', ActiveFile', NextPlace')
      BY <2>2, <2>3, <3>1, <3>2 DEF Mirrors, TailKept
    <3>4. SealedVerifies'
      BY <2>1, <3>1 DEF SealedVerifies, Sealed
    <3> QED BY <3>3, <3>4 DEF SealInv, ActiveMirrors
  <2>4. CASE TailStarted(lsn0)
    <3>1. Len(files') = Len(files) + 1 /\ files'[Len(files) + 1] = EmptyFile
          /\ active'.seg = Len(files) /\ active'.base = lsn0 /\ active'.max = lsn0
          /\ active'.hashes = <<>>
      BY <2>4 DEF TailStarted, new_active
    <3>2. EmptyFile.recs = <<>> /\ EmptyFile.foot = NoFooter /\ Leaves(<<>>) = <<>>
      BY DEF EmptyFile, Leaves
    <3>3. Mirrors(active', ActiveFile', NextPlace')
      BY <2>2, <3>1, <3>2 DEF Mirrors, ActiveFile
    <3>4. \A m \in DOMAIN files' : m \in DOMAIN files \/ m = Len(files) + 1
      BY <1>1, <3>1
    <3>5. \A m \in DOMAIN files' : Sealed(files'[m])
      BY <2>1, <3>1, <3>2, <3>4 DEF Sealed
    <3> QED BY <3>3, <3>5 DEF SealInv, ActiveMirrors, SealedVerifies, Sealed
  <2> QED BY <1>3, <2>3, <2>4 DEF Reopens
<1> QED BY <1>1, <1>2, <1>3, OpenFiles

\* The counts follow the record that is written.
LEMMA PlaceSealed ==
  ASSUME HeadInv, DirInv, CommandsSound, SealInv, place
  PROVE  SealInv'
<1> DEFINE k == active.seg + 1
           f == ActiveFile
           r == Placed
           g == [f EXCEPT !.recs = Append(@, r)]
<1>1. TypeInv /\ Running /\ pc \in {"write", "place"} /\ InBatch
  BY DEF HeadInv, place, Running, InBatch
<1>2. /\ files \in Seq(File) /\ k \in DOMAIN files /\ f \in File /\ f.foot = NoFooter
      /\ f.recs \in Seq(Record) /\ Len(f.recs) \in Nat
  BY <1>1, FilesAre, FileRecs DEF ActiveFile, DirInv, ActiveSound, Running
<1>3. r \in Record /\ r.lsn = tentative_lsn /\ tentative_lsn \in Nat /\ r \in AllRecs(files')
  <2>1. /\ AllRecs(files') = AllRecs(files) \cup {Placed}
        /\ Cmd \in Command /\ Cmd.op = "append"
    BY PlaceDir
  <2>2. f \in File /\ FileSound(f)
    BY <1>1, FilesAre DEF ActiveFile, DirInv, FilesSound, Running
  <2>3. PhysLen(f) \in Nat /\ tentative_lsn \in Nat
    BY <1>1, <2>2, PhysLenEnd DEF TypeInv, TypeOK, CountersType
  <2>4. r.lsn = tentative_lsn /\ r \in Record
    BY <2>1, <2>3 DEF Placed, Record, Command
  <2> QED BY <2>1, <2>3, <2>4
<1>4. Mirrors(active, f, tentative_lsn)
  BY <1>1 DEF SealInv, ActiveMirrors, NextPlace
<1>5. files' = [files EXCEPT ![k] = g]
  BY DEF place, Placed, ActiveFile
<1>6. /\ active'.seg = active.seg /\ active'.base = active.base
      /\ active'.hashes = Append(active.hashes, record_leaf(r))
      /\ active'.max = IF tentative_lsn > active.max THEN tentative_lsn ELSE active.max
  <2>1. active \in ActiveSegment
    BY <1>1 DEF TypeInv, TypeOK, WorkerType
  <2> QED BY <2>1 DEF place, ActiveSegment, Placed, ActiveFile
<1>7. g \in File /\ g.recs = Append(f.recs, r) /\ g.foot = NoFooter
  <2>1. f \in File
    BY <1>2
  <2> HIDE DEF f, r
  <2>2. Append(f.recs, r) \in Seq(Record)
    BY <1>2, <1>3, AppendProperties
  <2> QED BY <1>2, <2>1, <2>2 DEF File
<1>8. f.recs # <<>> => LastOf(f.recs).lsn < tentative_lsn /\ LastOf(f.recs).lsn \in Nat
  <2> SUFFICES ASSUME f.recs # <<>>
               PROVE  LastOf(f.recs).lsn < tentative_lsn /\ LastOf(f.recs).lsn \in Nat
    OBVIOUS
  <2>1. LastOf(f.recs) \in Record
    BY <1>2, LastType
  <2>2. Len(f.recs) \in 1..Len(f.recs)
    <3>1. Len(f.recs) # 0
      BY <1>2
    <3> QED BY <1>2, <3>1
  <2>3. LastOf(f.recs) \in AllRecs(files)
    BY <1>2, <2>2, RecordPlaces DEF LastOf, ActiveFile
  <2>4. LastOf(f.recs).lsn < NextPlace
    BY <1>1, <2>3 DEF DirInv, RecordsBelow
  <2> QED BY <1>1, <2>1, <2>4 DEF NextPlace, Record
<1>9. /\ Len(g.recs) = Len(f.recs) + 1 /\ g.recs[Len(f.recs) + 1] = r
      /\ \A j \in 1..Len(f.recs) : g.recs[j] = f.recs[j]
  BY <1>2, <1>3, <1>7, AppendProperties
<1>10. Leaves(g.recs) = Append(Leaves(f.recs), record_leaf(r))
  BY <1>2, <1>3, <1>7, LeavesAppend
<1>11. files'[k] = g /\ ActiveFile' = g /\ DOMAIN files' = DOMAIN files
       /\ \A i \in DOMAIN files : i # k => files'[i] = files[i]
  BY <1>2, <1>5, <1>6 DEF ActiveFile
<1>12. g.recs # <<>> /\ LastOf(g.recs) = r
  <2>1. Len(<<>>) = 0
    OBVIOUS
  <2> HIDE DEF g
  <2> QED BY <1>2, <1>9, <2>1 DEF LastOf
<1> HIDE DEF f, g, r
<1>13. active'.base = g.recs[1].lsn /\ active'.max = tentative_lsn
  <2>1. CASE f.recs = <<>>
    <3>1. Len(f.recs) = 0
      BY <2>1
    <3>2. g.recs[1] = r
      BY <1>9, <3>1
    <3> QED BY <1>3, <1>4, <1>6, <2>1, <3>2 DEF Mirrors
  <2>2. CASE f.recs # <<>>
    <3>1. Len(f.recs) # 0
      BY <1>2, <2>2
    <3>2. g.recs[1] = f.recs[1]
      BY <1>2, <1>9, <3>1
    <3>3. active.max = LastOf(f.recs).lsn /\ active.base = f.recs[1].lsn
      BY <1>4, <2>2 DEF Mirrors
    <3> QED BY <1>3, <1>6, <1>8, <2>2, <3>2, <3>3
  <2> QED BY <2>1, <2>2
<1>14. Mirrors(active', g, tentative_lsn + 1)
  BY <1>3, <1>4, <1>6, <1>10, <1>12, <1>13 DEF Mirrors
<1>15. NextPlace' = tentative_lsn + 1
  BY DEF place, NextPlace, InBatch
<1>16. SealedVerifies'
  BY <1>7, <1>11 DEF SealInv, SealedVerifies, Sealed, FooterOK
<1> QED BY <1>11, <1>14, <1>15, <1>16 DEF SealInv, ActiveMirrors

\* The files that the other phases write.
LEMMA FsyncFiles ==
  ASSUME TypeInv, fsync
  PROVE  /\ Running /\ Running' /\ DOMAIN files' = DOMAIN files /\ Len(files') = Len(files)
         /\ UNCHANGED active /\ NextPlace' = NextPlace /\ pc' = "publish" /\ pc = "write"
         /\ \A i \in DOMAIN files :
              /\ files'[i].recs = files[i].recs /\ files'[i].foot = files[i].foot
              /\ files'[i].hdr = files[i].hdr /\ files'[i].torn = files[i].torn
              /\ i # active.seg + 1 => files'[i] = files[i]
<1> DEFINE f == files[active.seg + 1]
<1>1. Running /\ Running' /\ NextPlace' = NextPlace
  BY DEF fsync, Running, NextPlace, InBatch
<1>2. files \in Seq(File) /\ f \in File /\ active.seg + 1 \in DOMAIN files
  BY <1>1, FilesAre DEF Running
<1>3. CASE files' = files
  BY <1>1, <1>3 DEF fsync
<1>4. CASE files' = [files EXCEPT ![active.seg + 1].dur = Len(f.recs)]
  <2> DEFINE n == Len(f.recs)
             g == [f EXCEPT !.dur = n]
  <2>1. files' = [files EXCEPT ![active.seg + 1] = g]
    BY <1>4
  <2> HIDE DEF f, n
  <2>2. g.recs = f.recs /\ g.foot = f.foot /\ g.hdr = f.hdr /\ g.torn = f.torn
    BY <1>2 DEF File
  <2> HIDE DEF g
  <2>3. \A i \in DOMAIN files : i # active.seg + 1 => files'[i] = files[i]
    BY <1>2, <2>1
  <2>4. files'[active.seg + 1] = g
    BY <1>2, <2>1
  <2>5. DOMAIN files' = DOMAIN files /\ Len(files') = Len(files)
    BY <2>1
  <2>6. UNCHANGED active /\ pc' = "publish" /\ pc = "write"
    BY DEF fsync
  <2> QED BY <1>1, <2>2, <2>3, <2>4, <2>5, <2>6 DEF f
<1> QED BY <1>3, <1>4 DEF fsync

LEMMA RollSealFiles ==
  ASSUME TypeInv, roll_seal
  PROVE  LET k == active.seg + 1
             foot == [count |-> Len(active.hashes), min |-> active.base, max |-> active.max,
                      root |-> merkle_root(active.hashes)]
         IN  /\ Running /\ Running' /\ DOMAIN files' = DOMAIN files /\ Len(files') = Len(files)
             /\ pc' = "roll_create" /\ pc = "write" /\ k \in DOMAIN files /\ UNCHANGED active
             /\ NextPlace' = NextPlace
             /\ files'[k].recs = files[k].recs /\ files'[k].hdr = files[k].hdr
             /\ files'[k].torn = files[k].torn /\ files'[k].foot = foot
             /\ \A i \in DOMAIN files : i # k => files'[i] = files[i]
<1> DEFINE k == active.seg + 1
           f == files[k]
           n == Len(f.recs)
           foot == [count |-> Len(active.hashes), min |-> active.base, max |-> active.max,
                    root |-> merkle_root(active.hashes)]
           g == [f EXCEPT !.dur = n, !.foot = foot]
<1>1. Running /\ Running' /\ pc' = "roll_create" /\ pc = "write" /\ UNCHANGED active
      /\ NextPlace' = NextPlace
  BY DEF roll_seal, Running, NextPlace, InBatch
<1>2. files \in Seq(File) /\ f \in File /\ k \in DOMAIN files
  BY <1>1, FilesAre DEF Running
<1>3. files' = [files EXCEPT ![k] = g]
  BY DEF roll_seal
<1> HIDE DEF f, n, foot, k
<1>4. g.recs = f.recs /\ g.foot = foot /\ g.hdr = f.hdr /\ g.torn = f.torn
  BY <1>2 DEF File
<1> HIDE DEF g
<1>5. /\ files'[k] = g /\ \A i \in DOMAIN files : i # k => files'[i] = files[i]
      /\ DOMAIN files' = DOMAIN files /\ Len(files') = Len(files)
  BY <1>2, <1>3
<1> QED BY <1>1, <1>2, <1>4, <1>5 DEF f, k, foot

LEMMA RollCreateFiles ==
  ASSUME TypeInv, roll_create
  PROVE  LET k == active.seg + 1
             n == Len(files)
         IN  /\ Running /\ Running' /\ Len(files') = n + 1 /\ files'[n + 1] = EmptyFile
             /\ pc = "roll_create" /\ pc' = "roll_header" /\ k = n /\ UNCHANGED active
             /\ files'[k].recs = files[k].recs /\ files'[k].hdr = files[k].hdr
             /\ files'[k].torn = files[k].torn /\ files'[k].foot = files[k].foot
             /\ files'[k].fdur = TRUE /\ files'[k].dur = files[k].dur
             /\ \A i \in DOMAIN files : i # k => files'[i] = files[i]
             /\ DOMAIN files = 1..n /\ n \in Nat /\ DOMAIN files' = 1..(n + 1)
             /\ k \in DOMAIN files
<1> DEFINE k == active.seg + 1
           f == files[k]
           g == [f EXCEPT !.fdur = TRUE]
           gs == [files EXCEPT ![k] = g]
           n == Len(files)
<1>1. Running /\ Running' /\ pc = "roll_create" /\ pc' = "roll_header" /\ UNCHANGED active
  BY DEF roll_create, Running
<1>2. /\ files \in Seq(File) /\ f \in File /\ k \in DOMAIN files /\ DOMAIN files = 1..n
      /\ n \in Nat
  BY <1>1, FilesAre DEF Running
<1>3. k = n
  BY <1>1 DEF TypeInv, ActiveIsLast
<1>4. files' = Append(gs, EmptyFile)
  BY DEF roll_create
<1> HIDE DEF f, k
<1>5. /\ g \in File /\ g.recs = f.recs /\ g.foot = f.foot /\ g.hdr = f.hdr /\ g.torn = f.torn
      /\ g.fdur = TRUE /\ g.dur = f.dur
  BY <1>2 DEF File
<1> HIDE DEF g
<1>6. gs \in Seq(File) /\ Len(gs) = n /\ gs[k] = g /\ \A i \in DOMAIN files : i # k => gs[i] = files[i]
  <2>1. g \in File /\ k \in DOMAIN files /\ files \in Seq(File)
    BY <1>2, <1>5
  <2>2. gs \in Seq(File) /\ Len(gs) = n
    BY <2>1, ReplaceFile
  <2> QED BY <2>1, <2>2
<1> HIDE DEF gs
<1>7. EmptyFile \in File
  BY EmptySound
<1>8. /\ Len(files') = n + 1 /\ files'[n + 1] = EmptyFile /\ files' \in Seq(File)
      /\ \A i \in 1..n : files'[i] = gs[i]
  BY <1>4, <1>6, <1>7, AppendProperties
<1>9. DOMAIN files' = 1..(n + 1)
  BY <1>8, LenProperties
<1>10. files'[k] = g /\ \A i \in DOMAIN files : i # k => files'[i] = files[i]
  BY <1>2, <1>6, <1>8
<1> HIDE DEF n
<1> QED BY <1>1, <1>2, <1>3, <1>5, <1>8, <1>9, <1>10 DEF f, k, n

LEMMA HeaderFiles ==
  ASSUME TypeInv, NEW p \in PhysClock, roll_header(p) \/ open_header(p)
  PROVE  LET n == Len(files)
         IN  /\ Running /\ Running' /\ Creating /\ ~Creating' /\ NextPlace' = NextPlace
             /\ DOMAIN files' = DOMAIN files /\ Len(files') = n /\ n \in DOMAIN files
             /\ files'[n].recs = files[n].recs /\ files'[n].hdr = "ok"
             /\ files'[n].torn = files[n].torn /\ files'[n].foot = files[n].foot
             /\ \A i \in DOMAIN files : i # n => files'[i] = files[i]
<1> DEFINE n == Len(files)
           f == files[n]
           g == [f EXCEPT !.hdr = "ok"]
<1>1. Running /\ Running' /\ Creating /\ ~Creating' /\ NextPlace' = NextPlace
  BY DEF roll_header, open_header, Running, NextPlace, InBatch, Creating
<1>2. /\ files \in Seq(File) /\ n \in Nat /\ DOMAIN files = 1..n /\ active.seg \in Nat
      /\ active.seg + 1 \in DOMAIN files
  BY <1>1, FilesAre DEF Running
<1>3. n \in DOMAIN files /\ f \in File
  <2>1. n \in DOMAIN files
    BY <1>2
  <2> QED BY <2>1, FilesAre
<1>4. files' = [files EXCEPT ![n] = g]
  <2>1. CASE roll_header(p)
    <3>1. active.seg + 2 = n
      BY <1>1, <2>1 DEF roll_header, TypeInv, TypeOK, WorkerShape
    <3>2. active.seg + 1 + 1 = n
      BY <1>2, <3>1
    <3> QED BY <2>1, <3>2 DEF roll_header
  <2>2. CASE open_header(p)
    BY <2>2 DEF open_header
  <2> QED BY <2>1, <2>2
<1> HIDE DEF f, n
<1>5. g.recs = f.recs /\ g.foot = f.foot /\ g.hdr = "ok" /\ g.torn = f.torn
  BY <1>3 DEF File
<1> HIDE DEF g
<1>6. /\ files'[n] = g /\ \A i \in DOMAIN files : i # n => files'[i] = files[i]
      /\ DOMAIN files' = DOMAIN files /\ Len(files') = Len(files)
  BY <1>3, <1>4
<1> QED BY <1>1, <1>3, <1>5, <1>6 DEF f, n

\* The footer a roll writes, and the counts the next segment starts with.
LEMMA RollSealed ==
  ASSUME TypeInv, DirInv, SealInv, roll_seal
  PROVE  SealInv'
<1> DEFINE k == active.seg + 1
           f == files[k]
<1>1. /\ pc' = "roll_create" /\ DOMAIN files' = DOMAIN files /\ k \in DOMAIN files
      /\ Running /\ pc = "write" /\ files'[k].recs = f.recs
      /\ \A i \in DOMAIN files : i # k => files'[i] = files[i]
  BY RollSealFiles
<1>2. /\ files'[k].foot.count = Len(active.hashes) /\ files'[k].foot.min = active.base
      /\ files'[k].foot.max = active.max /\ files'[k].foot.root = merkle_root(active.hashes)
  BY RollSealFiles
<1>3. Mirrors(active, f, NextPlace)
  BY <1>1 DEF SealInv, ActiveMirrors, ActiveFile
<1>4. f \in File
  BY <1>1, FilesAre
<1> HIDE DEF f, k
<1>5. Len(Leaves(f.recs)) = Len(f.recs)
  <2>1. f.recs \in Seq(Record)
    BY <1>4, FileRecs
  <2>2. Leaves(f.recs) \in Seq(Leaf) /\ DOMAIN Leaves(f.recs) = DOMAIN f.recs
    BY <2>1, LeavesType DEF Leaves
  <2> QED BY <2>1, <2>2, LenProperties
<1>6. Sealed(files'[k])
  BY <1>1, <1>2, <1>3, <1>5 DEF Sealed, FooterOK, Mirrors
<1>7. \A i \in DOMAIN files' : Sealed(files'[i])
  BY <1>1, <1>6 DEF SealInv, SealedVerifies, Sealed
<1> QED BY <1>1, <1>7 DEF SealInv, SealedVerifies, ActiveMirrors, Sealed

LEMMA NextSealed ==
  ASSUME HeadInv, DirInv, CommandsSound, SealInv, [Next]_vars
  PROVE  SealInv'
<1>1. TypeInv /\ TypeInv'
  BY NextType DEF HeadInv
<1>2. CASE place
  BY <1>2, PlaceSealed
<1>3. CASE roll_seal
  BY <1>1, <1>3, RollSealed
<1>4. CASE roll_create
  <2>1. /\ pc' = "roll_header" /\ files'[Len(files) + 1] = EmptyFile
        /\ \A i \in DOMAIN files : files'[i].recs = files[i].recs /\ files'[i].foot = files[i].foot
        /\ \A i \in DOMAIN files' : i \in DOMAIN files \/ i = Len(files) + 1
    BY <1>1, <1>4, RollCreateFiles
  <2>2. EmptyFile.foot = NoFooter
    BY DEF EmptyFile
  <2>3. \A i \in DOMAIN files' : Sealed(files'[i])
    BY <2>1, <2>2 DEF SealInv, SealedVerifies, Sealed, FooterOK
  <2> QED BY <2>1, <2>3 DEF SealInv, SealedVerifies, ActiveMirrors, Sealed
<1>5. ASSUME NEW p \in PhysClock, roll_header(p) \/ open_header(p) PROVE SealInv'
  <2> DEFINE n == Len(files)
  <2>1. /\ NextPlace' = NextPlace /\ DOMAIN files' = DOMAIN files /\ n \in DOMAIN files
        /\ Creating /\ Running
        /\ \A i \in DOMAIN files : files'[i].recs = files[i].recs /\ files'[i].foot = files[i].foot
    BY <1>1, <1>5, HeaderFiles
  <2>2. SealedVerifies'
    BY <2>1 DEF SealInv, SealedVerifies, FooterOK
  <2>3. ActiveMirrors'
    <3>1. CASE roll_header(p)
      <4>1. active.seg + 2 = n /\ active.seg \in Nat
        BY <1>1, <3>1, FilesAre DEF roll_header, TypeInv, TypeOK, WorkerShape
      <4>2. /\ active'.seg = active.seg + 1 /\ active'.hashes = <<>>
            /\ active'.base = tentative_lsn /\ active'.max = tentative_lsn
            /\ NextPlace = tentative_lsn
        BY <3>1 DEF roll_header, new_active, NextPlace, InBatch
      <4>3. active'.seg + 1 = n
        BY <4>1, <4>2
      <4>4. ActiveFile'.recs = <<>> /\ Leaves(<<>>) = <<>>
        BY <2>1, <4>3 DEF DirInv, CreatedEmpty, ActiveFile, Leaves
      <4> QED BY <2>1, <4>2, <4>4 DEF ActiveMirrors, Mirrors
    <3>2. CASE open_header(p)
      <4>1. active' = active /\ active.seg + 1 = n /\ pc = "open_header"
        BY <1>1, <3>2 DEF open_header, TypeInv, ActiveIsLast
      <4>2. Mirrors(active, ActiveFile, NextPlace)
        BY <2>1, <4>1 DEF SealInv, ActiveMirrors
      <4>3. ActiveFile'.recs = ActiveFile.recs
        BY <2>1, <4>1 DEF ActiveFile
      <4> QED BY <2>1, <4>1, <4>2, <4>3 DEF ActiveMirrors, Mirrors
    <3> QED BY <1>5, <3>1, <3>2
  <2> QED BY <2>2, <2>3 DEF SealInv
<1>6. CASE fsync
  <2>1. /\ Running /\ pc = "write" /\ DOMAIN files' = DOMAIN files /\ UNCHANGED active
        /\ NextPlace' = NextPlace /\ active.seg + 1 \in DOMAIN files
        /\ \A i \in DOMAIN files : files'[i].recs = files[i].recs /\ files'[i].foot = files[i].foot
    <3>1. Running
      BY <1>1, <1>6, FsyncFiles
    <3> QED BY <1>1, <1>6, <3>1, FsyncFiles, FilesAre DEF Running
  <2>2. SealedVerifies'
    BY <2>1 DEF SealInv, SealedVerifies, FooterOK
  <2>3. ActiveFile'.recs = ActiveFile.recs
    BY <2>1 DEF ActiveFile
  <2>4. Mirrors(active, ActiveFile, NextPlace)
    BY <2>1 DEF SealInv, ActiveMirrors
  <2> QED BY <2>1, <2>2, <2>3, <2>4 DEF SealInv, ActiveMirrors, Mirrors
<1>7. CASE open
  BY <1>1, <1>7, OpenSealed
<1>8. CASE io_error \/ process_crash \/ power_loss
  BY <1>1, <1>8, FailureSealed
<1>9. CASE recv \/ write_flush \/ reject \/ publish \/ commit \/ ack
  <2>1. /\ UNCHANGED <<files, active>> /\ Running /\ pc \notin {"roll_create", "roll_header"}
    BY <1>9 DEF recv, write_flush, reject, publish, commit, ack, Running
  <2>2. NextPlace' = NextPlace
    BY <1>9, NextPlaceKept
  <2>3. SealedVerifies'
    BY <2>1 DEF SealInv, SealedVerifies, FooterOK
  <2> QED BY <2>1, <2>2, <2>3 DEF SealInv, ActiveMirrors, ActiveFile
<1>10. CASE UNCHANGED <<worker, files>>
  BY <1>10 DEF worker, SealInv, SealedVerifies, FooterOK, ActiveMirrors, ActiveFile, NextPlace,
     InBatch, Running
<1>11. \/ \E c \in Clients, size \in Sizes, p \in PhysClock : append(c, size, p)
       \/ \E c \in Clients, k \in DOMAIN Leader : append_replicated(c, k)
       \/ \E c \in Clients : flush(c) \/ send_timeout(c)
       \/ UNCHANGED vars
       => UNCHANGED <<worker, files>>
  BY DEF append, append_replicated, flush, send_timeout, vars
<1> QED BY <1>2, <1>3, <1>4, <1>5, <1>6, <1>7, <1>8, <1>9, <1>10, <1>11 DEF Next, WorkerStep

LEMMA InitSealed == Init => SealInv
<1> SUFFICES ASSUME Init PROVE SealInv
  OBVIOUS
<1>1. ~Running
  BY DEF Init, Running
<1>2. OldSegment.foot = NoFooter
  BY DEF OldSegment, EmptyFile
<1>3. files = <<>> \/ files = <<OldSegment>>
  BY Zenon DEF Init
<1>4. ASSUME NEW i \in DOMAIN files PROVE files[i] = OldSegment
  BY <1>3
<1> QED BY <1>1, <1>2, <1>4 DEF SealInv, SealedVerifies, ActiveMirrors

\* verify_segment finds nothing to object to in any sealed segment, in
\* whatever state a roll, a failure or a recovery leaves the directory.
THEOREM EverySealVerifies == Spec => []SealedVerifies
<1> DEFINE Inv == DurableInv /\ SealInv
<1>1. Init => Inv
  BY InitDurable, InitSealed
<1>2. Inv /\ [Next]_vars => Inv'
  BY NextDurable, NextSealed DEF DurableInv
<1>3. Inv => SealedVerifies
  BY DEF SealInv
<1> QED BY <1>1, <1>2, <1>3, PTL DEF Spec
-----------------------------------------------------------------------------
(* The next open.                                                           *)

\* Nothing more can happen to a file that is not the last.
Settled(f) == ~f.torn /\ ("power" \in CrashKinds => ~AtRisk(f))

\* Without a whole header a file has nothing in it, and what is torn is not
\* followed by a footer.
Bare(f) ==
  /\ f.hdr # "ok" => f.recs = <<>> /\ f.foot = NoFooter /\ ~f.torn
  /\ f.torn => f.foot = NoFooter

\* A header that is not written is being written; one that was cut short, and
\* a half-written item, are left by a failure.
HeaderThere(f) ==
  /\ f.hdr = "none" => Creating
  /\ f.hdr = "torn" \/ f.torn => ~Running

\* The footers a machine finds when it comes back are fsynced.
FooterDurable(f) ==
  pc = "closed" /\ "power" \in CrashKinds /\ f.foot # NoFooter => f.fdur

Tidy(f) == Bare(f) /\ HeaderThere(f) /\ FooterDurable(f)

TidyInv ==
  /\ \A i \in DOMAIN files : Tidy(files[i])
  /\ \A i \in DOMAIN files : i < Len(files) => files[i].hdr = "ok" /\ Settled(files[i])
  /\ pc # "refused"

\* While there is a worker and no file is being created, every file has its
\* header and ends with a whole item.
LEMMA RunningTidy ==
  ASSUME TypeInv, TidyInv, Running
  PROVE  \A i \in DOMAIN files :
           ~files[i].torn /\ (files[i].hdr = "ok" \/ (i = Len(files) /\ Creating))
<1> SUFFICES ASSUME NEW i \in DOMAIN files
             PROVE  ~files[i].torn /\ (files[i].hdr = "ok" \/ (i = Len(files) /\ Creating))
  OBVIOUS
<1>1. files[i].hdr \in {"none", "torn", "ok"} /\ i \in 1..Len(files) /\ Len(files) \in Nat
  BY FilesAre DEF File
<1> QED BY <1>1 DEF TidyInv, Tidy, HeaderThere

\* A file that is not the last is what it was after any failure, but for what
\* is rolled back of the active one when the next could not be started.
LEMMA SettledLoss ==
  ASSUME TypeInv, DirInv, TidyInv, NEW i \in DOMAIN files, i < Len(files),
         NEW kind, NEW g, Loss(kind, g, i), kind = "power" => "power" \in CrashKinds,
         kind = "io" => Running /\ InBatch
  PROVE  g.hdr = "ok" /\ Settled(g) /\ Tidy(g)'
<1> DEFINE f == files[i]
<1>1. /\ f \in File /\ f.hdr = "ok" /\ ~f.torn /\ Settled(f) /\ Bare(f) /\ FileSound(f)
      /\ Len(f.recs) \in Nat /\ f.dur \in Nat /\ f.dur <= Len(f.recs)
  BY FilesAre, FileRecs DEF TidyInv, Tidy, Settled, DirInv, FilesSound, FileSound
<1>2. "power" \in CrashKinds => f.foot = NoFooter \/ f.fdur
  BY <1>1 DEF Settled, AtRisk
<1>3. CASE g = f
  BY <1>1, <1>2, <1>3 DEF Tidy, Bare, HeaderThere, FooterDurable
<1>4. ASSUME NEW half \in BOOLEAN, half => Writing, i = active.seg + 1,
             g = [f EXCEPT !.torn = half]
      PROVE  g.hdr = "ok" /\ Settled(g) /\ Tidy(g)'
  <2>1. ~Writing
    BY <1>4, FilesAre DEF TypeInv, ActiveIsLast, Writing
  <2>2. g = f
    <3>1. half = FALSE /\ f.torn = FALSE
      BY <1>1, <1>4, <2>1 DEF File
    <3> HIDE DEF f
    <3> QED BY <1>1, <1>4, <3>1 DEF File
  <2> QED BY <1>3, <2>2
<1>5. CASE kind = "io" /\ i = active.seg + 1 /\ g = rollback_active_file(f)
  <2>1. pc = "roll_header" /\ Running /\ InBatch
    BY <1>5 DEF TypeInv, ActiveIsLast, Running, InBatch
  <2>2. f.dur = Len(f.recs)
    BY <1>5, <2>1 DEF DirInv, ActiveSound, ActiveFile
  <2>3. /\ g \in File /\ FileSound(g) /\ Shorter(g, f) /\ g.foot = NoFooter
        /\ g.dur = (IF Len(g.recs) < f.dur THEN Len(g.recs) ELSE f.dur)
    BY <1>1, <1>5, RollbackSound, FilesAre
  <2>4. g.hdr = f.hdr /\ g.torn = FALSE
    BY <1>1, <1>5 DEF rollback_active_file, File
  <2>5. Len(g.recs) \in Nat /\ Len(g.recs) <= Len(f.recs) /\ g.dur = Len(g.recs)
    <3>1. Len(g.recs) \in Nat /\ Len(g.recs) <= Len(f.recs)
      BY <2>3, FileRecs DEF Shorter
    <3> QED BY <1>1, <2>2, <2>3, <3>1
  <2> HIDE DEF f
  <2> QED BY <1>1, <2>3, <2>4, <2>5 DEF Settled, AtRisk, Tidy, Bare, HeaderThere, FooterDurable
<1>6. CASE kind = "power" /\ AtRisk(f)
  BY <1>1, <1>6 DEF Settled
<1> QED BY <1>3, <1>4, <1>5, <1>6 DEF Loss

\* What a failure makes of the last file.
LEMMA TidyLoss ==
  ASSUME TypeInv, DirInv, TidyInv, NEW i \in DOMAIN files,
         NEW kind, NEW g, Loss(kind, g, i), kind = "io" => Running /\ InBatch /\ pc' = "dead",
         pc \notin {"closed", "refused"}, ~Creating, ~Running', pc' = "closed" => kind # "io",
         "power" \in CrashKinds /\ pc' = "closed" => kind = "power"
  PROVE  Tidy(g)'
<1> DEFINE f == files[i]
<1>1. f \in File /\ Bare(f) /\ f.hdr # "none" /\ FileSound(f)
  BY FilesAre DEF TidyInv, Tidy, HeaderThere, DirInv, FilesSound
<1>2. CASE g = f /\ (kind = "power" => ~AtRisk(f))
  <2>1. FooterDurable(g)'
    BY <1>2 DEF FooterDurable, AtRisk
  <2> QED BY <1>1, <1>2, <2>1 DEF Tidy, Bare, HeaderThere
<1>3. CASE kind = "power" /\ g \in SurvivingImages(f)
  <2>1. ASSUME NEW n \in f.dur..Len(f.recs), NEW half \in BOOLEAN, g = CutAt(f, n, half),
               g.torn => f.torn \/ Len(g.recs) < Len(f.recs) \/ f.foot # NoFooter
        PROVE  Tidy(g)'
    <3>1. g.foot = NoFooter /\ g.hdr = f.hdr /\ g.recs = SubSeq(f.recs, 1, n)
      BY <1>1, <2>1 DEF CutAt, File
    <3>2. g.hdr # "ok" => g.recs = <<>> /\ ~g.torn
      <4> SUFFICES ASSUME g.hdr # "ok" PROVE g.recs = <<>> /\ ~g.torn
        OBVIOUS
      <4>1. f.recs = <<>> /\ f.foot = NoFooter /\ ~f.torn /\ Len(f.recs) = 0
        BY <1>1, <3>1 DEF Bare
      <4>2. f.dur = 0
        BY <1>1, <4>1 DEF FileSound, File
      <4>3. n = 0
        BY <4>1, <4>2
      <4>4. g.recs = <<>>
        BY <3>1, <4>1, <4>3
      <4> QED BY <2>1, <4>1, <4>4
    <3> QED BY <1>1, <3>1, <3>2 DEF Tidy, Bare, HeaderThere, FooterDurable
  <2>2. CASE g = [f EXCEPT !.dur = Len(f.recs), !.fdur = TRUE]
    <3>1. g.foot = f.foot /\ g.recs = f.recs /\ g.hdr = f.hdr /\ g.torn = f.torn /\ g.fdur = TRUE
      BY <1>1, <2>2 DEF File
    <3> QED BY <1>1, <3>1 DEF Tidy, Bare, HeaderThere, FooterDurable
  <2> HIDE DEF f
  <2> QED BY <1>3, <2>1, <2>2 DEF SurvivingImages
<1>4. ASSUME NEW half \in BOOLEAN, half => Writing, i = active.seg + 1, kind # "power",
             g = [f EXCEPT !.torn = half]
      PROVE  Tidy(g)'
  <2>1. g.foot = f.foot /\ g.recs = f.recs /\ g.hdr = f.hdr /\ g.torn = half
    BY <1>1, <1>4 DEF File
  <2>2. half => f.foot = NoFooter /\ f.hdr = "ok"
    <3> SUFFICES ASSUME half PROVE f.foot = NoFooter /\ f.hdr = "ok"
      OBVIOUS
    <3>1. Running /\ pc \notin {"roll_create", "roll_header"}
      BY <1>4 DEF Writing, Running
    <3>2. f.foot = NoFooter
      BY <1>4, <3>1 DEF DirInv, ActiveSound, ActiveFile
    <3>3. f.hdr = "ok"
      BY <3>1, RunningTidy
    <3> QED BY <3>2, <3>3
  <2>3. FooterDurable(g)'
    BY <1>4 DEF FooterDurable
  <2> HIDE DEF f
  <2> QED BY <1>1, <2>1, <2>2, <2>3 DEF Tidy, Bare, HeaderThere
<1>5. CASE kind = "io" /\ i = active.seg + 1 /\ g = rollback_active_file(f)
  <2>1. g.hdr = f.hdr /\ g.torn = FALSE /\ g.foot = NoFooter
    BY <1>1, <1>5 DEF rollback_active_file, File
  <2>2. f.hdr = "ok"
    BY <1>5, RunningTidy
  <2> HIDE DEF f
  <2> QED BY <1>1, <2>1, <2>2 DEF Tidy, Bare, HeaderThere, FooterDurable
<1> QED BY <1>2, <1>3, <1>4, <1>5, Zenon DEF Loss

LEMMA LostTidy ==
  ASSUME TypeInv, DirInv, TidyInv, ~EmptyFileSurvives,
         NEW kind, NEW hs \in Seq(File), NEW new \in NewFileImages, LostTo(kind, hs, new),
         kind = "power" => "power" \in CrashKinds,
         kind = "io" => Running /\ InBatch /\ pc' = "dead",
         pc \notin {"closed", "refused"}, ~Running', pc' # "refused",
         "power" \in CrashKinds /\ pc' = "closed" => kind = "power",
         pc' = "closed" => kind # "io"
  PROVE  TidyInv'
<1>1. /\ files' = hs \o new /\ Len(hs) \in Nat /\ Len(files) \in Nat /\ DOMAIN files = 1..Len(files)
      /\ ~Creating => new = <<>>
      /\ \A m \in 1..Len(hs) : Loss(kind, hs[m], m)
  BY FilesAre, LenProperties, ZenonT(40) DEF LostTo
<1>2. IF Creating THEN Len(hs) + 1 = Len(files) ELSE Len(hs) = Len(files)
  BY DEF LostTo
<1>3. ~Creating => Len(files') = Len(files)
  <2>1. ~Creating => files' = hs
    BY <1>1
  <2> QED BY <1>2, <2>1
<1>4. \A m \in 1..Len(hs) : m \in DOMAIN files /\ (Creating => m < Len(files))
  <2>1. \A m \in 1..Len(hs) : m \in 1..Len(files) /\ (Creating => m < Len(files))
    <3>1. CASE Creating
      <4>1. Len(hs) + 1 = Len(files) /\ Len(hs) \in Nat
        BY <1>1, <1>2, <3>1, ZenonT(40)
      <4> QED BY <4>1
    <3>2. CASE ~Creating
      <4>1. Len(hs) = Len(files)
        BY <1>2, <3>2
      <4> QED BY <3>2, <4>1
    <3> QED BY <3>1, <3>2
  <2> QED BY <1>1, <2>1
<1>5. ASSUME NEW m \in DOMAIN files', NEW g, g = files'[m]
      PROVE  Tidy(g)' /\ (m < Len(files') => g.hdr = "ok" /\ Settled(g))
  <2>1. CASE m \in 1..Len(hs) /\ g = hs[m]
    <3>1. m \in DOMAIN files /\ Loss(kind, g, m) /\ Len(files) \in Nat /\ m \in 1..Len(files)
      BY <1>1, <1>4, <2>1
    <3>2. CASE m < Len(files)
      <4>1. kind = "io" => Running /\ InBatch
        OBVIOUS
      <4> QED BY <3>1, <3>2, <4>1, SettledLoss
    <3>3. CASE ~(m < Len(files))
      <4>1. ~Creating
        BY <1>4, <2>1, <3>3
      <4>2. ~(m < Len(files'))
        BY <1>3, <3>3, <4>1
      <4>3. Tidy(g)'
        BY <3>1, <4>1, TidyLoss
      <4> QED BY <4>2, <4>3
    <3> QED BY <3>2, <3>3
  <2>2. CASE m = Len(files') /\ g = [EmptyFile EXCEPT !.hdr = "torn"]
    <3>1. g.hdr = "torn" /\ g.recs = <<>> /\ g.foot = NoFooter /\ g.torn = FALSE
      BY <2>2 DEF EmptyFile
    <3>2. Tidy(g)'
      BY <3>1 DEF Tidy, Bare, HeaderThere, FooterDurable
    <3>3. m \in Nat
      <4>1. Len(hs \o new) \in Nat
        <5>1. hs \o new \in Seq(File)
          BY NewImage
        <5> QED BY <5>1, LenProperties
      <4> QED BY <1>1, <2>2, <4>1
    <3> QED BY <2>2, <3>2, <3>3
  <2>3. \/ m \in 1..Len(hs) /\ g = hs[m]
        \/ m = Len(files') /\ g = [EmptyFile EXCEPT !.hdr = "torn"]
    BY <1>1, <1>5, NewImageOpen
  <2> QED BY <2>1, <2>2, <2>3
<1>6. ASSUME NEW m \in DOMAIN files'
      PROVE  Tidy(files[m])' /\ (m < Len(files') => files'[m].hdr = "ok" /\ Settled(files'[m]))
  <2>1. PICK g : g = files'[m]
    OBVIOUS
  <2>2. Tidy(g)' /\ (m < Len(files') => g.hdr = "ok" /\ Settled(g))
    BY <1>5, <2>1
  <2> QED BY <2>1, <2>2 DEF Tidy, Bare, HeaderThere, FooterDurable
<1> QED BY <1>6 DEF TidyInv, Settled, AtRisk

\* Only one kind of crash.
OneCrashKind == "process" \notin CrashKinds \/ "power" \notin CrashKinds

LEMMA FailureTidy ==
  ASSUME TypeInv, DirInv, TidyInv, ~EmptyFileSurvives, OneCrashKind,
         io_error \/ process_crash \/ power_loss
  PROVE  TidyInv'
<1>1. CASE io_error
  <2>1. Running /\ InBatch /\ pc' = "dead"
    BY <1>1 DEF io_error, Writing, InBatch, Running
  <2>2. PICK hs \in Seq(File), new \in NewFileImages : LostTo("io", hs, new)
    BY <1>1, IoErrorLoss
  <2>3. pc \notin {"closed", "refused"} /\ ~Running' /\ pc' # "refused" /\ pc' # "closed"
    BY <2>1 DEF Running
  <2> QED BY <2>1, <2>2, <2>3, LostTidy
<1>2. CASE process_crash
  <2>1. pc \notin {"closed", "refused"} /\ pc' = "closed" /\ "process" \in CrashKinds
    BY <1>2 DEF process_crash, Restart
  <2>2. PICK hs \in Seq(File), new \in NewFileImages : LostTo("process", hs, new)
    BY <1>2, ProcessCrashLoss
  <2>3. ~Running' /\ pc' # "refused" /\ "power" \notin CrashKinds
    BY <2>1 DEF Running, OneCrashKind
  <2> QED BY <2>1, <2>2, <2>3, LostTidy
<1>3. CASE power_loss
  <2>1. pc \notin {"closed", "refused"} /\ pc' = "closed" /\ "power" \in CrashKinds
    BY <1>3 DEF power_loss, Restart
  <2>2. PICK hs \in Seq(File), new \in NewFileImages : LostTo("power", hs, new)
    BY <1>3, PowerLoss
  <2>3. ~Running' /\ pc' # "refused"
    BY <2>1 DEF Running
  <2> QED BY <2>1, <2>2, <2>3, LostTidy
<1> QED BY <1>1, <1>2, <1>3

\* What open reports of a file whose footer, if it has one, is its own.
LEMMA ScanCorrupt ==
  ASSUME NEW f \in File, FileSound(f), Sealed(f)
  PROVE  scan_segment_file(f).corrupt <=> f.hdr = "torn" \/ f.torn
<1> DEFINE recs == SubSeq(f.recs, 1, GoodLen(f.recs))
<1>1. recs = f.recs
  <2>1. scan_segment_file(f).recs = recs
    BY DEF scan_segment_file
  <2> QED BY <2>1, ScanSound
<1>2. scan_segment_file(f).corrupt =
        (\/ f.hdr = "torn" \/ f.torn \/ recs # f.recs
         \/ (f.foot # NoFooter /\ recs = f.recs) /\ ~FooterOK(f, recs))
  BY DEF scan_segment_file
<1>3. f.foot # NoFooter => FooterOK(f, f.recs)
  BY DEF Sealed
<1> HIDE DEF recs
<1>4. f.torn \in BOOLEAN
  BY DEF File
<1> QED BY <1>1, <1>2, <1>3, <1>4

LEMMA RecoverTidy ==
  ASSUME NEW f \in File, FileSound(f), Sealed(f), Bare(f), f.hdr # "none", NEW keep \in BOOLEAN
  PROVE  LET g == Recovered(f, keep)
         IN  /\ g.hdr = "ok" /\ ~g.torn
             /\ ~keep /\ (f.foot # NoFooter => f.fdur) => ~AtRisk(g)
<1> DEFINE scan == scan_segment_file(f)
           h == Repaired(f)
           g == Recovered(f, keep)
<1>1. /\ scan.recs = f.recs /\ (scan.sealed <=> f.foot # NoFooter)
      /\ (scan.corrupt <=> f.hdr = "torn" \/ f.torn)
      /\ f.recs \in Seq(Record) /\ Len(f.recs) \in Nat /\ f.dur \in Nat
      /\ f.hdr \in {"none", "torn", "ok"} /\ f.torn \in BOOLEAN
  BY ScanSound, ScanCorrupt, FileRecs DEF File
<1>2. h \in File /\ h.recs = f.recs /\ h.foot = f.foot
  BY RepairSound
<1>3. CASE scan.sealed
  <2>1. ~scan.corrupt /\ f.hdr = "ok" /\ ~f.torn /\ f.dur = Len(f.recs)
    BY <1>1, <1>3 DEF Bare, FileSound
  <2>2. g = f
    BY <1>3, <2>1 DEF Recovered, Repaired
  <2> HIDE DEF g, h, scan
  <2>3. f.foot # NoFooter
    BY <1>1, <1>3
  <2>4. g.dur = Len(g.recs) /\ Len(g.recs) \in Nat
    BY <1>1, <2>1, <2>2
  <2>5. (f.foot # NoFooter => f.fdur) => ~AtRisk(g)
    BY <2>1, <2>2, <2>4 DEF AtRisk
  <2> QED BY <2>1, <2>2, <2>5 DEF g
<1>4. CASE ~scan.sealed
  <2>1. h.hdr = "ok" /\ h.torn = FALSE
    <3>1. CASE scan.corrupt
      <4>1. h = [f EXCEPT !.recs = scan.recs, !.foot = NoFooter, !.torn = FALSE,
                          !.dur = Len(scan.recs), !.fdur = FALSE, !.hdr = "ok",
                          !.ver = IF scan.recs = <<>> THEN "cur" ELSE @]
        BY <1>4, <3>1 DEF Repaired, execute_physical_repair
      <4> HIDE DEF h, scan
      <4> QED BY <4>1 DEF File
    <3>2. CASE ~scan.corrupt
      <4>1. h = f
        BY <3>2 DEF Repaired
      <4> QED BY <1>1, <3>2, <4>1
    <3> QED BY <3>1, <3>2
  <2>2. CASE keep
    <3>1. g = h
      BY <2>2 DEF Recovered
    <3> QED BY <2>1, <2>2, <3>1
  <2>3. CASE ~keep
    <3>1. g = seal_file(h, scan)
      BY <1>4, <2>3 DEF Recovered
    <3> HIDE DEF g, h, scan
    <3>2. PICK foot : g = [h EXCEPT !.dur = Len(h.recs), !.fdur = TRUE, !.foot = foot]
      BY <3>1, ZenonT(40) DEF seal_file
    <3>3. g.hdr = h.hdr /\ g.torn = h.torn /\ g.fdur = TRUE /\ g.recs = h.recs
          /\ g.dur = Len(h.recs)
      BY <1>2, <3>2 DEF File
    <3>4. Len(h.recs) \in Nat
      BY <1>1, <1>2
    <3> QED BY <2>1, <3>3, <3>4 DEF AtRisk, g
  <2> QED BY <2>2, <2>3
<1> QED BY <1>3, <1>4

LEMMA OpenTidy ==
  ASSUME TypeInv, TypeInv', DirInv, SealInv, TidyInv, open
  PROVE  TidyInv'
<1>1. /\ FilesSound /\ Len(files) \in Nat /\ DOMAIN files = 1..Len(files)
      /\ \A i \in DOMAIN files : files[i] \in File /\ FileSound(files[i]) /\ Sealed(files[i])
      /\ DOMAIN files' = 1..Len(files')
  BY FilesAre, LenProperties DEF DirInv, FilesSound, TypeInv, TypeOK, DirectoryType, SealInv,
     SealedVerifies, Sealed
<1>2. pc = "closed" /\ ~Creating
  BY DEF open, Creating
<1>3. \A i \in DOMAIN files : Bare(files[i]) /\ files[i].hdr # "none"
  BY <1>2 DEF TidyInv, Tidy, HeaderThere
<1>4. ~open_refuses(Scans)
  <2>1. \A i \in DOMAIN files : ~BadMagic(files[i])
    BY <1>3 DEF BadMagic
  <2>2. ASSUME NEW i \in 1..(Len(files) - 1) PROVE ~Scans[i].corrupt
    <3>1. i \in DOMAIN files /\ i < Len(files)
      BY <1>1
    <3>2. files[i].hdr = "ok" /\ ~files[i].torn
      BY <3>1 DEF TidyInv, Settled
    <3>3. Scans[i] = scan_segment_file(files[i])
      BY <3>1 DEF Scans
    <3> QED BY <1>1, <3>1, <3>2, <3>3, ScanCorrupt
  <2> QED BY <2>1, <2>2 DEF open_refuses
<1>5. PICK lsn0 : Reopens(lsn0)
  BY <1>1, <1>4, OpenFiles
<1>6. ASSUME NEW i \in DOMAIN files, NEW g, g = files'[i]
      PROVE  /\ g.hdr = "ok" /\ ~g.torn
             /\ ~(i = Len(files) /\ KeepsTail) => Settled(g)
  <2> DEFINE keep == i = Len(files) /\ KeepsTail
  <2>1. keep \in BOOLEAN /\ g = Recovered(files[i], keep)
    BY <1>5, <1>6 DEF Reopens, KeepsTail
  <2>2. "power" \in CrashKinds => (files[i].foot # NoFooter => files[i].fdur)
    BY <1>2 DEF TidyInv, Tidy, FooterDurable
  <2> HIDE DEF keep
  <2>3. g.hdr = "ok" /\ ~g.torn /\ (~keep /\ (files[i].foot # NoFooter => files[i].fdur) => ~AtRisk(g))
    BY <1>1, <1>3, <2>1, RecoverTidy
  <2> QED BY <2>2, <2>3 DEF Settled, keep
<1>7. pc' # "closed" /\ pc' # "refused"
  BY <1>5 DEF Reopens, TailKept, TailStarted
<1>8. ASSUME NEW i \in DOMAIN files', NEW g, g = files'[i]
      PROVE  Tidy(g)' /\ (i < Len(files') => g.hdr = "ok" /\ Settled(g))
  <2>1. CASE i \in DOMAIN files
    <3>1. g.hdr = "ok" /\ ~g.torn
      BY <1>6, <1>8, <2>1
    <3>2. Tidy(g)'
      BY <1>7, <3>1 DEF Tidy, Bare, HeaderThere, FooterDurable
    <3>3. i < Len(files') => ~(i = Len(files) /\ KeepsTail)
      <4>1. CASE TailKept(lsn0)
        BY <1>1, <4>1 DEF TailKept
      <4>2. CASE TailStarted(lsn0)
        BY <4>2 DEF TailStarted
      <4> QED BY <1>5, <4>1, <4>2 DEF Reopens
    <3> QED BY <1>6, <1>8, <2>1, <3>1, <3>2, <3>3
  <2>2. CASE i \notin DOMAIN files
    <3>1. TailStarted(lsn0)
      <4>1. ~TailKept(lsn0)
        BY <1>1, <2>2, ZenonT(40) DEF TailKept
      <4> QED BY <1>5, <4>1 DEF Reopens
    <3>2. i = Len(files) + 1 /\ Len(files') = Len(files) + 1 /\ g = EmptyFile /\ Creating'
      BY <1>1, <1>8, <2>2, <3>1 DEF TailStarted, Creating
    <3>3. g.hdr = "none" /\ g.recs = <<>> /\ g.foot = NoFooter /\ g.torn = FALSE
      BY <3>2 DEF EmptyFile
    <3>4. Tidy(g)'
      BY <3>2, <3>3 DEF Tidy, Bare, HeaderThere, FooterDurable
    <3> QED BY <1>1, <3>2, <3>4
  <2> QED BY <2>1, <2>2
<1>9. ASSUME NEW i \in DOMAIN files'
      PROVE  Tidy(files[i])' /\ (i < Len(files') => files'[i].hdr = "ok" /\ Settled(files'[i]))
  <2>1. PICK g : g = files'[i]
    OBVIOUS
  <2>2. Tidy(g)' /\ (i < Len(files') => g.hdr = "ok" /\ Settled(g))
    BY <1>8, <2>1
  <2> QED BY <2>1, <2>2 DEF Tidy, Bare, HeaderThere, FooterDurable
<1> QED BY <1>7, <1>9 DEF TidyInv, Settled, AtRisk

LEMMA PlaceFiles ==
  ASSUME TypeInv, place
  PROVE  LET k == active.seg + 1
         IN  /\ Running /\ Running' /\ ~Creating' /\ k \in DOMAIN files /\ k = Len(files)
             /\ DOMAIN files' = DOMAIN files /\ Len(files') = Len(files) /\ ~Creating
             /\ files'[k].foot = files[k].foot /\ files'[k].hdr = files[k].hdr
             /\ files'[k].torn = files[k].torn
             /\ \A i \in DOMAIN files : i # k => files'[i] = files[i]
<1> DEFINE k == active.seg + 1
           f == files[k]
           r == Placed
           recs == Append(f.recs, r)
           g == [f EXCEPT !.recs = recs]
<1>1. Running /\ Running' /\ ~Creating /\ ~Creating' /\ pc \in {"write", "place"}
  BY DEF place, Running, Creating
<1>2. /\ files \in Seq(File) /\ f \in File /\ k \in DOMAIN files /\ k = Len(files)
  BY <1>1, FilesAre DEF Running, TypeInv, ActiveIsLast
<1>3. files' = [files EXCEPT ![k] = g]
  BY DEF place, Placed, ActiveFile
<1> HIDE DEF f, r, recs, k
<1>4. g.foot = f.foot /\ g.hdr = f.hdr /\ g.torn = f.torn
  BY <1>2 DEF File
<1> HIDE DEF g
<1>5. /\ files'[k] = g /\ \A i \in DOMAIN files : i # k => files'[i] = files[i]
      /\ DOMAIN files' = DOMAIN files /\ Len(files') = Len(files)
  BY <1>2, <1>3
<1> QED BY <1>1, <1>2, <1>4, <1>5 DEF f, k

\* A worker that writes to the last file keeps the directory tidy.
LEMMA ActiveTidy ==
  ASSUME TypeInv, TidyInv, Running, Running', ~Creating, ~Creating',
         DOMAIN files' = DOMAIN files, Len(files') = Len(files),
         \A i \in DOMAIN files : /\ i # Len(files) => files'[i] = files[i]
                                 /\ files'[i].hdr = files[i].hdr /\ files'[i].torn = files[i].torn
  PROVE  TidyInv'
<1>1. DOMAIN files = 1..Len(files) /\ Len(files) \in Nat
  BY FilesAre
<1>2. \A i \in DOMAIN files : ~files[i].torn /\ files[i].hdr = "ok"
  BY RunningTidy
<1>3. \A i \in DOMAIN files' : ~files'[i].torn /\ files'[i].hdr = "ok"
  BY <1>2
<1>4. \A i \in DOMAIN files' : Tidy(files[i])'
  BY <1>3 DEF Tidy, Bare, HeaderThere, FooterDurable, Running
<1>5. \A i \in DOMAIN files' : i < Len(files') => Settled(files'[i])
  BY <1>1 DEF TidyInv, Settled
<1> QED BY <1>3, <1>4, <1>5 DEF TidyInv, Settled, AtRisk, Running

LEMMA NextTidy ==
  ASSUME HeadInv, DirInv, CommandsSound, SealInv, TidyInv, ~EmptyFileSurvives, OneCrashKind,
         [Next]_vars
  PROVE  TidyInv'
<1>1. TypeInv /\ TypeInv'
  BY NextType DEF HeadInv
<1>2. CASE place
  BY <1>1, <1>2, PlaceFiles, ActiveTidy
<1>3. CASE roll_seal
  <2>1. Running /\ Running' /\ pc = "write" /\ pc' = "roll_create"
    BY <1>1, <1>3, RollSealFiles
  <2>2. ~Creating /\ ~Creating' /\ active.seg + 1 = Len(files)
    BY <1>1, <2>1 DEF Creating, TypeInv, ActiveIsLast
  <2> QED BY <1>1, <1>3, <2>1, <2>2, RollSealFiles, ActiveTidy
<1>4. CASE fsync
  <2>1. Running /\ Running' /\ pc = "write" /\ pc' = "publish"
    BY <1>1, <1>4, FsyncFiles
  <2>2. ~Creating /\ ~Creating' /\ active.seg + 1 = Len(files)
    BY <1>1, <2>1 DEF Creating, TypeInv, ActiveIsLast
  <2> QED BY <1>1, <1>4, <2>1, <2>2, FsyncFiles, ActiveTidy
<1>5. CASE roll_create
  <2> DEFINE n == Len(files)
             g == files'[n]
  <2>1. /\ Running /\ pc = "roll_create" /\ pc' = "roll_header" /\ active.seg + 1 = n
        /\ Len(files') = n + 1 /\ files'[n + 1] = EmptyFile /\ DOMAIN files' = 1..(n + 1)
        /\ g.recs = files[n].recs /\ g.hdr = files[n].hdr /\ g.torn = files[n].torn
        /\ g.fdur = TRUE /\ g.dur = files[n].dur /\ DOMAIN files = 1..n /\ n \in Nat
        /\ n \in DOMAIN files
        /\ \A i \in DOMAIN files : i # n => files'[i] = files[i]
    BY <1>1, <1>5, RollCreateFiles
  <2>2. \A i \in DOMAIN files : ~files[i].torn /\ files[i].hdr = "ok"
    BY <1>1, <2>1, RunningTidy DEF Creating
  <2>3. Len(files[n].recs) \in Nat /\ files[n].dur = Len(files[n].recs)
    <3>1. Len(files[n].recs) \in Nat
      BY <1>1, <2>1, FilesAre, FileRecs
    <3> QED BY <2>1, <3>1 DEF DirInv, ActiveSound, ActiveFile
  <2>4. Running' /\ Creating' /\ pc' # "closed"
    BY <2>1 DEF Running, Creating
  <2>5. g.hdr = "ok" /\ Settled(g)
    <3>1. ~g.torn /\ ~(g.dur < Len(g.recs)) /\ g.fdur = TRUE
      BY <2>1, <2>2, <2>3
    <3> HIDE DEF g
    <3>2. Settled(g)
      BY <3>1 DEF Settled, AtRisk
    <3> QED BY <2>1, <2>2, <3>2 DEF g
  <2>6. \A i \in DOMAIN files : ~files'[i].torn /\ files'[i].hdr = "ok" /\ Settled(files'[i])
    <3>1. \A i \in DOMAIN files : i # n => Settled(files[i])
      BY <2>1 DEF TidyInv
    <3> QED BY <2>1, <2>2, <2>5, <3>1
  <2>7. EmptyFile.hdr = "none" /\ EmptyFile.recs = <<>> /\ EmptyFile.foot = NoFooter
        /\ EmptyFile.torn = FALSE
    BY DEF EmptyFile
  <2>8. \A i \in DOMAIN files' : i \in DOMAIN files \/ i = n + 1
    BY <2>1
  <2>9. \A i \in DOMAIN files' : Tidy(files[i])'
    BY <2>1, <2>4, <2>6, <2>7, <2>8 DEF Tidy, Bare, HeaderThere, FooterDurable
  <2>10. \A i \in DOMAIN files' : i < Len(files') => files'[i].hdr = "ok" /\ Settled(files'[i])
    BY <2>1, <2>6, <2>8
  <2> QED BY <2>1, <2>9, <2>10 DEF TidyInv, Settled, AtRisk
<1>6. ASSUME NEW p \in PhysClock, roll_header(p) \/ open_header(p) PROVE TidyInv'
  <2> DEFINE n == Len(files)
  <2>1. /\ Running /\ Running' /\ Creating /\ ~Creating' /\ n \in DOMAIN files
        /\ DOMAIN files' = DOMAIN files /\ Len(files') = n
        /\ files'[n].hdr = "ok" /\ files'[n].torn = files[n].torn
        /\ \A i \in DOMAIN files : i # n => files'[i] = files[i]
    BY <1>1, <1>6, HeaderFiles
  <2>2. \A i \in DOMAIN files : ~files[i].torn /\ (files[i].hdr = "ok" \/ i = n)
    BY <1>1, <2>1, RunningTidy
  <2>3. \A i \in DOMAIN files' : ~files'[i].torn /\ files'[i].hdr = "ok"
    BY <2>1, <2>2
  <2>4. \A i \in DOMAIN files' : Tidy(files[i])'
    BY <2>1, <2>3 DEF Tidy, Bare, HeaderThere, FooterDurable, Running
  <2>5. \A i \in DOMAIN files' : i < Len(files') => Settled(files'[i])
    <3>1. \A i \in DOMAIN files' : i < n => i # n
      BY <1>1, <2>1, FilesAre
    <3> QED BY <2>1, <3>1 DEF TidyInv
  <2> QED BY <2>1, <2>3, <2>4, <2>5 DEF TidyInv, Settled, AtRisk, Running
<1>7. CASE open
  BY <1>1, <1>7, OpenTidy
<1>8. CASE io_error \/ process_crash \/ power_loss
  BY <1>1, <1>8, FailureTidy
<1>9. CASE recv \/ write_flush \/ reject \/ publish \/ commit \/ ack
  <2>1. /\ UNCHANGED files /\ Running /\ Running' /\ ~Creating /\ ~Creating'
    BY <1>9 DEF recv, write_flush, reject, publish, commit, ack, Running, Creating
  <2> QED BY <1>1, <2>1, ActiveTidy
<1>10. CASE UNCHANGED <<worker, files>>
  <2>1. UNCHANGED <<files, pc>>
    BY <1>10 DEF worker
  <2> QED BY <2>1 DEF TidyInv, Tidy, Bare, HeaderThere, FooterDurable, Settled, AtRisk, Creating,
          Running
<1>11. \/ \E c \in Clients, size \in Sizes, p \in PhysClock : append(c, size, p)
       \/ \E c \in Clients, k \in DOMAIN Leader : append_replicated(c, k)
       \/ \E c \in Clients : flush(c) \/ send_timeout(c)
       \/ UNCHANGED vars
       => UNCHANGED <<worker, files>>
  BY DEF append, append_replicated, flush, send_timeout, vars
<1> QED BY <1>2, <1>3, <1>4, <1>5, <1>6, <1>7, <1>8, <1>9, <1>10, <1>11 DEF Next, WorkerStep

\* As long as only the process dies, or only the machine does, and no segment
\* file is left without a byte in it, open never refuses what Log wrote: not
\* in any state of a roll, not after any number of failed recoveries.
THEOREM OpenNeverRefuses ==
  ASSUME ~EmptyFileSurvives, OneCrashKind
  PROVE  Spec => []NeverRefused
<1> DEFINE Inv == DurableInv /\ SealInv /\ TidyInv
<1>1. Init => Inv
  <2> SUFFICES ASSUME Init PROVE SealInv /\ TidyInv
    BY InitDurable
  <2>1. ~Running /\ pc = "closed"
    BY DEF Init, Running
  <2>2. /\ OldSegment.foot = NoFooter /\ OldSegment.hdr = "ok" /\ OldSegment.torn = FALSE
    BY DEF OldSegment, EmptyFile
  <2>3. files = <<>> \/ files = <<OldSegment>>
    BY Zenon DEF Init
  <2>4. ASSUME NEW i \in DOMAIN files PROVE files[i] = OldSegment /\ ~(i < Len(files))
    <3>1. CASE files = <<>>
      BY <3>1
    <3>2. CASE files = <<OldSegment>>
      BY <3>2
    <3> QED BY <2>3, <3>1, <3>2
  <2>5. TidyInv
    BY <2>1, <2>2, <2>4 DEF TidyInv, Tidy, Bare, HeaderThere, FooterDurable
  <2> QED BY <2>1, <2>2, <2>4, <2>5 DEF SealInv, SealedVerifies, ActiveMirrors
<1>2. Inv /\ [Next]_vars => Inv'
  BY NextDurable, NextSealed, NextTidy DEF DurableInv
<1>3. Inv => NeverRefused
  BY DEF TidyInv, NeverRefused
<1> QED BY <1>1, <1>2, <1>3, PTL DEF Spec

\* Under FsyncPolicy::Always power losses and I/O errors cost neither the
\* barrier nor the next open.
THEOREM PowerLossIsSafe ==
  ASSUME Policy = "always", CrashKinds \subseteq {"power"}, ~EmptyFileSurvives
  PROVE  Spec => []CrashSafe
<1>1. OneCrashKind
  BY DEF OneCrashKind
<1>2. Spec => []LsnBarrier
  BY BarrierHolds
<1>3. Spec => []NeverRefused
  BY <1>1, OpenNeverRefuses
<1>4. LsnBarrier /\ NeverRefused => CrashSafe
  BY DEF CrashSafe
<1> QED BY <1>2, <1>3, <1>4, PTL
-----------------------------------------------------------------------------
(* The stamps.                                                              *)

\* The appends of a sequence of commands are stamped in the order they are in.
InOrder(s) ==
  \A k, l \in DOMAIN s :
    k < l /\ s[k].op = "append" /\ s[l].op = "append" => s[k].ts < s[l].ts

\* Every append among the commands of s is stamped before those of t.
Before(s, t) ==
  \A b \in Elements(s), q \in Elements(t) :
    b.op = "append" /\ q.op = "append" => b.ts < q.ts

\* No append among the commands of s is ahead of the clock, or has a record
\* that was stamped after it.
StampedAfter(s) ==
  \A c \in Elements(s) :
    c.op = "append" => c.ts <= hlc /\ \A r \in AllRecs(files) : r.ts < c.ts

RecordsStamped == Opened \/ pc = "open_header" => \A r \in AllRecs(files) : r.ts <= hlc

StampInv ==
  Leader = <<>> =>
    /\ TsMonotone /\ RecordsStamped
    /\ InOrder(batch) /\ InOrder(queue) /\ Before(batch, queue)
    /\ StampedAfter(batch) /\ StampedAfter(queue)

LEMMA StampTypes ==
  ASSUME NEW s \in Seq(Command)
  PROVE  \A c \in Elements(s) : c.ts \in Nat
<1>1. \A c \in Elements(s) : c \in Command
  BY ElementOfSeq, LenProperties DEF Elements
<1> QED BY <1>1 DEF Command

LEMMA AppendOrder ==
  ASSUME NEW s \in Seq(Command), NEW x \in Command, InOrder(s),
         \A c \in Elements(s) : c.op = "append" /\ x.op = "append" => c.ts < x.ts
  PROVE  InOrder(Append(s, x))
<1> DEFINE t == Append(s, x)
<1>1. /\ Len(s) \in Nat /\ DOMAIN s = 1..Len(s)
      /\ t \in Seq(Command) /\ Len(t) = Len(s) + 1 /\ t[Len(s) + 1] = x
      /\ \A i \in 1..Len(s) : t[i] = s[i]
  BY LenProperties, AppendProperties
<1>2. DOMAIN t = 1..(Len(s) + 1)
  BY <1>1, LenProperties
<1> HIDE DEF t
<1>3. ASSUME NEW k \in DOMAIN t, NEW l \in DOMAIN t, k < l,
             t[k].op = "append", t[l].op = "append"
      PROVE  t[k].ts < t[l].ts
  <2>1. k \in 1..Len(s) /\ t[k] = s[k] /\ s[k] \in Elements(s)
    BY <1>1, <1>2, <1>3 DEF Elements
  <2>2. CASE l = Len(s) + 1
    BY <1>1, <1>3, <2>1, <2>2
  <2>3. CASE l \in 1..Len(s)
    BY <1>1, <1>3, <2>1, <2>3 DEF InOrder
  <2> QED BY <1>1, <1>2, <2>2, <2>3
<1> QED BY <1>3 DEF InOrder, t

LEMMA SliceOrder ==
  ASSUME NEW s \in Seq(Command), InOrder(s), NEW n \in 0..Len(s)
  PROVE  LET front == SubSeq(s, 1, n)
             rest == SubSeq(s, n + 1, Len(s))
         IN  InOrder(front) /\ InOrder(rest) /\ Before(front, rest)
<1> DEFINE front == SubSeq(s, 1, n)
           rest == SubSeq(s, n + 1, Len(s))
           m == Len(s) - n
<1>1. Len(s) \in Nat /\ DOMAIN s = 1..Len(s) /\ n \in Nat /\ n <= Len(s) /\ m \in Nat
  BY LenProperties
<1>2. DOMAIN front = 1..n /\ \A i \in 1..n : front[i] = s[i]
  BY <1>1
<1>3. DOMAIN rest = 1..m /\ \A i \in 1..m : rest[i] = s[n + i]
  BY <1>1
<1>4. \A i \in 1..n : i \in DOMAIN s
  BY <1>1
<1>5. \A i \in 1..m : n + i \in DOMAIN s /\ \A j \in 1..n : j < n + i
  BY <1>1
<1> HIDE DEF front, rest
<1>6. InOrder(front)
  BY <1>2, <1>4 DEF InOrder
<1>7. InOrder(rest)
  <2> SUFFICES ASSUME NEW k \in 1..m, NEW l \in 1..m, k < l,
                      rest[k].op = "append", rest[l].op = "append"
               PROVE  rest[k].ts < rest[l].ts
    BY <1>3 DEF InOrder
  <2>1. n + k < n + l
    BY <1>1
  <2> HIDE DEF m
  <2> QED BY <1>3, <1>5, <2>1 DEF InOrder
<1>8. Before(front, rest)
  <2> SUFFICES ASSUME NEW k \in 1..n, NEW l \in 1..m,
                      front[k].op = "append", rest[l].op = "append"
               PROVE  front[k].ts < rest[l].ts
    BY <1>2, <1>3 DEF Before, Elements
  <2> HIDE DEF m
  <2> QED BY <1>2, <1>3, <1>4, <1>5 DEF InOrder
<1> QED BY <1>6, <1>7, <1>8 DEF front, rest

LEMMA TailOrder ==
  ASSUME NEW s \in Seq(Command), s # <<>>, InOrder(s)
  PROVE  /\ InOrder(Tail(s))
         /\ \A c \in Elements(Tail(s)) :
              Head(s).op = "append" /\ c.op = "append" => Head(s).ts < c.ts
<1> DEFINE t == Tail(s)
<1>1. Len(s) \in Nat /\ DOMAIN s = 1..Len(s) /\ Len(s) >= 1 /\ Head(s) = s[1]
  BY LenProperties
<1>2. DOMAIN t = 1..(Len(s) - 1) /\ \A i \in DOMAIN t : t[i] = s[i + 1]
  BY <1>1
<1>3. 1 \in DOMAIN s /\ \A i \in DOMAIN t : i + 1 \in DOMAIN s /\ 1 < i + 1
  BY <1>1, <1>2
<1>4. \A k, l \in DOMAIN t : k < l => k + 1 < l + 1
  BY <1>2
<1> HIDE DEF t
<1>5. InOrder(t)
  BY <1>2, <1>3, <1>4 DEF InOrder
<1>6. \A c \in Elements(t) : Head(s).op = "append" /\ c.op = "append" => Head(s).ts < c.ts
  BY <1>1, <1>2, <1>3 DEF InOrder, Elements
<1> QED BY <1>5, <1>6 DEF t

\* open sets the clock to the greatest stamp on disk.
LEMMA OpenClock ==
  ASSUME TypeInv, FilesSound, open, pc' # "refused"
  PROVE  \A r \in AllRecs(files) : r.ts <= hlc'
<1>1. ScannedRecs = AllRecs(files)
  BY ScanComplete
<1>2. ~open_refuses(Scans)
  BY DEF open, Scans
<1>3. \E h \in {0} \cup {r.ts : r \in ScannedRecs} :
        (\A r \in ScannedRecs : r.ts <= h) /\ hlc' = h
  BY <1>2, Zenon DEF open, Scans, ScannedRecs
<1> QED BY <1>1, <1>3

\* The clock goes on, and stays at or after what it has stamped.
LEMMA ClockMoves ==
  ASSUME TypeInv, NEW p \in PhysClock, hlc' = HlcNow(hlc, p)
  PROVE  hlc' \in Nat /\ hlc' > hlc
BY ConstantsAssumption DEF TypeInv, TypeOK, CountersType, HlcNow

LEMMA InitStamps == Init => StampInv
<1> SUFFICES ASSUME Init PROVE StampInv
  OBVIOUS
<1>1. /\ ~Opened /\ pc = "closed" /\ batch = <<>> /\ queue = <<>>
      /\ files = <<>> \/ files = <<OldSegment>>
  BY Zenon DEF Init, Opened
<1>2. \A r1, r2 \in AllRecs(files) : r1 = r2
  <2>1. CASE files = <<>>
    BY <2>1 DEF AllRecs
  <2>2. CASE files = <<OldSegment>>
    <3> DEFINE r == [lsn |-> 0, ts |-> 1, id |-> 0, off |-> HeaderLen, size |-> 1]
    <3>1. OldSegment.recs = <<r>>
      BY DEF OldSegment, EmptyFile
    <3>2. DOMAIN <<r>> = {1} /\ <<r>>[1] = r
      OBVIOUS
    <3> HIDE DEF r
    <3>3. DOMAIN files = {1} /\ files[1].recs = <<r>>
      BY <2>2, <3>1
    <3>4. AllRecs(files) = {r}
      BY <3>2, <3>3 DEF AllRecs
    <3> QED BY <3>4
  <2> QED BY <1>1, <2>1, <2>2
<1>3. \A r \in AllRecs(files) : ~(r.lsn < r.lsn)
  <2>1. TypeInv
    BY InitType
  <2>2. \A r \in AllRecs(files) : r.lsn \in Nat
    BY <2>1, FilesAre, RecordPlaces DEF Record
  <2> QED BY <2>2
<1>4. TsMonotone
  BY <1>2, <1>3 DEF TsMonotone
<1>5. InOrder(<<>>) /\ Before(<<>>, <<>>) /\ StampedAfter(<<>>)
  BY NoElements DEF InOrder, Before, StampedAfter
<1> QED BY <1>1, <1>4, <1>5 DEF StampInv, RecordsStamped

\* Commands that stay are stamped later than the records there are, if the
\* clock does not go back.
LEMMA StillLater ==
  ASSUME TypeInv, hlc' \in Nat, hlc' >= hlc, AllRecs(files') \subseteq AllRecs(files),
         NEW s \in Seq(Command), StampedAfter(s),
         NEW t, Elements(t) \subseteq Elements(s)
  PROVE  \A c \in Elements(t) :
           c.op = "append" => c.ts <= hlc' /\ \A r \in AllRecs(files') : r.ts < c.ts
<1>1. hlc \in Nat /\ \A c \in Elements(s) : c.ts \in Nat
  BY StampTypes DEF TypeInv, TypeOK, CountersType
<1> QED BY <1>1 DEF StampedAfter

LEMMA NextStamps ==
  ASSUME StampInv, HeadInv, DirInv, CommandsSound, [Next]_vars
  PROVE  StampInv'
<1> SUFFICES ASSUME Leader = <<>> PROVE StampInv'
  BY DEF StampInv
<1>1. /\ TsMonotone /\ RecordsStamped
      /\ InOrder(batch) /\ InOrder(queue) /\ Before(batch, queue)
      /\ StampedAfter(batch) /\ StampedAfter(queue)
  BY DEF StampInv
<1>2. /\ TypeInv /\ TypeInv' /\ hlc \in Nat /\ hlc' \in Nat
      /\ queue \in Seq(Command) /\ batch \in Seq(Command)
      /\ queue' \in Seq(Command) /\ batch' \in Seq(Command)
      /\ \A r \in AllRecs(files) : r \in Record
  <2>1. TypeInv /\ TypeInv'
    BY NextType DEF HeadInv
  <2> QED BY <2>1, FilesAre, RecordPlaces DEF TypeInv, TypeOK, CountersType, CallsType
<1>3. \A r \in AllRecs(files') : r \in AllRecs(files) \/ (place /\ r = Placed)
  BY NextDir DEF DirStep
<1>4. ASSUME ~place
      PROVE  TsMonotone' /\ AllRecs(files') \subseteq AllRecs(files)
  BY <1>1, <1>3, <1>4 DEF TsMonotone
\* A step that writes no record, and adds no command.
<1>5. ASSUME ~place, hlc' >= hlc, Opened \/ pc = "open_header",
             Elements(batch') \subseteq Elements(batch), InOrder(batch'),
             Elements(queue') \subseteq Elements(queue), InOrder(queue')
      PROVE  StampInv'
  <2>1. TsMonotone' /\ AllRecs(files') \subseteq AllRecs(files)
    BY <1>4, <1>5
  <2>2. RecordsStamped'
    BY <1>1, <1>2, <1>5, <2>1 DEF RecordsStamped, Record
  <2>3. Before(batch', queue')
    BY <1>1, <1>5 DEF Before
  <2>4. StampedAfter(batch)' /\ StampedAfter(queue)'
    BY <1>1, <1>2, <1>5, <2>1, StillLater DEF StampedAfter
  <2> QED BY <1>5, <2>1, <2>2, <2>3, <2>4 DEF StampInv, InOrder, Before
\* A command comes to the end of the queue, stamped after all there is.
<1>6. ASSUME Serving, UNCHANGED <<files, batch, pc>>, hlc' >= hlc, NEW cmd \in Command,
             queue' = Append(queue, cmd), cmd.op = "append" => cmd.ts = hlc' /\ hlc' > hlc
      PROVE  StampInv'
  <2>1. TsMonotone' /\ RecordsStamped'
    BY <1>1, <1>2, <1>6 DEF TsMonotone, RecordsStamped, Opened, Record
  <2>2. \A r \in AllRecs(files) : r.ts <= hlc
    BY <1>1, <1>6 DEF RecordsStamped, Serving
  <2>3. \A c \in Elements(batch) \cup Elements(queue) :
          c.op = "append" => c.ts \in Nat /\ c.ts <= hlc
    BY <1>1, <1>2, StampTypes DEF StampedAfter
  <2>4. Elements(queue') = Elements(queue) \cup {cmd}
    BY <1>2, <1>6, AppendElements
  <2>5. InOrder(queue')
    BY <1>1, <1>2, <1>6, <2>3, AppendOrder
  <2>6. Before(batch', queue')
    BY <1>1, <1>2, <1>6, <2>3, <2>4 DEF Before
  <2>7. StampedAfter(batch)'
    BY <1>1, <1>2, <1>6, <2>3 DEF StampedAfter
  <2>8. StampedAfter(queue)'
    <3>1. ASSUME NEW c \in Elements(queue'), c.op = "append"
          PROVE  c.ts <= hlc' /\ \A r \in AllRecs(files') : r.ts < c.ts
      <4>1. CASE c \in Elements(queue)
        BY <1>1, <1>2, <1>6, <2>3, <3>1, <4>1 DEF StampedAfter
      <4>2. CASE c = cmd
        BY <1>2, <1>6, <2>2, <3>1, <4>2 DEF Record
      <4> QED BY <2>4, <4>1, <4>2
    <3> QED BY <3>1 DEF StampedAfter
  <2> QED BY <1>1, <1>6, <2>1, <2>5, <2>6, <2>7, <2>8 DEF StampInv, InOrder, Before
<1>7. ASSUME NEW c \in Clients, NEW size \in Sizes, NEW p \in PhysClock, append(c, size, p)
      PROVE  StampInv'
  <2> DEFINE cmd == [op |-> "append", client |-> c, id |-> nextId + 1, ts |-> hlc', size |-> size,
                     expected |-> NoLsn, mark |-> 0]
  <2>1. /\ Serving /\ UNCHANGED <<files, batch, pc>> /\ hlc' = HlcNow(hlc, p)
        /\ queue' = Append(queue, cmd)
    BY <1>7, Zenon DEF append, worker
  <2>2. hlc' > hlc
    BY <1>2, <2>1, ClockMoves
  <2>3. cmd \in Command /\ cmd.ts = hlc'
    BY <1>2, ConstantsAssumption DEF TypeInv, TypeOK, CountersType, Command
  <2> HIDE DEF cmd
  <2> QED BY <1>2, <1>6, <2>1, <2>2, <2>3
<1>8. ASSUME NEW c \in Clients, flush(c)
      PROVE  StampInv'
  <2> DEFINE cmd == [op |-> "flush", client |-> c, id |-> 0, ts |-> 0, size |-> 0,
                     expected |-> NoLsn, mark |-> committed_lsn]
  <2>1. Serving /\ UNCHANGED <<files, batch, pc, hlc>> /\ queue' = Append(queue, cmd)
    BY <1>8, Zenon DEF flush, worker
  <2>2. cmd \in Command /\ cmd.op = "flush"
    BY <1>2 DEF Command, TypeInv, TypeOK, CountersType
  <2> HIDE DEF cmd
  <2> QED BY <1>2, <1>6, <2>1, <2>2
<1>9. CASE recv
  <2>1. PICK n \in 0..Len(queue) : /\ batch' = SubSeq(queue, 1, n)
                                   /\ queue' = SubSeq(queue, n + 1, Len(queue))
    BY <1>2, <1>9, Received
  <2>2. Elements(batch') \subseteq Elements(queue) /\ Elements(queue') \subseteq Elements(queue)
    BY <1>2, <2>1, SliceElements
  <2>3. InOrder(batch') /\ InOrder(queue') /\ Before(batch', queue')
    BY <1>1, <1>2, <2>1, SliceOrder
  <2>4. UNCHANGED <<files, hlc>> /\ Opened
    BY <1>9 DEF recv, Opened
  <2>5. StampedAfter(batch)' /\ StampedAfter(queue)' /\ TsMonotone' /\ RecordsStamped'
    BY <1>1, <2>2, <2>4 DEF StampedAfter, TsMonotone, RecordsStamped
  <2> QED BY <2>3, <2>5 DEF StampInv, InOrder, Before
<1>10. ASSUME batch # <<>>, batch' = Tail(batch)
       PROVE  Elements(batch') \subseteq Elements(batch) /\ InOrder(batch')
  BY <1>1, <1>2, <1>10, HeadElements, TailOrder
<1>11. CASE write_flush \/ reject
  <2>1. /\ batch # <<>> /\ batch' = Tail(batch) /\ UNCHANGED <<queue, hlc, files>> /\ Opened
        /\ pc' = pc
    BY <1>11 DEF write_flush, reject, Opened
  <2>2. ~place
    BY <1>11 DEF write_flush, reject, place
  <2> QED BY <1>1, <1>2, <1>5, <1>10, <2>1, <2>2
<1>12. CASE place
  <2>1. /\ batch # <<>> /\ Cmd.op = "append" /\ batch' = Tail(batch)
        /\ UNCHANGED <<queue, hlc>> /\ Opened /\ pc' = "write"
    <3>1. batch # <<>>
      BY <1>2, <1>12 DEF place, TypeInv, TypeOK, WorkerShape
    <3>2. Cmd.op = "append"
      BY <1>12 DEF place, CommandsSound
    <3>3. Opened
      BY <1>12 DEF place, Opened
    <3> QED BY <1>12, <3>1, <3>2, <3>3 DEF place
  <2>2. Cmd \in Elements(batch) /\ Cmd.ts \in Nat
    BY <1>2, <2>1, HeadElements, CmdType DEF Cmd, Command, TypeInv, TypeOK
  <2>3. /\ Placed.ts = Cmd.ts /\ Placed.lsn = tentative_lsn
        /\ \A r \in AllRecs(files) : r.ts < Cmd.ts /\ r.lsn < tentative_lsn /\ r.lsn \in Nat
        /\ tentative_lsn \in Nat
    <3>1. Running /\ InBatch
      BY <1>12 DEF place, Running, InBatch
    <3>2. \A r \in AllRecs(files) : r.lsn < tentative_lsn
      BY <3>1 DEF DirInv, RecordsBelow, NextPlace
    <3>3. \A r \in AllRecs(files) : r.ts < Cmd.ts
      BY <1>1, <2>1, <2>2 DEF StampedAfter
    <3> QED BY <1>2, <3>2, <3>3 DEF Placed, Record, TypeInv, TypeOK, CountersType
  <2>4. TsMonotone'
    <3> SUFFICES ASSUME NEW r \in AllRecs(files'), NEW q \in AllRecs(files'), r.lsn < q.lsn
                 PROVE  r.ts < q.ts
      BY DEF TsMonotone
    <3>1. (r \in AllRecs(files) \/ r = Placed) /\ (q \in AllRecs(files) \/ q = Placed)
      BY <1>3
    <3>2. CASE r \in AllRecs(files) /\ q \in AllRecs(files)
      BY <1>1, <3>2 DEF TsMonotone
    <3>3. CASE r \in AllRecs(files) /\ q = Placed
      BY <2>3, <3>3
    <3>4. r # Placed
      <4> SUFFICES ASSUME r = Placed PROVE FALSE
        OBVIOUS
      <4>1. tentative_lsn < q.lsn /\ (q.lsn = tentative_lsn \/ q.lsn < tentative_lsn)
            /\ q.lsn \in Nat
        BY <2>3, <3>1
      <4> QED BY <2>3, <4>1
    <3> QED BY <3>1, <3>2, <3>3, <3>4
  <2>5. RecordsStamped'
    <3>1. Cmd.ts <= hlc
      BY <1>1, <2>1, <2>2 DEF StampedAfter
    <3> QED BY <1>1, <1>3, <2>1, <2>3, <3>1 DEF RecordsStamped
  <2>6. Elements(batch') \subseteq Elements(batch) /\ InOrder(batch')
    BY <1>10, <2>1
  <2>7. Before(batch', queue')
    BY <1>1, <2>1, <2>6 DEF Before
  <2>8. \A c \in Elements(batch') \cup Elements(queue') : c.op = "append" => Cmd.ts < c.ts
    <3>1. \A c \in Elements(batch') : c.op = "append" => Cmd.ts < c.ts
      BY <1>1, <1>2, <2>1, TailOrder DEF Cmd
    <3>2. \A c \in Elements(queue') : c.op = "append" => Cmd.ts < c.ts
      BY <1>1, <2>1, <2>2 DEF Before
    <3> QED BY <3>1, <3>2
  <2>9. StampedAfter(batch)' /\ StampedAfter(queue)'
    <3>1. ASSUME NEW c \in Elements(batch') \cup Elements(queue'), c.op = "append"
          PROVE  c.ts <= hlc' /\ \A r \in AllRecs(files') : r.ts < c.ts
      <4>1. c \in Elements(batch) \cup Elements(queue)
        BY <2>1, <2>6
      <4>2. c.ts <= hlc' /\ \A r \in AllRecs(files) : r.ts < c.ts
        BY <1>1, <2>1, <3>1, <4>1 DEF StampedAfter
      <4>3. Placed.ts < c.ts
        BY <2>3, <2>8, <3>1
      <4> QED BY <1>3, <4>2, <4>3
    <3> QED BY <3>1 DEF StampedAfter
  <2> QED BY <1>1, <2>1, <2>4, <2>5, <2>6, <2>7, <2>9 DEF StampInv, InOrder, Before
<1>13. CASE roll_seal \/ roll_create \/ fsync \/ publish \/ commit \/ ack
  <2>1. UNCHANGED <<queue, batch, hlc>> /\ Opened /\ pc' # "write"
    BY <1>13 DEF roll_seal, roll_create, fsync, publish, commit, ack, Opened
  <2>2. ~place
    BY <2>1 DEF place
  <2> QED BY <1>1, <1>2, <1>5, <2>1, <2>2
<1>14. ASSUME NEW p \in PhysClock, roll_header(p) \/ open_header(p)
       PROVE  StampInv'
  <2>1. /\ UNCHANGED <<queue, batch>> /\ hlc' = HlcNow(hlc, p) /\ pc' # "write"
        /\ Opened \/ pc = "open_header"
    BY <1>14 DEF roll_header, open_header, Opened
  <2>2. ~place /\ hlc' > hlc
    BY <1>2, <2>1, ClockMoves DEF place
  <2> QED BY <1>1, <1>2, <1>5, <2>1, <2>2
<1>15. ASSUME ~place, \A c \in Elements(batch') \cup Elements(queue') : FALSE,
              RecordsStamped'
       PROVE  StampInv'
  <2>1. StampedAfter(batch)' /\ StampedAfter(queue)' /\ Before(batch', queue')
    BY <1>15 DEF StampedAfter, Before
  <2>2. InOrder(batch') /\ InOrder(queue')
    BY <1>15 DEF InOrder, Elements
  <2> QED BY <1>4, <1>15, <2>1, <2>2 DEF StampInv, InOrder, Before
<1>16. CASE open
  <2>1. ~Serving /\ UNCHANGED <<batch, queue>> /\ ~place
    BY <1>16 DEF open, Serving, Opened, place
  <2>2. \A c \in Elements(batch') \cup Elements(queue') : FALSE
    BY <2>1 DEF CommandsSound, Carried
  <2>3. pc' # "refused" => \A r \in AllRecs(files) : r.ts <= hlc'
    BY <1>2, <1>16, OpenClock DEF DirInv
  <2>4. RecordsStamped'
    BY <1>3, <2>1, <2>3 DEF RecordsStamped, Opened
  <2> QED BY <1>15, <2>1, <2>2, <2>4
<1>17. CASE io_error \/ process_crash \/ power_loss
  <2>1. /\ batch' = <<>> /\ queue' = <<>>
        /\ pc' = "closed" \/ (hlc' = hlc /\ Opened)
        /\ pc' \in {"closed", "dead"}
    BY <1>17 DEF io_error, process_crash, power_loss, Restart, DropCalls, Opened, Writing
  <2>2. \A c \in Elements(batch') \cup Elements(queue') : FALSE
    BY <2>1, NoElements
  <2>3. ~place
    BY <2>1 DEF place
  <2>4. RecordsStamped'
    BY <1>1, <1>3, <2>1, <2>3 DEF RecordsStamped, Opened
  <2> QED BY <1>15, <2>2, <2>3, <2>4
<1>18. CASE UNCHANGED vars
  <2>1. UNCHANGED <<files, hlc, queue, batch, pc>>
    BY <1>18 DEF vars, worker
  <2> QED BY <1>1, <2>1 DEF StampInv, TsMonotone, RecordsStamped, Opened, InOrder, Before, StampedAfter
<1>19. ~\E c \in Clients, k \in DOMAIN Leader : append_replicated(c, k)
  OBVIOUS
<1>20. ASSUME NEW c \in Clients, send_timeout(c)
       PROVE  StampInv'
  <2>1. Serving /\ UNCHANGED <<batch, hlc, pc, files>>
    BY <1>20 DEF send_timeout, worker
  <2>2. Elements(queue') \subseteq Elements(queue) /\ InOrder(queue')
    BY <1>1, <1>2, <1>20, GivenUp DEF InOrder
  <2>3. ~place
    BY <1>20 DEF send_timeout, place, worker
  <2> QED BY <1>1, <1>2, <1>5, <2>1, <2>2, <2>3 DEF Serving
<1> QED BY <1>7, <1>8, <1>20, <1>9, <1>11, <1>12, <1>13, <1>14, <1>16, <1>17, <1>18, <1>19
        DEF Next, WorkerStep

\* Episodes that clients append are stamped in the order of their LSNs, across
\* rolls, failed batches and restarts with a wall clock that went back: they are
\* stamped and queued under one lock, and open sets the clock to the greatest
\* stamp it finds (lib.rs enqueue_append_inner, Hlc::observe in Log::open).
THEOREM StampsFollowLsns == Spec => []TsMonotone
<1> DEFINE Inv == HeadInv /\ DirInv /\ CommandsSound /\ StampInv
<1>1. Init => Inv
  BY InitHead, InitDir, InitCommands, InitStamps
<1>2. Inv /\ [Next]_vars => Inv'
  BY NextHead, NextDir, NextCommands, NextStamps
<1>3. Inv => TsMonotone
  BY DEF StampInv, TsMonotone
<1> QED BY <1>1, <1>2, <1>3, PTL DEF Spec
=============================================================================
