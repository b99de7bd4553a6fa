----------------------------- MODULE V6Segment -----------------------------
(***************************************************************************)
(* The two layouts of a v6 segment (heraclitus-log/src/v6: raw, block,     *)
(* block_directory, packed, footer, merkle, verify): one sequence of       *)
(* records written RAW, sealed, packed into blocks with restart points and *)
(* a directory, read back by LSN, by range and by threads that share one   *)
(* FileSource, proved against the root, and verified after one part of a   *)
(* file has gone bad.                                                      *)
(*                                                                         *)
(* A file is a sequence of tokens <<kind, ...>>, one unit long each, and a *)
(* CRC is a copy of what it covers.  Compression gives back what it was    *)
(* given, and a hash is an injective encoding as a sequence of numbers.    *)
(***************************************************************************)
EXTENDS Integers, Sequences, SequencesExt, FiniteSetsExt, TLC

CONSTANTS SgSizes,      \* payload sizes
          SgHlcs,       \* stamps of records
          SgGaps,       \* how far an LSN may skip past the one before
          SgTarget,     \* block_target, in units of one record header
          SgInterval,   \* restart_interval
          SgMaxRecords, \* bound: records in the segment
          SgMaxDamaged, \* bound: records in a segment that is damaged
          SgReaders     \* threads sharing one FileSource

VARIABLES sgRaw,     \* the RAW file
          sgPacked,  \* the PACKED file, <<>> until it is written
          sgWriter,  \* RawSegmentWriter
          sgRecs,    \* what was appended to it (history)
          sgBad,     \* [file |-> which, at |-> position] of the token gone bad
          sgPos,     \* the offset of the shared file descriptor
          sgReader   \* [thread -> where its get stands]
sgVars == <<sgRaw, sgPacked, sgWriter, sgRecs, sgBad, sgPos, sgReader>>

NoneBad == [file |-> "none", at |-> 0]
Kind(token) == token[1]
Rec(lsn, hlc, size) == [lsn |-> lsn, hlc |-> hlc, size |-> size]
-----------------------------------------------------------------------------
(* merkle.rs                                                               *)

merkle_leaf(r) == <<1, r.lsn, r.hlc, r.size>>
merkle_node(left, right) == <<2, Len(left)>> \o left \o right
seal_root(count, node) == <<3, count>> \o node
NoNode == <<0>>

\* MerkleAccumulatorV1: one pending subtree per height.
NewAccumulator == [levels |-> [h \in 1..(SgMaxRecords + 1) |-> NoNode], leaf_count |-> 0]
push_leaf(acc, leaf) ==
    LET free == Min({h \in DOMAIN acc.levels : acc.levels[h] = NoNode})
        carry == FoldLeft(LAMBDA c, pending : merkle_node(pending, c), leaf,
                          SubSeq(acc.levels, 1, free - 1))
    IN  [levels |-> [h \in DOMAIN acc.levels |->
                        IF h < free THEN NoNode ELSE IF h = free THEN carry ELSE acc.levels[h]],
         leaf_count |-> acc.leaf_count + 1]
finalize(acc) ==
    seal_root(acc.leaf_count,
              FoldLeft(LAMBDA c, node : IF node = NoNode THEN c
                                        ELSE IF c = NoNode THEN node ELSE merkle_node(node, c),
                       NoNode, acc.levels))
root_of(recs) == finalize(FoldLeft(LAMBDA acc, r : push_leaf(acc, merkle_leaf(r)), NewAccumulator, recs))

\* build_inclusion_proof: pairs are joined level by level, an odd last node is promoted.
Joined(level) ==
    [i \in 1..((Len(level) + 1) \div 2) |->
        IF 2 * i <= Len(level) THEN merkle_node(level[2 * i - 1], level[2 * i]) ELSE level[2 * i - 1]]
RECURSIVE ProofPath(_, _)
ProofPath(level, i) ==
    IF Len(level) = 1 THEN <<>>
    ELSE (IF i % 2 = 0 THEN <<[sibling |-> level[i - 1], sibling_is_left |-> TRUE]>>
          ELSE IF i < Len(level) THEN <<[sibling |-> level[i + 1], sibling_is_left |-> FALSE]>>
          ELSE <<>>) \o ProofPath(Joined(level), (i + 1) \div 2)
build_inclusion_proof(recs, i) ==
    [leaf_count |-> Len(recs),
     path |-> ProofPath([j \in DOMAIN recs |-> merkle_leaf(recs[j])], i)]
verify_inclusion_proof(r, proof, root) ==
    root = seal_root(proof.leaf_count,
                     FoldLeft(LAMBDA node, s : IF s.sibling_is_left THEN merkle_node(s.sibling, node)
                                               ELSE merkle_node(node, s.sibling),
                              merkle_leaf(r), proof.path))
-----------------------------------------------------------------------------
(* What both writers keep, and the footer they make of it.                 *)

NewWriter == [count |-> 0, lsns |-> {}, hlcs |-> {}, next |-> 0, contiguous |-> TRUE,
              acc |-> NewAccumulator]
Noted(w, r) ==
    [w EXCEPT !.count = @ + 1, !.lsns = @ \cup {r.lsn}, !.hlcs = @ \cup {r.hlc},
              !.contiguous = @ /\ r.lsn = w.next, !.next = r.lsn + 1,
              !.acc = push_leaf(@, merkle_leaf(r))]
Lowest(S) == IF S = {} THEN 0 ELSE Min(S)
Highest(S) == IF S = {} THEN 0 ELSE Max(S)
FooterOf(w, blocks, at) ==
    [record_count |-> w.count, min_lsn |-> Lowest(w.lsns), max_lsn |-> Highest(w.lsns),
     min_hlc |-> Lowest(w.hlcs), max_hlc |-> Highest(w.hlcs),
     contiguous |-> w.contiguous /\ w.count > 0,
     block_count |-> blocks, block_directory_offset |-> at, logical_root |-> finalize(w.acc)]
FooterToken(f) == <<"footer", f, f>>
HeaderToken(layout) == <<"header", layout, layout>>
Intact(token) == token[2] = token[3]

\* FooterV6::decode: magic, CRC and coherence.
FooterOk(token) ==
    /\ Kind(token) = "footer" /\ Intact(token)
    /\ token[2].record_count > 0 =>
          /\ token[2].min_lsn <= token[2].max_lsn /\ token[2].min_hlc <= token[2].max_hlc
          /\ token[2].max_lsn - token[2].min_lsn + 1 >= token[2].record_count
HeaderOk(file, layout) == Kind(file[1]) = "header" /\ Intact(file[1]) /\ file[1][2] = layout
-----------------------------------------------------------------------------
(* block.rs: the records of a block, with deltas between restart points.   *)

SparseLsn(recs) == \E i \in DOMAIN recs : recs[i].lsn # recs[1].lsn + i - 1
HlcAbsolute(recs) == \E i \in 2..Len(recs) : recs[i].hlc < recs[i - 1].hlc
IsRestart(ordinal) == ordinal % SgInterval = 0

\* A writer that keeps its deltas going across restart points.
RecordTokens_delta(recs, i) ==
    <<<<"meta", recs[i].size>>>>
    \o (IF ~SparseLsn(recs) THEN <<>>
        ELSE <<<<"lsn", IF i = 1 THEN recs[i].lsn ELSE recs[i].lsn - recs[i - 1].lsn>>>>)
    \o <<<<"hlc", IF HlcAbsolute(recs) \/ i = 1 THEN recs[i].hlc ELSE recs[i].hlc - recs[i - 1].hlc>>>>
    \o <<<<"payload", recs[i].size>>>>
RecordTokens(recs, i) ==
    <<<<"meta", recs[i].size>>>>
    \o (IF ~SparseLsn(recs) THEN <<>>
        ELSE <<<<"lsn", IF IsRestart(i - 1) THEN recs[i].lsn ELSE recs[i].lsn - recs[i - 1].lsn>>>>)
    \o <<<<"hlc", IF HlcAbsolute(recs) \/ IsRestart(i - 1) THEN recs[i].hlc
                  ELSE recs[i].hlc - recs[i - 1].hlc>>>>
    \o <<<<"payload", recs[i].size>>>>
Region(recs) == FlattenSeq([i \in DOMAIN recs |-> RecordTokens(recs, i)])
RestartTokens(recs) ==
    [k \in 1..((Len(recs) + SgInterval - 1) \div SgInterval) |->
        LET ordinal == (k - 1) * SgInterval
        IN  <<"restart", ordinal, ordinal * Len(RecordTokens(recs, 1)),
              recs[ordinal + 1].hlc, recs[ordinal + 1].lsn>>]

BlockTokens(header, stored) == <<<<"block", header, <<header, stored>>>>>> \o stored
Stored(recs) == Region(recs) \o RestartTokens(recs)
BlockOf(recs, stored) ==
    BlockTokens(
        [sparse |-> SparseLsn(recs), absolute |-> HlcAbsolute(recs),
         uncompressed_len |-> Len(stored), record_count |-> Len(recs),
         restart_count |-> Len(RestartTokens(recs)),
         first_lsn |-> recs[1].lsn, last_lsn |-> recs[Len(recs)].lsn,
         base_hlc |-> Min({recs[i].hlc : i \in DOMAIN recs}),
         max_hlc |-> Max({recs[i].hlc : i \in DOMAIN recs})],
        stored)
build_block(recs) == BlockOf(recs, Stored(recs))

\* RecordCursor::next_record, from a restart point to the end of the region.
RECURSIVE Decoded(_, _, _)
Decoded(h, body, c) ==
    IF c.ordinal >= h.record_count \/ c.pos >= h.uncompressed_len - h.restart_count THEN <<>>
    ELSE LET raw == SubSeq(body, c.pos + 1, c.pos + (IF h.sparse THEN 4 ELSE 3))
             lsn == IF ~h.sparse THEN h.first_lsn + c.ordinal
                    ELSE raw[2][2] + (IF IsRestart(c.ordinal) THEN 0 ELSE c.lsn)
             hlc == raw[Len(raw) - 1][2]
                    + (IF h.absolute \/ IsRestart(c.ordinal) THEN 0 ELSE c.hlc)
         IN  <<Rec(lsn, hlc, raw[Len(raw)][2])>>
             \o Decoded(h, body, [pos |-> c.pos + Len(raw), ordinal |-> c.ordinal + 1,
                                  lsn |-> lsn, hlc |-> hlc])
decode_block_records(h, body) == Decoded(h, body, [pos |-> 0, ordinal |-> 0, lsn |-> h.first_lsn, hlc |-> h.base_hlc])

\* find_record_in_block: from the restart before, at most one interval on.
read_restarts(h, body) == SubSeq(body, h.uncompressed_len - h.restart_count + 1, h.uncompressed_len)
find_record_in_block(h, body, lsn) ==
    LET restarts == read_restarts(h, body)
        index == IF h.sparse THEN Max({1} \cup {k \in DOMAIN restarts : restarts[k][5] <= lsn})
                 ELSE (lsn - h.first_lsn) \div SgInterval + 1
        from == restarts[index]
        near == Decoded(h, body, [pos |-> from[3], ordinal |-> from[2], lsn |-> from[5], hlc |-> from[4]])
        hits == {i \in 1..Min({SgInterval, Len(near)}) : near[i].lsn = lsn}
    IN  IF lsn < h.first_lsn \/ lsn > h.last_lsn \/ hits = {} THEN <<>> ELSE <<near[Min(hits)]>>
-----------------------------------------------------------------------------
(* PackedSegmentWriter: pending is the BlockBuilder, entries the directory.*)

Cost(r) == r.size + 1
Pending(w) == FoldLeft(LAMBDA n, r : n + Cost(r), 0, w.pending)
NewPacked == [noted |-> NewWriter, pending |-> <<>>, entries |-> <<>>, file |-> <<HeaderToken("packed")>>]
WithBlock(w, block) ==
    [w EXCEPT !.file = @ \o block, !.pending = <<>>,
              !.entries = Append(@, [offset |-> Len(w.file), stored_len |-> Len(block) - 1,
                                     uncompressed_len |-> block[1][2].uncompressed_len,
                                     record_count |-> block[1][2].record_count,
                                     first_lsn |-> block[1][2].first_lsn,
                                     last_lsn |-> block[1][2].last_lsn])]
flush_block(w) == IF w.pending = <<>> THEN w ELSE WithBlock(w, build_block(w.pending))
FlushIf(full, w) == IF full THEN flush_block(w) ELSE w
Pushed(w, r) == [w EXCEPT !.pending = Append(@, r), !.noted = Noted(@, r)]
FlushFull(w) == FlushIf(Pending(w) >= SgTarget, w)
packed_push(w, r) ==
    FlushFull(Pushed(FlushIf(w.pending # <<>> /\ Pending(w) + Cost(r) > SgTarget, w), r))
WithDirectory(w) ==
    w.file \o [i \in DOMAIN w.entries |-> <<"entry", w.entries[i]>>]
    \o <<FooterToken(FooterOf(w.noted, Len(w.entries), Len(w.file)))>>
packed_finish(w) == WithDirectory(flush_block(w))
PackedFile(recs) == packed_finish(FoldLeft(packed_push, NewPacked, recs))
-----------------------------------------------------------------------------
(* PackedSegmentReader: <<>> stands for an error.                          *)

Entries(file) == LET f == Last(file)[2]
                 IN  [i \in 1..f.block_count |-> file[f.block_directory_offset + i]]
\* BlockDirectory::decode.
DirectoryOk(entries, region_end) ==
    /\ \A i \in DOMAIN entries : Kind(entries[i]) = "entry"
    /\ \A i \in DOMAIN entries :
          LET e == entries[i][2]
          IN  /\ e.offset + e.stored_len <= region_end /\ e.first_lsn <= e.last_lsn
              /\ i > 1 => /\ e.offset >= entries[i - 1][2].offset + entries[i - 1][2].stored_len
                          /\ e.first_lsn >= entries[i - 1][2].first_lsn
open_packed(file) ==
    LET f == Last(file)[2]
    IN  /\ HeaderOk(file, "packed") /\ FooterOk(Last(file))
        /\ f.block_directory_offset + f.block_count <= Len(file) - 1
        /\ DirectoryOk(Entries(file), f.block_directory_offset)
        /\ f.record_count = FoldLeft(LAMBDA n, e : n + e[2].record_count, 0, Entries(file))

\* read_block, once the bytes are here: the CRC, then the directory's word.
Read(file, at, n) == SubSeq(file, at + 1, Min({at + n, Len(file)}))
BlockOk(bytes, e) ==
    /\ Len(bytes) = 1 + e.stored_len /\ Kind(bytes[1]) = "block"
    /\ bytes[1][3] = <<bytes[1][2], Tail(bytes)>>
    /\ \A field \in {"first_lsn", "last_lsn", "record_count", "uncompressed_len"} :
          bytes[1][2][field] = e[field]
BlockBytes(file, e) == Read(file, e.offset, 1 + e.stored_len)
BlocksOk(file) == \A i \in DOMAIN Entries(file) : BlockOk(BlockBytes(file, Entries(file)[i][2]), Entries(file)[i][2])

\* find_block_for_lsn: the first block that does not end before it.
find_block_for_lsn(entries, lsn) ==
    LET i == Min({Len(entries) + 1} \cup {j \in DOMAIN entries : entries[j][2].last_lsn >= lsn})
    IN  IF i <= Len(entries) /\ entries[i][2].first_lsn <= lsn THEN i ELSE 0
RecordsIn(bytes) == decode_block_records(bytes[1][2], Tail(bytes))
scan_lsn_range(file, lo, hi) ==
    LET chosen == SelectSeq(Entries(file), LAMBDA e : e[2].last_lsn >= lo /\ e[2].first_lsn <= hi)
    IN  SelectSeq(FlattenSeq([i \in DOMAIN chosen |-> RecordsIn(BlockBytes(file, chosen[i][2]))]),
                  LAMBDA r : r.lsn >= lo /\ r.lsn <= hi)
ScanAll(file) == FlattenSeq([i \in DOMAIN Entries(file) |-> RecordsIn(BlockBytes(file, Entries(file)[i][2]))])
-----------------------------------------------------------------------------
(* raw.rs and verify.rs                                                    *)

RecordToken(r) == <<"record", r, r>>
Sound(token) == Kind(token) = "record" /\ Intact(token)
StopAt(file) == Min({Len(file) + 1} \cup {i \in 2..Len(file) : ~Sound(file[i])})
RawRecords(file) == [i \in 1..(StopAt(file) - 2) |-> file[i + 1][2]]
Sealed(file) == StopAt(file) = Len(file) /\ FooterOk(Last(file))

validate_raw_footer(f, recs) ==
    LET Of(field) == {recs[i][field] : i \in DOMAIN recs}
    IN  /\ f.block_count = 0 /\ f.record_count = Len(recs)
        /\ f.min_lsn = Lowest(Of("lsn")) /\ f.max_lsn = Highest(Of("lsn"))
        /\ f.min_hlc = Lowest(Of("hlc")) /\ f.max_hlc = Highest(Of("hlc"))
        /\ f.contiguous => \A i \in 2..Len(recs) : recs[i].lsn = recs[i - 1].lsn + 1

\* scan_raw_bytes returns what it could read, unless there is a footer to contradict it.
ScanFails(file) ==
    \/ ~HeaderOk(file, "raw")
    \/ /\ StopAt(file) <= Len(file) /\ Kind(file[StopAt(file)]) = "footer"
       /\ ~(Sealed(file) /\ validate_raw_footer(Last(file)[2], RawRecords(file)))
DeclaredRoot(file) == IF Sealed(file) THEN Last(file)[2].logical_root ELSE NoNode

\* What a crash leaves after the last whole record: nothing, part of a record, part of a footer.
TornTails == {<<>>, <<<<"record", "part", "whole">>>>, <<<<"foot">>>>}
\* repair_active_tail looks for a footer at the end of the file before it trusts the scan.
Repairable_scan(file) == ~ScanFails(file) /\ ~Sealed(file)
Repairable(file) == Kind(Last(file)) # "footer" /\ ~ScanFails(file)
repair_active_tail(file) == SubSeq(file, 1, StopAt(file) - 1)
resume(file) == FoldLeft(Noted, NewWriter, RawRecords(file))

verify_raw(file, level) ==
    /\ ~ScanFails(file)
    /\ level = "logical" => root_of(RawRecords(file)) = DeclaredRoot(file)
verify_packed(file, level) ==
    /\ open_packed(file) /\ BlocksOk(file)
    /\ level = "logical" => /\ root_of(ScanAll(file)) = Last(file)[2].logical_root
                            /\ Len(ScanAll(file)) = Last(file)[2].record_count
verify_segment(file, level) ==
    IF HeaderOk(file, "packed") THEN verify_packed(file, level) ELSE verify_raw(file, level)

\* The proof of the record with an LSN, from either layout.
prove_lsn(file, lsn) ==
    LET recs == IF HeaderOk(file, "packed") THEN ScanAll(file) ELSE RawRecords(file)
    IN  {[record |-> recs[i], proof |-> build_inclusion_proof(recs, i)] :
            i \in {j \in DOMAIN recs : recs[j].lsn = lsn}}

\* pack_segment publishes nothing that does not reproduce the root.
Reproduces(raw, packed) ==
    /\ Last(packed)[2].logical_root = Last(raw)[2].logical_root
    /\ open_packed(packed) /\ BlocksOk(packed)
    /\ root_of(ScanAll(packed)) = Last(raw)[2].logical_root
Packable(raw) == ~ScanFails(raw) /\ Sealed(raw) /\ Reproduces(raw, PackedFile(RawRecords(raw)))
-----------------------------------------------------------------------------
IdleReader == [pc |-> "idle", lsn |-> 0, block |-> 0, failed |-> FALSE, found |-> <<>>]
SgInit ==
    /\ sgRaw = <<HeaderToken("raw")>> /\ sgWriter = NewWriter /\ sgRecs = <<>>
    /\ sgPacked = <<>> /\ sgBad = NoneBad /\ sgPos = 0
    /\ sgReader = [t \in SgReaders |-> IdleReader]

\* seal takes the writer away.
Writable == Kind(Last(sgRaw)) # "footer" /\ sgPacked = <<>>
SgAppend ==
    /\ Writable /\ Len(sgRecs) < SgMaxRecords
    /\ \E gap \in SgGaps, hlc \in SgHlcs, size \in SgSizes :
          LET r == Rec(sgWriter.next + gap, hlc, size)
          IN  /\ sgRaw' = Append(sgRaw, RecordToken(r)) /\ sgWriter' = Noted(sgWriter, r)
              /\ sgRecs' = Append(sgRecs, r)
    /\ UNCHANGED <<sgPacked, sgBad, sgPos, sgReader>>
SgSeal ==
    /\ Writable /\ sgRecs # <<>>
    /\ sgRaw' = Append(sgRaw, FooterToken(FooterOf(sgWriter, 0, 0)))
    /\ UNCHANGED <<sgPacked, sgWriter, sgRecs, sgBad, sgPos, sgReader>>
\* A crash keeps some of what was not synced; the writer is made again from the file.
SgCrash ==
    /\ Writable
    /\ \E kept \in 0..Len(sgRecs), tail \in TornTails :
          LET left == SubSeq(sgRaw, 1, kept + 1) \o tail
          IN  /\ Repairable(left) /\ sgRaw' = repair_active_tail(left)
              /\ sgWriter' = resume(sgRaw') /\ sgRecs' = SubSeq(sgRecs, 1, kept)
    /\ UNCHANGED <<sgPacked, sgBad, sgPos, sgReader>>
pack_segment_file ==
    /\ sgPacked = <<>> /\ sgBad = NoneBad /\ Packable(sgRaw)
    /\ sgPacked' = PackedFile(RawRecords(sgRaw))
    /\ UNCHANGED <<sgRaw, sgWriter, sgRecs, sgBad, sgPos, sgReader>>

\* One token of a finished file goes bad: one of its fields, or its magic.
Damaged(token) ==
    CASE Kind(token) \in {"meta", "lsn", "hlc", "payload"} -> {<<Kind(token), token[2] + 1>>}
      [] Kind(token) = "restart" -> {[token EXCEPT ![i] = @ + 1] : i \in 2..5}
      [] Kind(token) = "entry" -> {<<"entry", [token[2] EXCEPT ![f] = @ + 1]>> : f \in DOMAIN token[2]}
      [] Kind(token) = "header" -> {<<"header", "neither", token[3]>>}
      [] Kind(token) = "record" -> {<<"record", [token[2] EXCEPT ![f] = @ + 1], token[3]>> : f \in DOMAIN token[2]}
      [] Kind(token) = "block" -> {<<"block", [token[2] EXCEPT !.last_lsn = @ + 1], token[3]>>}
      [] Kind(token) = "footer" -> {<<"footer", [token[2] EXCEPT !.max_lsn = @ + 1], token[3]>>,
                                    <<"rotten", token[2], token[3]>>}
SgRot ==
    /\ sgPacked # <<>> /\ sgBad = NoneBad /\ Len(sgRecs) <= SgMaxDamaged
    /\ sgReader = [t \in SgReaders |-> IdleReader]
    /\ \/ \E i \in DOMAIN sgRaw : \E token \in Damaged(sgRaw[i]) :
             /\ sgRaw' = [sgRaw EXCEPT ![i] = token] /\ sgBad' = [file |-> "raw", at |-> i]
             /\ UNCHANGED sgPacked
       \/ \E i \in DOMAIN sgPacked : \E token \in Damaged(sgPacked[i]) :
             /\ sgPacked' = [sgPacked EXCEPT ![i] = token] /\ sgBad' = [file |-> "packed", at |-> i]
             /\ UNCHANGED sgRaw
    /\ UNCHANGED <<sgWriter, sgRecs, sgPos, sgReader>>

\* FileSource::read_at: a seek and a read of the descriptor the threads share.
SgSeek(t) ==
    /\ sgReader[t].pc = "idle" /\ sgPacked # <<>> /\ open_packed(sgPacked)
    /\ \E lsn \in 0..(sgWriter.next + 1) :
          LET entries == Entries(sgPacked)
              block == find_block_for_lsn(entries, lsn)
          IN  /\ sgReader' = [sgReader EXCEPT ![t] =
                     [IdleReader EXCEPT !.pc = IF block = 0 THEN "done" ELSE "read",
                                        !.lsn = lsn, !.block = block]]
              /\ sgPos' = IF block = 0 THEN sgPos ELSE entries[block][2].offset
    /\ UNCHANGED <<sgRaw, sgPacked, sgWriter, sgRecs, sgBad>>
SgReadExact(t) ==
    /\ sgReader[t].pc = "read"
    /\ LET e == Entries(sgPacked)[sgReader[t].block][2]
           bytes == Read(sgPacked, sgPos, 1 + e.stored_len)
       IN  /\ sgPos' = sgPos + Len(bytes)
           /\ sgReader' = [sgReader EXCEPT ![t].pc = "done", ![t].failed = ~BlockOk(bytes, e),
                 ![t].found = IF BlockOk(bytes, e)
                              THEN find_record_in_block(bytes[1][2], Tail(bytes), sgReader[t].lsn)
                              ELSE <<>>]
    /\ UNCHANGED <<sgRaw, sgPacked, sgWriter, sgRecs, sgBad>>

SgNext == SgAppend \/ SgSeal \/ SgCrash \/ pack_segment_file \/ SgRot
          \/ \E t \in SgReaders : SgSeek(t) \/ SgReadExact(t)
SgSpec == SgInit /\ [][SgNext]_sgVars
-----------------------------------------------------------------------------
Between(lo, hi) == SelectSeq(sgRecs, LAMBDA r : r.lsn >= lo /\ r.lsn <= hi)
Finished(t) == sgReader[t].pc = "done"

(***************************************************************************)
(* Packing changes nothing that can be read or proved (packed.rs, block.rs,*)
(* verify.rs): what was sealed, after any crashes, can be packed; then     *)
(* every point lookup, through restart points and deltas, and every range  *)
(* answers from the blocks what the records were; both files verify; a     *)
(* record's proof closes on the root, and no other record's does.          *)
(***************************************************************************)
SegmentExact ==
    /\ (sgPacked = <<>> /\ ~Writable) => Packable(sgRaw)
    /\ (sgPacked # <<>> /\ sgBad = NoneBad) =>
        /\ \A t \in SgReaders : Finished(t) => /\ ~sgReader[t].failed
                                              /\ sgReader[t].found = Between(sgReader[t].lsn, sgReader[t].lsn)
        /\ (\A t \in SgReaders : sgReader[t] = IdleReader) =>
           /\ \A lo \in 0..sgWriter.next : \A hi \in lo..sgWriter.next :
                 scan_lsn_range(sgPacked, lo, hi) = Between(lo, hi)
           /\ verify_segment(sgPacked, "logical") /\ verify_segment(sgRaw, "logical")
           /\ \A file \in {sgRaw, sgPacked} : \A lsn \in 0..sgWriter.next :
                 /\ {p.record : p \in prove_lsn(file, lsn)} = Range(Between(lsn, lsn))
                 /\ \A p \in prove_lsn(file, lsn) : \A j \in DOMAIN sgRecs :
                       verify_inclusion_proof(sgRecs[j], p.proof, Last(file)[2].logical_root) <=> sgRecs[j] = p.record

(***************************************************************************)
(* A file that went bad is found out (verify.rs levels, raw.rs:90 "in a    *)
(* sealed segment this is a hard failure"): the packed one by reading its  *)
(* blocks, the raw one by its root, which also keeps it from being packed. *)
(* A lookup gives the record or an error; the directory has no checksum,   *)
(* so when it is the directory that went bad a record may not be found. A  *)
(* repair of the tail loses no record of a sealed file (raw.rs:527).       *)
(***************************************************************************)
DamageFound ==
    /\ sgBad.file = "packed" =>
          /\ ~verify_segment(sgPacked, "physical")
          /\ \A t \in SgReaders : (Finished(t) /\ ~sgReader[t].failed) =>
                \/ sgReader[t].found = Between(sgReader[t].lsn, sgReader[t].lsn)
                \/ sgReader[t].found = <<>> /\ Kind(sgPacked[sgBad.at]) = "entry"
    /\ sgBad.file = "raw" =>
          /\ ~verify_segment(sgRaw, "logical") /\ ~Packable(sgRaw)
          /\ Repairable(sgRaw) => RawRecords(repair_active_tail(sgRaw)) = sgRecs

(***************************************************************************)
(* The physical level finds what went bad in a sealed RAW segment too: a   *)
(* complete footer that fails to decode is refused lest verify --physical  *)
(* say "ok" for an altered sealed segment (raw.rs:441).  It fails: a record*)
(* that fails its checksum ends the scan as a torn tail, and the segment is*)
(* taken for one that is still being written.                              *)
(***************************************************************************)
PhysicalFindsDamage == sgBad.file = "raw" => ~verify_segment(sgRaw, "physical")
=============================================================================
