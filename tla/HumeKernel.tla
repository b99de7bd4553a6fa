----------------------------- MODULE HumeKernel -----------------------------
(***************************************************************************)
(* hume-kernel and hume-sketches: the selection vector of a chunk, which   *)
(* changes its representation with the density of what it selects, the     *)
(* validity mask, the scratch arena, and the codecs, partitions and        *)
(* sketches computed from a column of integers.  A word has HkBits bits    *)
(* where the code has 64; the sizes of encoded columns are the real ones.  *)
(***************************************************************************)
EXTENDS Integers, Sequences, FiniteSets, FiniteSetsExt, SequencesExt

CONSTANTS HkBits,      \* bits of a word
          HkRows,      \* rows of a chunk
          HkIndex16,   \* INDEX16_MAX_DOMAIN
          HkMaxMask,   \* bound: rows of a mask, or of its complement
          HkValues,    \* values of a column
          HkMaxColumn, \* bound: values of a column
          HkArena,     \* <<address, bytes>> of an arena's buffer
          HkRequests   \* <<bytes, alignment>> asked of the arena

VARIABLES hkUse,      \* which of these objects the behaviour uses
          hkSel,      \* the selection of the chunk
          hkSelected, \* the rows it should select
          hkMask,     \* the validity mask
          hkNulls,    \* the rows that should be null
          hkColumn,   \* a column
          hkScratch   \* the arena: its mark and the regions handed out since the last reset
hkVars == <<hkUse, hkSel, hkSelected, hkMask, hkNulls, hkColumn, hkScratch>>

CeilDiv(m, n) == (m + n - 1) \div n
Total(S, Of(_)) == FoldSet(LAMBDA x, acc : acc + Of(x), 0, S)
-----------------------------------------------------------------------------
(* Selection vectors.  A word is the set of its bits; an index list is     *)
(* sorted.  Row i is bit i % HkBits of word i \div HkBits.                 *)

words_for(len) == CeilDiv(len, HkBits)
BitsOf(len, S) == [w \in 1..words_for(len) |-> {b \in 0..(HkBits - 1) : (w - 1) * HkBits + b \in S}]
RowsOf(words) == {(w - 1) * HkBits + b : w \in DOMAIN words, b \in 0..(HkBits - 1)}
Set(words) == {i \in RowsOf(words) : i % HkBits \in words[i \div HkBits + 1]}
Ascending(S) == [k \in 1..Cardinality(S) |-> CHOOSE x \in S : Cardinality({y \in S : y < x}) = k - 1]

clear_tail(words, len) ==
    IF len % HkBits = 0 THEN words
    ELSE [words EXCEPT ![Len(words)] = {b \in @ : b < len % HkBits}]

Bitmap(words) == [rep |-> "bitmap", words |-> words, list |-> <<>>]
Index(len, list) == [rep |-> IF len <= HkIndex16 THEN "index16" ELSE "index32", words |-> <<>>, list |-> list]
is_index(s) == s.rep # "bitmap"
selected(s) == IF is_index(s) THEN Len(s.list) ELSE Cardinality(Set(s.words))
to_indices(s) == IF is_index(s) THEN s.list ELSE Ascending(Set(s.words))
to_bitmap(len, s) == IF is_index(s) THEN BitsOf(len, Range(s.list)) ELSE s.words
\* A quarter of the rows or more is a bitmap.
Dense(len, n) == len # 0 /\ 4 * n >= len
optimized(len, s) == IF Dense(len, selected(s)) THEN Bitmap(to_bitmap(len, s)) ELSE Index(len, to_indices(s))
from_bitmap(len, words) == optimized(len, Bitmap(clear_tail(words, len)))
from_indices(len, S) == from_bitmap(len, BitsOf(len, S))
from_sorted_indices(len, list) == IF Dense(len, Len(list)) THEN Bitmap(BitsOf(len, Range(list))) ELSE Index(len, list)
SelectAll(len) == from_bitmap(len, clear_tail([w \in 1..words_for(len) |-> 0..(HkBits - 1)], len))

\* The merge of two sorted lists, from positions i and j on.
Merge(a, b) ==
    LET from[i \in 1..(Len(a) + 1), j \in 1..(Len(b) + 1)] ==
            IF i > Len(a) \/ j > Len(b) THEN <<>>
            ELSE IF a[i] < b[j] THEN from[i + 1, j]
            ELSE IF a[i] > b[j] THEN from[i, j + 1]
            ELSE <<a[i]>> \o from[i + 1, j + 1]
    IN  from[1, 1]
zip_words(len, s, t, Join(_, _)) ==
    LET a == to_bitmap(len, s)
        b == to_bitmap(len, t)
    IN  optimized(len, Bitmap(clear_tail([w \in DOMAIN a |-> Join(a[w], b[w])], len)))
and(len, s, t) == IF is_index(s) /\ is_index(t) THEN from_sorted_indices(len, Merge(s.list, t.list))
                  ELSE zip_words(len, s, t, LAMBDA x, y : x \cap y)
or(len, s, t) == zip_words(len, s, t, LAMBDA x, y : x \cup y)
not(len, s) == LET words == to_bitmap(len, s)
               IN  optimized(len, Bitmap(clear_tail([w \in DOMAIN words |-> (0..(HkBits - 1)) \ words[w]], len)))
-----------------------------------------------------------------------------
(* Validity: no bits at all until a row is null.                           *)

materialize(m) == IF m = <<>> THEN <<clear_tail([w \in 1..words_for(HkRows) |-> 0..(HkBits - 1)], HkRows)>> ELSE m
set_null(m, i) == <<[materialize(m)[1] EXCEPT ![i \div HkBits + 1] = @ \ {i % HkBits}]>>
set_valid(m, i) == <<[materialize(m)[1] EXCEPT ![i \div HkBits + 1] = @ \cup {i % HkBits}]>>
is_valid(m, i) == m = <<>> \/ i % HkBits \in m[1][i \div HkBits + 1]
null_count(m) == IF m = <<>> THEN 0 ELSE HkRows - Total(DOMAIN m[1], LAMBDA w : Cardinality(m[1][w]))
-----------------------------------------------------------------------------
(* Codecs.                                                                 *)

AsI64(n) == LET m == n % 2^HkBits IN IF m >= 2^(HkBits - 1) THEN m - 2^HkBits ELSE m
AsU64(n) == n % 2^HkBits

rle_encode(data) ==
    FoldLeft(LAMBDA runs, v : IF runs # <<>> /\ Last(runs)[1] = v
                              THEN [runs EXCEPT ![Len(runs)] = <<v, @[2] + 1>>] ELSE Append(runs, <<v, 1>>),
             <<>>, data)
rle_decode(runs) == FoldLeft(LAMBDA out, r : out \o [k \in 1..r[2] |-> r[1]], <<>>, runs)

\* Differences of the values as i64, wrapping.
delta_encode(data) == [i \in DOMAIN data |-> IF i = 1 THEN AsI64(data[1])
                                             ELSE AsI64(AsI64(data[i]) - AsI64(data[i - 1]))]
delta_decode(deltas) ==
    LET acc[i \in DOMAIN deltas] == IF i = 1 THEN deltas[1] ELSE AsI64(acc[i - 1] + deltas[i])
    IN  [i \in DOMAIN deltas |-> AsU64(acc[i])]

min_bits(max) == CHOOSE b \in 1..HkBits : max < 2^b /\ (b = 1 \/ max >= 2^(b - 1))
\* Value i takes bits bits from bit (i - 1) * bits on, and may end in the next word.
WordAt(i, bits) == ((i - 1) * bits) \div HkBits + 1
OffAt(i, bits) == ((i - 1) * bits) % HkBits
\* (mutant: only values that leave two bits or more to the next word do)
Spills_late(i, bits) == OffAt(i, bits) + bits > HkBits + 1
Spills(i, bits) == OffAt(i, bits) + bits > HkBits
WordsFor(n, bits) == CeilDiv(n * bits, HkBits)
pack(values, bits) ==
    LET Low(i) == (values[i] * 2^OffAt(i, bits)) % 2^HkBits
        High(i) == values[i] \div 2^(HkBits - OffAt(i, bits))
    IN  IF bits = HkBits THEN values
        ELSE [w \in 1..WordsFor(Len(values), bits) |->
                Total({i \in DOMAIN values : WordAt(i, bits) = w}, Low)
                + Total({i \in DOMAIN values : WordAt(i, bits) = w - 1 /\ Spills(i, bits)}, High)]
unpack(packed, bits, count) ==
    LET Low(i) == packed[WordAt(i, bits)] \div 2^OffAt(i, bits)
        High(i) == (packed[WordAt(i, bits) + 1] * 2^(HkBits - OffAt(i, bits))) % 2^HkBits
    IN  IF bits = HkBits THEN [i \in 1..count |-> packed[i]]
        ELSE [i \in 1..count |-> (Low(i) + IF Spills(i, bits) THEN High(i) ELSE 0) % 2^bits]

\* A blob is its fields, [bytes, val]: the tag, the number of values or of
\* runs, and then what the codec writes.
Field(bytes, val) == [bytes |-> bytes, val |-> val]
Words(ws) == [i \in DOMAIN ws |-> Field(8, ws[i])]
Bytes(blob) == Total(DOMAIN blob, LAMBDA i : blob[i].bytes)
Blob(codec, n, rest) == <<Field(1, codec), Field(8, n)>> \o rest
encode_raw(data) == Blob("Raw", Len(data), Words(data))
encode_rle(data) ==
    LET runs == rle_encode(data)
    IN  Blob("Rle", Len(runs), FlattenSeq([i \in DOMAIN runs |-> <<Field(8, runs[i][1]), Field(4, runs[i][2])>>]))
Packed(values) == LET bits == min_bits(Max(Range(values))) IN <<Field(1, bits)>> \o Words(pack(values, bits))
\* NoBlob where the codec does not apply.
NoBlob == <<>>
encode_delta_bitpack(data) ==
    LET deltas == delta_encode(data)
    IN  IF Len(data) < 2 \/ \E i \in 2..Len(data) : deltas[i] < 0 THEN NoBlob
        ELSE Blob("DeltaBitpack", Len(data), <<Field(8, data[1])>> \o Packed(Tail(deltas)))
encode_for_bitpack(data) ==
    LET min == Min(Range(data))
    IN  IF data = <<>> THEN NoBlob
        ELSE Blob("ForBitpack", Len(data), <<Field(8, min)>> \o Packed([i \in DOMAIN data |-> data[i] - min]))
\* The smallest, the first of equals.
encode_column(data) ==
    FoldLeft(LAMBDA best, blob : IF blob # NoBlob /\ Bytes(blob) < Bytes(best) THEN blob ELSE best,
             encode_raw(data), <<encode_rle(data), encode_delta_bitpack(data), encode_for_bitpack(data)>>)

None == <<"None">>
\* The fields of the blob that are there; a field cut short is not.
decode_column(blob) ==
    LET n == blob[2].val
        rest == SubSeq(blob, 3, Len(blob))
        bits == rest[2].val
        values == IF blob[1].val = "DeltaBitpack" THEN n - 1 ELSE n
        words == [i \in 1..(Len(rest) - 2) |-> rest[i + 2].val]
        got == unpack(words, bits, values)
    IN  IF Len(blob) < 2 THEN None
        ELSE CASE blob[1].val = "Raw" -> IF Len(rest) < n THEN None ELSE [i \in 1..n |-> rest[i].val]
               [] blob[1].val = "Rle" -> IF Len(rest) < 2 * n THEN None
                                         ELSE rle_decode([i \in 1..n |-> <<rest[2 * i - 1].val, rest[2 * i].val>>])
               [] OTHER -> IF Len(rest) < 2 \/ Len(words) < WordsFor(values, bits) THEN None
                           ELSE IF blob[1].val = "DeltaBitpack" THEN delta_decode(<<AsI64(rest[1].val)>> \o got)
                           ELSE [i \in 1..n |-> rest[1].val + got[i]]
-----------------------------------------------------------------------------
(* Top-k, radix partitions, sketches.                                      *)

Sorted(data, Before(_, _)) == SortSeq(data, Before)
\* The heap of the k largest so far, as a sorted list.
top_k_u64(data, k) ==
    LET Heap(heap) == Sorted(heap, <)
        heap == FoldLeft(LAMBDA h, v : IF Len(h) < k THEN Heap(Append(h, v))
                                       ELSE IF h # <<>> /\ v > h[1] THEN Heap(Append(Tail(h), v)) ELSE h,
                         <<>>, data)
    IN  Reverse(heap)

bucket_of(h, bits) == h \div 2^(HkBits - bits)
\* offsets[b] .. offsets[b + 1] - 1 are the places of bucket b; rows keep their order.
RadixBuild(hashes, bits) ==
    LET offset(b) == Cardinality({i \in DOMAIN hashes : bucket_of(hashes[i], bits) < b})
        place(i) == offset(bucket_of(hashes[i], bits))
                    + Cardinality({j \in 1..(i - 1) : bucket_of(hashes[j], bits) = bucket_of(hashes[i], bits)})
    IN  [offsets |-> [b \in 0..2^bits |-> offset(b)],
         indices |-> [p \in 1..Len(hashes) |-> CHOOSE i \in DOMAIN hashes : place(i) = p - 1]]
bucket(r, b) == SubSeq(r.indices, r.offsets[b] + 1, r.offsets[b + 1])

\* HyperLogLog: the top p bits choose a register, the position of the first 1 of the others its rank.
rank(h, p) == LET suffix == h % 2^(HkBits - p)
              IN  HkBits - p + 1 - IF suffix = 0 THEN 0 ELSE min_bits(suffix)
HllAdd(p, regs, h) == [regs EXCEPT ![h \div 2^(HkBits - p)] = Max({@, rank(h, p)})]
HllOf(p, data) == FoldLeft(LAMBDA regs, h : HllAdd(p, regs, h), [i \in 0..(2^p - 1) |-> 0], data)
merge(a, b) == [i \in DOMAIN a |-> Max({a[i], b[i]})]

\* CountMin: d counters of each key, one per row of w; any hash does.
slot(row, h, w) == (h \div row) % w
CountOf(d, w, data) ==
    FoldLeft(LAMBDA counts, h : [s \in DOMAIN counts |-> counts[s] + IF s[2] = slot(s[1], h, w) THEN 1 ELSE 0],
             [s \in (1..d) \X (0..(w - 1)) |-> 0], data)
estimate_hash(d, w, counts, h) == Min({counts[<<row, slot(row, h, w)>>] : row \in 1..d})
-----------------------------------------------------------------------------
HkInit ==
    /\ hkUse \in {"chunk", "mask", "column", "arena"}
    /\ hkSel = SelectAll(HkRows) /\ hkSelected = 0..(HkRows - 1)
    /\ hkMask = <<>> /\ hkNulls = {}
    /\ hkColumn = <<>>
    /\ hkScratch = [offset |-> 0, regions |-> {}]

Masks == {S \in SUBSET (0..(HkRows - 1)) : Cardinality(S) <= HkMaxMask}
Use(object) == hkUse = object /\ UNCHANGED hkUse
Chunk(sel, S) == hkSel' = sel /\ hkSelected' = S /\ UNCHANGED <<hkMask, hkNulls, hkColumn, hkScratch>>
\* DataChunk::refine.
refine == Use("chunk") /\ \E S \in Masks : Chunk(and(HkRows, hkSel, from_indices(HkRows, S)), hkSelected \cap S)
RefineNot == Use("chunk") /\ \E S \in Masks : Chunk(and(HkRows, hkSel, not(HkRows, from_indices(HkRows, S))), hkSelected \ S)
Unite == Use("chunk") /\ \E S \in Masks : Chunk(or(HkRows, hkSel, from_sorted_indices(HkRows, Ascending(S))), hkSelected \cup S)
Negate == Use("chunk") /\ Chunk(not(HkRows, hkSel), (0..(HkRows - 1)) \ hkSelected)

SetNull(i) == /\ Use("mask") /\ hkMask' = set_null(hkMask, i) /\ hkNulls' = hkNulls \cup {i}
              /\ UNCHANGED <<hkSel, hkSelected, hkColumn, hkScratch>>
SetValid(i) == /\ Use("mask") /\ hkMask' = set_valid(hkMask, i) /\ hkNulls' = hkNulls \ {i}
               /\ UNCHANGED <<hkSel, hkSelected, hkColumn, hkScratch>>

AddValue(v) == /\ Use("column") /\ Len(hkColumn) < HkMaxColumn
               /\ hkColumn' = Append(hkColumn, v)
               /\ UNCHANGED <<hkSel, hkSelected, hkMask, hkNulls, hkScratch>>

\* The mark is rounded up to the alignment, as an offset of the buffer.
alloc_bytes(n, align) ==
    LET start == CeilDiv(hkScratch.offset, align) * align
    IN  /\ Use("arena") /\ start + n <= HkArena[2]
        /\ hkScratch' = [offset |-> start + n,
                         regions |-> hkScratch.regions \cup {[from |-> HkArena[1] + start, bytes |-> n, align |-> align]}]
        /\ UNCHANGED <<hkSel, hkSelected, hkMask, hkNulls, hkColumn>>
reset == /\ Use("arena") /\ hkScratch' = [offset |-> 0, regions |-> {}]
         /\ UNCHANGED <<hkSel, hkSelected, hkMask, hkNulls, hkColumn>>

HkNext == \/ refine \/ RefineNot \/ Unite \/ Negate
          \/ (\E i \in 0..(HkRows - 1) : SetNull(i) \/ SetValid(i))
          \/ (\E v \in HkValues : AddValue(v))
          \/ (\E r \in HkRequests : alloc_bytes(r[1], r[2])) \/ reset
HkSpec == HkInit /\ [][HkNext]_hkVars
-----------------------------------------------------------------------------
\* The selection is the set, in the one representation its density calls for:
\* equal sets are equal vectors, whichever operations led there.
SelectionExact ==
    /\ Range(to_indices(hkSel)) = hkSelected
    /\ hkSel = from_sorted_indices(HkRows, Ascending(hkSelected))
MaskExact == /\ \A i \in 0..(HkRows - 1) : is_valid(hkMask, i) <=> i \notin hkNulls
             /\ null_count(hkMask) = Cardinality(hkNulls)
\* A column comes back from its blob, and from no part of it; no blob is larger than the raw one.
ColumnExact ==
    LET blob == encode_column(hkColumn)
    IN  /\ \A b \in {blob, encode_raw(hkColumn), encode_rle(hkColumn), encode_delta_bitpack(hkColumn),
                     encode_for_bitpack(hkColumn)} \ {NoBlob} :
               decode_column(b) = hkColumn /\ \A k \in 0..(Len(b) - 1) : decode_column(SubSeq(b, 1, k)) = None
        /\ Bytes(blob) <= Bytes(encode_raw(hkColumn))
\* The k largest; each row in its bucket, in order; a sketch of a column is the merge
\* of those of its halves; a count is never below the true one.
SketchesExact ==
    LET n == Len(hkColumn)
        Half(i, j) == SubSeq(hkColumn, i, j)
    IN  /\ \A k \in 0..n : top_k_u64(hkColumn, k) = SubSeq(Sorted(hkColumn, >), 1, k)
        /\ \A bits \in 1..2 :
               FlattenSeq([b \in 1..2^bits |-> bucket(RadixBuild(hkColumn, bits), b - 1)])
               = FlattenSeq([b \in 1..2^bits |-> Ascending({i \in 1..n : bucket_of(hkColumn[i], bits) = b - 1})])
        /\ \A m \in 0..n : merge(HllOf(1, Half(1, m)), HllOf(1, Half(m + 1, n))) = HllOf(1, hkColumn)
        /\ \A v \in HkValues : estimate_hash(2, 3, CountOf(2, 3, hkColumn), v)
                               >= Cardinality({i \in 1..n : hkColumn[i] = v})
\* Regions are aligned in memory, inside the buffer and apart from each other.
ArenaExact ==
    \A r \in hkScratch.regions :
        /\ r.from % r.align = 0
        /\ HkArena[1] <= r.from /\ r.from + r.bytes <= HkArena[1] + HkArena[2]
        /\ \A s \in hkScratch.regions : s # r => s.from + s.bytes <= r.from \/ r.from + r.bytes <= s.from
(* The kernel's data structures hold what was put in them, whichever       *)
(* representation, codec or word boundary it went through ("correta por    *)
(* construcao", selection.rs; "nunca pode expandir", compression.rs).      *)
KernelsExact == /\ SelectionExact /\ MaskExact /\ ArenaExact
                /\ hkUse = "column" => ColumnExact /\ SketchesExact
=============================================================================
