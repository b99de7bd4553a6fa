----------------------------- MODULE V6LogProofs -----------------------------
(***************************************************************************)
(* What the v6 engine keeps and what its readers get, for every value of    *)
(* its constants.  The invariant: every catalogue in use (of the engine,    *)
(* of the last manifest, of the one a failed commit goes back to) lists the *)
(* same chain of sealed segments, except perhaps the last, which is then a  *)
(* RAW file that a boot finds; each generation a catalogue names is a file  *)
(* with the records of its segment; and the active file goes on where the   *)
(* chain ends.                                                             *)
(***************************************************************************)
EXTENDS V6Log, NatLemmas

-----------------------------------------------------------------------------
(* The inductive invariant.                                                *)

V6Rec == [lsn : Nat, ts : Nat, id : Nat \ {0}]
V6Seg == [id : Nat, first : Nat, recs : Seq(V6Rec)]
V6State == {"active", "superseded", "quarantined"}
V6Gens == UNION {[S -> V6State] : S \in SUBSET Nat}
V6Desc == [id : Nat, first : Nat, last : Nat, root : Seq(V6Rec), active : Nat,
           hold : BOOLEAN, gens : V6Gens]
V6Ops == {"none", "append", "seal", "pack", "boot", "maint", "gc"}

\* The LSN after a segment, and after a chain of them.
After(s) == s.first + Len(s.recs)
EndOf(G) == IF G = <<>> THEN 0 ELSE After(G[Len(G)])
Numbered(recs, first) == \A k \in DOMAIN recs : recs[k].lsn = first + k - 1

V6Chain(G) ==
  /\ G \in Seq(V6Seg)
  /\ \A i \in DOMAIN G : G[i].recs # <<>> /\ Numbered(G[i].recs, G[i].first)
  /\ \A i \in DOMAIN G : G[i].first = IF i = 1 THEN 0 ELSE After(G[i - 1])
  /\ \A i, j \in DOMAIN G : i < j => G[i].id < G[j].id /\ After(G[i]) <= G[j].first
  /\ \A l \in 0..(EndOf(G) - 1) : \E i \in DOMAIN G : G[i].first <= l /\ l < After(G[i])

\* A descriptor is of a segment, a catalogue of a chain.
DescOk(d, s) ==
  /\ d.id = s.id /\ d.first = s.first /\ d.last = After(s) - 1 /\ d.root = s.recs
  /\ d.active \in DOMAIN d.gens /\ IsAuthority(d.gens[d.active]) /\ IsFiniteSet(DOMAIN d.gens)
CatOf(m, G) ==
  /\ m \in Seq(V6Desc) /\ Len(m) <= Len(G) /\ Len(G) <= Len(m) + 1
  /\ \A i \in DOMAIN m : DescOk(m[i], G[i])
\* The file of a generation is there, with those records.
InFile(r, p, id, g, recs) ==
  IF g = RAW_GENERATION THEN id \in DOMAIN r /\ r[id] = recs
  ELSE <<id, g>> \in DOMAIN p /\ p[<<id, g>>] = recs
HasFiles(m, r, p) ==
  \A i \in DOMAIN m :
    /\ \A g \in DOMAIN m[i].gens : InFile(r, p, m[i].id, g, m[i].root)
    /\ m[i].id \in DOMAIN r => RAW_GENERATION \in DOMAIN m[i].gens
\* A catalogue in use: what it leaves out is a RAW file that a boot finds.
V6Live(m, G, r, p, tail) ==
  /\ CatOf(m, G) /\ HasFiles(m, r, p)
  /\ Len(m) < Len(G) => G[Len(G)].id \in DOMAIN r /\ ~tail
Live(m, G) == V6Live(m, G, raw, packed, tail_file.exists)

\* An engine has the directory open.
V6Up == phase # "closed" /\ job.op \notin {"boot", "maint", "gc"}

\* The RAW files hold segments of the chain; CURRENT names a manifest there is.
RawOf(r, G) == \A s \in DOMAIN r : \E i \in DOMAIN G : G[i].id = s /\ r[s] = G[i].recs
ManifestsOk ==
  IsFiniteSet(Generations) /\ Generations \subseteq Nat \ {0} /\ current \in Generations \cup {0}

V6Files(G) ==
  /\ RawOf(raw, G) /\ IsFiniteSet(DOMAIN raw)
  /\ DOMAIN packed \subseteq Nat \X Nat /\ IsFiniteSet(DOMAIN packed)
  /\ ManifestsOk

\* An active file that goes on where the chain ends.
V6TailOk(f, G) ==
  /\ f \in [id : Nat, first : Nat, hdr : {TRUE}, recs : Seq(V6Rec \cup {Torn}), dur : Nat,
            foot : BOOLEAN, exists : {TRUE}]
  /\ \A i \in DOMAIN G : G[i].id < f.id
  /\ f.first = EndOf(G)
  /\ f.dur <= Len(Scan(f.recs)) /\ Numbered(Scan(f.recs), f.first)
  /\ f.foot => f.recs \in Seq(V6Rec) /\ f.recs # <<>> /\ f.dur = Len(f.recs)
V6Tail(G) ==
  IF ~tail_file.exists THEN tail_file = NoFile
  ELSE /\ V6TailOk(tail_file, G)
       /\ V6Up => tail_file.recs \in Seq(V6Rec) /\ writer.open
       /\ V6Up \/ job.op = "boot" => (tail_file.foot <=> phase = "rename")

V6Catalogues(G) ==
  /\ job.op # "gc" => Live(Load, G)
  /\ phase # "closed" => Live(man, G)
  /\ phase \in {"commit", "current"} /\ job.op # "gc" => Live(before, G)
  /\ phase = "current" => Generations # {} /\ manifests[Max(Generations)] = man
  /\ \/ phase \in {"commit", "current"} /\ job.op \in {"seal", "boot"}
     \/ phase \in {"activate", "create"}
     => Len(man) = Len(G)
  /\ phase \in {"activate", "create"} => Len(Load) = Len(G)

V6Stage ==
  \/ phase \in {"closed", "idle"} /\ job = NoJob
  \/ phase \in {"write", "sync"} /\ job.op \in {"append", "seal"} /\ job.for # {} /\ writer.open
  \/ phase = "footer" /\ job.op = "seal" /\ writer.open /\ writer.root # <<>>
  \/ phase = "rename" /\ job.op = "seal" /\ writer.open /\ writer.root # <<>>
  \/ phase \in {"commit", "current"} /\ job.op \in {"seal", "pack", "boot", "maint", "gc"}
  \/ phase = "pack" /\ job.op = "pack" /\ job.todo # <<>>
  \/ phase = "activate" /\ job.op = "boot"
  \/ phase = "create" /\ job.op \in {"seal", "boot"}

V6Work ==
  /\ job \in [op : V6Ops, for : SUBSET V6Appenders, todo : Seq(Nat)]
  /\ stamped \in [V6Appenders -> [id : Nat, ts : Nat]]
  /\ \A c \in V6Appenders : stamped[c] # Unstamped => stamped[c].id # 0
  /\ v6hlc \in Nat /\ next_lsn \in Nat /\ ids \in Nat
  /\ job.for = {} \/ \E c \in V6Appenders : job.for = {c} /\ stamped[c] # Unstamped
  /\ job.op \in {"boot", "maint", "gc"} => job.for = {}
  /\ V6Stage
  /\ job.op = "pack" => \A k \in DOMAIN job.todo : Catalogued(man, job.todo[k])

V6Writer(G) ==
  /\ writer.open => V6Up
  /\ writer.open => IF tail_file.exists THEN writer = WriterOf(tail_file) /\ phase # "create"
                    ELSE /\ phase = "create" /\ job.op = "seal" /\ writer.root = <<>>
                         /\ writer.id \in Nat /\ \A i \in DOMAIN G : G[i].id < writer.id
                         /\ writer.next = EndOf(G)
  /\ phase = "create" => ~tail_file.exists /\ next_lsn = EndOf(G)
  /\ writer.open => writer.next = IF phase = "sync" THEN next_lsn + 1 ELSE next_lsn
  /\ job.op = "seal" /\ phase \in {"commit", "current", "create"} /\ ~writer.open =>
       /\ next_lsn = EndOf(G) /\ ~tail_file.exists
       /\ writer.id \in Nat /\ \A i \in DOMAIN G : G[i].id <= writer.id
  /\ job.op = "seal" /\ phase \in {"commit", "current"} => ~writer.open
  /\ phase = "sync" => LET n == Len(tail_file.recs)
                       IN  /\ tail_file.recs # <<>>
                           /\ \E c \in V6Appenders : job.for = {c} /\ tail_file.recs[n].id = stamped[c].id

\* The episode is at its LSN in the chain, or among the first n of the tail.
InChain(G, a) == \E i \in DOMAIN G : \E k \in DOMAIN G[i].recs :
                   G[i].recs[k].lsn = a[1] /\ G[i].recs[k].id = a[2]
InTail(f, a, n) ==
  f.exists /\ \E k \in 1..n : f.recs[k].lsn = a[1] /\ f.recs[k].id = a[2]
V6Kept(G) ==
  /\ \A a \in v6promised : InChain(G, a) \/ InTail(tail_file, a, tail_file.dur)
  /\ \A a \in v6acked : InChain(G, a) \/ InTail(tail_file, a, Len(Scan(tail_file.recs)))

\* What the reader will open is what it chose, or gone.
V6Reader(G) ==
  reader # NoRead =>
    /\ V6Up /\ reader.lsn \in Nat
    /\ reader.kind = "active" =>
         /\ writer.open \/ (job.op = "seal" /\ phase \in {"commit", "current", "create"})
              => reader.seg <= writer.id
         /\ tail_file.exists /\ tail_file.id = reader.seg =>
              tail_file.first <= reader.lsn /\ reader.lsn < tail_file.first + Len(tail_file.recs)
         /\ writer.open /\ ~tail_file.exists => reader.seg < writer.id
         /\ reader.seg \in Nat
    /\ reader.kind # "active" =>
         \E i \in DOMAIN G :
           /\ G[i].id = reader.seg /\ InFile(raw, packed, reader.seg, reader.gen, G[i].recs)
           /\ G[i].first <= reader.lsn /\ reader.lsn < After(G[i])

V6Is(G) ==
  /\ V6Chain(G) /\ V6Files(G) /\ V6Tail(G) /\ V6Catalogues(G) /\ V6Work /\ V6Writer(G)
  /\ V6Kept(G) /\ V6Reader(G)
V6Inv == \E G : V6Is(G)

-----------------------------------------------------------------------------
(* Scans and chains.                                                       *)

LEMMA MaxNat ==
  ASSUME NEW S, S \subseteq Nat, S # {}, IsFiniteSet(S)
  PROVE  Max(S) \in S /\ \A y \in S : y <= Max(S)
<1>1. PICK x \in S : \A y \in S : y <= x
  BY FiniteMax
<1>2. \A y \in S : x >= y
  BY <1>1
<1>3. Max(S) \in S /\ \A y \in S : Max(S) >= y
  BY <1>2 DEF Max
<1> QED BY <1>3

\* A scan keeps what comes before the first bytes that are no record.
LEMMA ScanFacts ==
  ASSUME NEW items \in Seq(V6Rec \cup {Torn})
  PROVE  /\ Scan(items) \in Seq(V6Rec) /\ Len(Scan(items)) \in 0..Len(items)
         /\ \A k \in 1..Len(Scan(items)) : Scan(items)[k] = items[k]
         /\ \A n \in 0..Len(items) : (\A k \in 1..n : items[k] # Torn) => n <= Len(Scan(items))
<1> DEFINE Is(n) == /\ \A i \in 1..n : items[i] # Torn
                    /\ n < Len(items) => items[n + 1] = Torn
           T == {i \in 1..Len(items) : items[i] = Torn}
<1>1. Len(items) \in Nat /\ \A i \in 1..Len(items) : items[i] \in V6Rec \cup {Torn}
  BY LenProperties
<1>2. \E n \in 0..Len(items) : Is(n)
  <2>1. CASE T = {}
    <3>1. Len(items) \in 0..Len(items) /\ Is(Len(items))
      BY <2>1, <1>1
    <3> QED BY <3>1
  <2>2. CASE T # {}
    <3>1. T \subseteq Nat
      OBVIOUS
    <3> HIDE DEF T
    <3>2. PICK x \in T : \A y \in T : x <= y
      BY <2>2, <3>1, LeastNat
    <3>3. x \in 1..Len(items) /\ items[x] = Torn
      BY DEF T
    <3>4. \A i \in 1..(x - 1) : items[i] # Torn
      <4>1. \A i \in 1..(x - 1) : i \in 1..Len(items) /\ ~(x <= i)
        BY <3>3, <1>1
      <4> QED BY <4>1, <3>2 DEF T
    <3>5. x - 1 \in 0..Len(items) /\ Is(x - 1)
      BY <3>3, <3>4, <1>1
    <3> QED BY <3>5
  <2> QED BY <2>1, <2>2
<1> DEFINE n == CHOOSE n \in 0..Len(items) : Is(n)
<1>3. n \in 0..Len(items) /\ Is(n)
  BY <1>2
<1>4. Scan(items) = SubSeq(items, 1, n)
  BY DEF Scan
<1> HIDE DEF n
<1>5. /\ SubSeq(items, 1, n) \in Seq(V6Rec \cup {Torn}) /\ Len(SubSeq(items, 1, n)) = n
      /\ \A i \in 1..n : SubSeq(items, 1, n)[i] = items[i]
  BY <1>3, PrefixType
<1>6. \A i \in 1..n : items[i] \in V6Rec
  BY <1>1, <1>3
<1>7. Scan(items) \in Seq(V6Rec)
  <2> DEFINE t == SubSeq(items, 1, n)
  <2>1. t \in Seq(V6Rec \cup {Torn}) /\ Len(t) = n /\ \A i \in 1..n : t[i] \in V6Rec
    BY <1>5, <1>6
  <2> HIDE DEF t
  <2>2. t \in Seq(V6Rec)
    BY <2>1
  <2> QED BY <2>2, <1>4 DEF t
<1>8. ASSUME NEW m \in 0..Len(items), \A k \in 1..m : items[k] # Torn PROVE m <= n
  BY <1>1, <1>3, <1>8
<1> QED BY <1>3, <1>4, <1>5, <1>7, <1>8

LEMMA TornIsNone == Torn \notin V6Rec
  BY DEF Torn, V6Rec

LEMMA ScanWhole ==
  ASSUME NEW items \in Seq(V6Rec)
  PROVE  Scan(items) = items /\ Whole(items)
<1>1. /\ Len(items) \in Nat /\ DOMAIN items = 1..Len(items)
      /\ \A i \in 1..Len(items) : items[i] # Torn
  BY TornIsNone
<1>2. items \in Seq(V6Rec \cup {Torn})
  OBVIOUS
<1>3. Len(items) \in 0..Len(items)
  BY <1>1
<1>4. Len(Scan(items)) = Len(items)
  BY <1>1, <1>2, <1>3, ScanFacts
<1>5. Scan(items) = items
  <2>1. Scan(items) \in Seq(V6Rec) /\ \A k \in 1..Len(items) : Scan(items)[k] = items[k]
    BY <1>2, <1>4, ScanFacts
  <2> DEFINE t == Scan(items)
  <2>2. t \in Seq(V6Rec) /\ Len(t) = Len(items) /\ \A k \in 1..Len(items) : t[k] = items[k]
    BY <2>1, <1>4
  <2> HIDE DEF t
  <2>3. t = items
    BY <2>2
  <2> QED BY <2>3 DEF t
<1> QED BY <1>1, <1>5 DEF Whole

\* Chains.
LEMMA ChainFacts ==
  ASSUME NEW G, V6Chain(G)
  PROVE  /\ G \in Seq(V6Seg) /\ Len(G) \in Nat /\ DOMAIN G = 1..Len(G) /\ EndOf(G) \in Nat
         /\ \A i \in DOMAIN G : /\ G[i] \in V6Seg /\ G[i].id \in Nat /\ G[i].first \in Nat
                                /\ G[i].recs \in Seq(V6Rec) /\ Len(G[i].recs) \in Nat \ {0}
                                /\ DOMAIN G[i].recs = 1..Len(G[i].recs)
                                /\ After(G[i]) \in Nat /\ G[i].first < After(G[i])
                                /\ After(G[i]) <= EndOf(G)
<1>1. G \in Seq(V6Seg) /\ Len(G) \in Nat /\ DOMAIN G = 1..Len(G) /\ \A i \in DOMAIN G : G[i] \in V6Seg
  BY LenProperties DEF V6Chain
<1>2. ASSUME NEW i \in DOMAIN G
      PROVE /\ G[i].id \in Nat /\ G[i].first \in Nat
            /\ G[i].recs \in Seq(V6Rec) /\ Len(G[i].recs) \in Nat \ {0}
            /\ DOMAIN G[i].recs = 1..Len(G[i].recs)
  <2>1. G[i].id \in Nat /\ G[i].first \in Nat /\ G[i].recs \in Seq(V6Rec) /\ G[i].recs # <<>>
    BY <1>1 DEF V6Chain, V6Seg
  <2> QED BY <2>1
<1>3. \A i \in DOMAIN G : After(G[i]) \in Nat /\ G[i].first < After(G[i])
  BY <1>2 DEF After
<1>4. EndOf(G) \in Nat
  <2>1. CASE G = <<>>
    BY <2>1 DEF EndOf
  <2>2. CASE G # <<>>
    <3>1. Len(G) \in DOMAIN G
      BY <2>2, <1>1
    <3> QED BY <3>1, <2>2, <1>3 DEF EndOf
  <2> QED BY <2>1, <2>2
<1>5. ASSUME NEW i \in DOMAIN G PROVE After(G[i]) <= EndOf(G)
  <2>1. Len(G) \in DOMAIN G /\ G # <<>> /\ EndOf(G) = After(G[Len(G)])
    BY <1>1 DEF EndOf
  <2>2. CASE i = Len(G)
    BY <2>1, <2>2, <1>3
  <2>3. CASE i < Len(G)
    <3>1. After(G[i]) <= G[Len(G)].first
      BY <2>1, <2>3 DEF V6Chain
    <3> QED BY <3>1, <2>1, <1>2, <1>3
  <2> QED BY <2>2, <2>3, <1>1
<1> QED BY <1>1, <1>2, <1>3, <1>4, <1>5

\* A segment that begins where the chain ends makes it longer.
LEMMA ChainAppend ==
  ASSUME NEW G, V6Chain(G), NEW s \in V6Seg, s.recs # <<>>, Numbered(s.recs, s.first),
         s.first = EndOf(G), \A i \in DOMAIN G : G[i].id < s.id
  PROVE  /\ V6Chain(Append(G, s)) /\ EndOf(Append(G, s)) = After(s)
         /\ Len(Append(G, s)) = Len(G) + 1 /\ Append(G, s)[Len(G) + 1] = s
         /\ DOMAIN Append(G, s) = 1..(Len(G) + 1)
         /\ \A i \in DOMAIN G : i \in DOMAIN Append(G, s) /\ Append(G, s)[i] = G[i]
<1> DEFINE H == Append(G, s)
           n == Len(G)
<1>1. /\ G \in Seq(V6Seg) /\ n \in Nat /\ DOMAIN G = 1..n /\ EndOf(G) \in Nat
      /\ \A i \in DOMAIN G : /\ G[i].id \in Nat /\ G[i].first \in Nat /\ After(G[i]) \in Nat
                             /\ After(G[i]) <= EndOf(G)
  BY ChainFacts
<1>2. H \in Seq(V6Seg) /\ Len(H) = n + 1 /\ H[n + 1] = s /\ DOMAIN H = 1..(n + 1)
      /\ \A i \in 1..n : H[i] = G[i]
  BY <1>1
<1> HIDE DEF H
<1>3. s.id \in Nat /\ s.first \in Nat /\ s.recs \in Seq(V6Rec) /\ Len(s.recs) \in Nat /\ Len(s.recs) > 0
  BY LenProperties, EmptySeq DEF V6Seg
<1>4. After(s) \in Nat /\ s.first < After(s)
  BY <1>3 DEF After
<1>5. EndOf(H) = After(s)
  <2>1. H # <<>>
    BY <1>1, <1>2
  <2> QED BY <2>1, <1>2 DEF EndOf
<1>6. \A i \in DOMAIN H : \/ i \in DOMAIN G /\ H[i] = G[i]
                          \/ i = n + 1 /\ H[i] = s
  BY <1>1, <1>2
<1>7. \A i \in DOMAIN H : H[i].recs # <<>> /\ Numbered(H[i].recs, H[i].first)
  BY <1>6 DEF V6Chain
<1>8. ASSUME NEW i \in DOMAIN H PROVE H[i].first = IF i = 1 THEN 0 ELSE After(H[i - 1])
  <2>1. CASE i \in DOMAIN G
    <3>1. H[i] = G[i] /\ (i # 1 => H[i - 1] = G[i - 1])
      BY <1>1, <1>2, <2>1
    <3> QED BY <3>1, <2>1 DEF V6Chain
  <2>2. CASE i = n + 1 /\ G = <<>>
    <3>1. n = 0 /\ EndOf(G) = 0
      BY <2>2 DEF EndOf
    <3> QED BY <3>1, <2>2, <1>2
  <2>3. CASE i = n + 1 /\ G # <<>>
    <3>1. n \in 1..n /\ i - 1 = n /\ EndOf(G) = After(G[n])
      BY <2>3, <1>1 DEF EndOf
    <3> QED BY <3>1, <2>3, <1>2, <1>1
  <2> QED BY <2>1, <2>2, <2>3, <1>6
<1>9. ASSUME NEW i \in DOMAIN H, NEW j \in DOMAIN H, i < j
      PROVE  H[i].id < H[j].id /\ After(H[i]) <= H[j].first
  <2>1. i \in DOMAIN G /\ H[i] = G[i]
    BY <1>9, <1>1, <1>2
  <2>2. CASE j \in DOMAIN G /\ H[j] = G[j]
    BY <2>1, <2>2, <1>9 DEF V6Chain
  <2>3. CASE j = n + 1 /\ H[j] = s
    BY <2>1, <2>3, <1>1
  <2> QED BY <2>2, <2>3, <1>6
<1>10. ASSUME NEW l \in 0..(EndOf(H) - 1)
       PROVE  \E i \in DOMAIN H : H[i].first <= l /\ l < After(H[i])
  <2>1. CASE l < EndOf(G)
    <3>1. l \in 0..(EndOf(G) - 1)
      BY <2>1, <1>1
    <3>2. PICK i \in DOMAIN G : G[i].first <= l /\ l < After(G[i])
      BY <3>1 DEF V6Chain
    <3> QED BY <3>2, <1>1, <1>2
  <2>2. CASE ~(l < EndOf(G))
    <3>1. n + 1 \in DOMAIN H /\ s.first <= l /\ l < After(s)
      BY <2>2, <1>1, <1>2, <1>4, <1>5
    <3> QED BY <3>1, <1>2
  <2> QED BY <2>1, <2>2
<1>11. V6Chain(H)
  BY <1>2, <1>7, <1>8, <1>9, <1>10 DEF V6Chain
<1> QED BY <1>1, <1>2, <1>5, <1>11 DEF H

\* An LSN is in one segment, at one place, or behind the chain.
LEMMA ChainPlace ==
  ASSUME NEW G, V6Chain(G), NEW i \in DOMAIN G, NEW j \in DOMAIN G, NEW k \in DOMAIN G[j].recs,
         G[i].first <= G[j].recs[k].lsn, G[j].recs[k].lsn < After(G[i])
  PROVE  i = j /\ k = G[j].recs[k].lsn - G[i].first + 1
<1>1. /\ i \in Nat /\ j \in Nat /\ G[i].first \in Nat /\ G[j].first \in Nat
      /\ After(G[i]) \in Nat /\ After(G[j]) \in Nat /\ k \in 1..Len(G[j].recs)
      /\ Len(G[j].recs) \in Nat
  BY ChainFacts
<1>2. G[j].recs[k].lsn = G[j].first + k - 1
  BY DEF V6Chain, Numbered
<1>3. G[j].first <= G[j].recs[k].lsn /\ G[j].recs[k].lsn < After(G[j])
  BY <1>1, <1>2, SMTT(30) DEF After
<1>4. ~(i < j)
  <2>1. i < j => After(G[i]) <= G[j].first
    BY DEF V6Chain
  <2> QED BY <2>1, <1>1, <1>2, <1>3, SMTT(30)
<1>5. ~(j < i)
  <2>1. j < i => After(G[j]) <= G[i].first
    BY DEF V6Chain
  <2> QED BY <2>1, <1>1, <1>2, <1>3, SMTT(30)
<1>6. i = j
  BY <1>1, <1>4, <1>5
<1> QED BY <1>1, <1>2, <1>6

-----------------------------------------------------------------------------
(* Catalogues of a chain.                                                  *)

\* The descriptors of a catalogue are those of the chain, by increasing id.
LEMMA DescFacts ==
  ASSUME NEW d \in V6Desc
  PROVE  /\ d.id \in Nat /\ d.first \in Nat /\ d.last \in Nat /\ d.root \in Seq(V6Rec)
         /\ d.active \in Nat /\ d.hold \in BOOLEAN /\ d.gens \in V6Gens
         /\ DOMAIN d.gens \subseteq Nat /\ \A g \in DOMAIN d.gens : d.gens[g] \in V6State
<1>1. /\ d.id \in Nat /\ d.first \in Nat /\ d.last \in Nat /\ d.root \in Seq(V6Rec)
      /\ d.active \in Nat /\ d.hold \in BOOLEAN /\ d.gens \in V6Gens
  BY DEF V6Desc
<1>2. PICK S \in SUBSET Nat : d.gens \in [S -> V6State]
  BY <1>1 DEF V6Gens
<1> QED BY <1>1, <1>2

LEMMA GensType ==
  ASSUME NEW S \in SUBSET Nat, NEW f \in [S -> V6State]
  PROVE  f \in V6Gens
  BY DEF V6Gens

LEMMA CatFacts ==
  ASSUME NEW G, V6Chain(G), NEW m, CatOf(m, G)
  PROVE  /\ m \in Seq(V6Desc) /\ Len(m) \in Nat /\ DOMAIN m = 1..Len(m) /\ Len(m) <= Len(G)
         /\ DOMAIN m \subseteq DOMAIN G
         /\ \A i \in DOMAIN m : m[i] \in V6Desc /\ m[i].id \in Nat /\ DescOk(m[i], G[i])
         /\ \A i, j \in DOMAIN m : (m[i].id = m[j].id => i = j) /\ (i < j => m[i].id < m[j].id)
         /\ \A i \in DOMAIN m : DescOf(m, m[i].id) = m[i] /\ Catalogued(m, m[i].id)
<1>1. /\ m \in Seq(V6Desc) /\ Len(m) \in Nat /\ DOMAIN m = 1..Len(m) /\ Len(m) <= Len(G)
      /\ \A i \in DOMAIN m : m[i] \in V6Desc /\ DescOk(m[i], G[i])
  BY LenProperties DEF CatOf
<1>2. DOMAIN m \subseteq DOMAIN G
  BY <1>1, ChainFacts
<1>3. \A i \in DOMAIN m : m[i].id = G[i].id /\ G[i].id \in Nat
  BY <1>1, <1>2, ChainFacts DEF DescOk
<1>4. ASSUME NEW i \in DOMAIN m, NEW j \in DOMAIN m
      PROVE (i < j => m[i].id < m[j].id)
  BY <1>2, <1>3 DEF V6Chain
<1>5. ASSUME NEW i \in DOMAIN m, NEW j \in DOMAIN m, m[i].id = m[j].id
      PROVE i = j
  <2>1. i \in Nat /\ j \in Nat /\ m[i].id \in Nat /\ m[j].id \in Nat
    BY <1>1, <1>3
  <2>2. ~(i < j) /\ ~(j < i)
    BY <1>4, <1>5, <2>1
  <2> QED BY <2>1, <2>2
<1>6. \A i \in DOMAIN m : DescOf(m, m[i].id) = m[i] /\ Catalogued(m, m[i].id)
  BY <1>5 DEF DescOf, Catalogued
<1> QED BY <1>1, <1>2, <1>3, <1>4, <1>5, <1>6

\* A catalogue of the same segments.
LEMMA CatSame ==
  ASSUME NEW G, NEW m, CatOf(m, G), NEW n \in Seq(V6Desc), Len(n) = Len(m),
         \A i \in DOMAIN n : DescOk(n[i], G[i])
  PROVE  CatOf(n, G)
  BY DEF CatOf

\* upsert_segment of the segment the catalogue leaves out.
LEMMA UpsertNew ==
  ASSUME NEW G, V6Chain(G), NEW m, CatOf(m, G), Len(m) < Len(G),
         NEW d \in V6Desc, DescOk(d, G[Len(G)])
  PROVE  /\ Upsert(m, d) = Append(m, d) /\ CatOf(Append(m, d), G)
         /\ Len(Append(m, d)) = Len(G) /\ DOMAIN Append(m, d) = 1..Len(G)
         /\ ~Catalogued(m, d.id)
         /\ \A i \in DOMAIN Append(m, d) : \/ i \in DOMAIN m /\ Append(m, d)[i] = m[i]
                                           \/ i = Len(G) /\ Append(m, d)[i] = d
<1> DEFINE n == Len(m)
<1>1. /\ m \in Seq(V6Desc) /\ n \in Nat /\ DOMAIN m = 1..n /\ DOMAIN m \subseteq DOMAIN G
      /\ \A i \in DOMAIN m : m[i] \in V6Desc /\ DescOk(m[i], G[i])
  BY CatFacts
<1>2. Len(G) = n + 1 /\ Len(G) \in DOMAIN G /\ DOMAIN G = 1..Len(G)
  BY <1>1, ChainFacts DEF CatOf
<1>3. \A i \in DOMAIN m : /\ m[i].id = G[i].id /\ m[i].first = G[i].first
                          /\ G[i].id < G[Len(G)].id /\ G[i].first < G[Len(G)].first
                          /\ G[i].id \in Nat /\ G[i].first \in Nat
  <2> TAKE i \in DOMAIN m
  <2>1. i < Len(G) /\ i \in DOMAIN G
    BY <1>1, <1>2
  <2>2. G[i].id < G[Len(G)].id /\ After(G[i]) <= G[Len(G)].first
    BY <2>1, <1>2 DEF V6Chain
  <2>3. /\ G[i].first \in Nat /\ After(G[i]) \in Nat /\ G[i].first < After(G[i])
        /\ G[Len(G)].first \in Nat /\ G[i].id \in Nat
    BY <2>1, <1>2, ChainFacts
  <2>4. m[i].id = G[i].id /\ m[i].first = G[i].first
    BY <1>1 DEF DescOk
  <2> QED BY <2>2, <2>3, <2>4
<1>4. d.id = G[Len(G)].id /\ d.first = G[Len(G)].first /\ d.id \in Nat /\ d.first \in Nat
  BY <1>2, ChainFacts DEF DescOk
<1>5. ~Catalogued(m, d.id)
  BY <1>3, <1>4 DEF Catalogued
<1>6. Cardinality({i \in DOMAIN m : m[i].first < d.first}) = n
  <2>1. {i \in DOMAIN m : m[i].first < d.first} = 1..n
    BY <1>1, <1>3, <1>4
  <2> QED BY <2>1, <1>1, IntervalCardinality
<1>7. Upsert(m, d) = SubSeq(m, 1, n) \o <<d>> \o SubSeq(m, n + 1, n)
  BY <1>5, <1>6 DEF Upsert
<1>8. SubSeq(m, 1, n) \o <<d>> \o SubSeq(m, n + 1, n) = Append(m, d)
  <2>1. SubSeq(m, 1, n) = m
    BY <1>1
  <2>2. SubSeq(m, n + 1, n) = <<>>
    BY <1>1
  <2>3. m \o <<d>> \o <<>> = Append(m, d)
    BY <1>1
  <2> QED BY <2>1, <2>2, <2>3
<1>9. /\ Append(m, d) \in Seq(V6Desc) /\ Len(Append(m, d)) = n + 1
      /\ DOMAIN Append(m, d) = 1..(n + 1) /\ Append(m, d)[n + 1] = d
      /\ \A i \in 1..n : Append(m, d)[i] = m[i]
  BY <1>1
<1> DEFINE t == Append(m, d)
<1> HIDE DEF t
<1>10. \A i \in 1..(n + 1) : \/ i \in DOMAIN m /\ t[i] = m[i]
                             \/ i = n + 1 /\ t[i] = d
  BY <1>1, <1>9 DEF t
<1>11. \A i \in 1..(n + 1) : DescOk(t[i], G[i])
  BY <1>1, <1>2, <1>10
<1>12. CatOf(t, G)
  BY <1>2, <1>9, <1>11, <1>1 DEF CatOf, t
<1> QED BY <1>2, <1>5, <1>7, <1>8, <1>9, <1>10, <1>12 DEF t

\* A catalogue with one descriptor changed.
Edited(m, i, d) == [m EXCEPT ![i] = d]

LEMMA EditedFacts ==
  ASSUME NEW m \in Seq(V6Desc), NEW i \in DOMAIN m, NEW d \in V6Desc
  PROVE  /\ Edited(m, i, d) \in Seq(V6Desc) /\ Len(Edited(m, i, d)) = Len(m)
         /\ \A j \in DOMAIN m : Edited(m, i, d)[j] = IF j = i THEN d ELSE m[j]
         /\ DOMAIN Edited(m, i, d) = DOMAIN m
  BY DEF Edited

\* upsert_segment of a segment it has.
LEMMA UpsertKnown ==
  ASSUME NEW G, V6Chain(G), NEW m, CatOf(m, G), NEW i \in DOMAIN m,
         NEW d \in V6Desc, DescOk(d, G[i])
  PROVE  Upsert(m, d) = Edited(m, i, d) /\ CatOf(Edited(m, i, d), G)
<1>1. /\ m \in Seq(V6Desc) /\ Len(m) \in Nat /\ DOMAIN m = 1..Len(m) /\ DOMAIN m \subseteq DOMAIN G
      /\ \A j \in DOMAIN m : m[j] \in V6Desc /\ DescOk(m[j], G[j]) /\ Catalogued(m, m[j].id)
      /\ \A j \in DOMAIN m : m[j].id = m[i].id => i = j
  BY CatFacts
<1>2. d.id = m[i].id
  BY <1>1 DEF DescOk
<1>3. Upsert(m, d) = [j \in DOMAIN m |-> IF m[j].id = d.id THEN d ELSE m[j]]
  BY <1>1, <1>2 DEF Upsert
<1>4. Upsert(m, d) = Edited(m, i, d)
  BY <1>1, <1>2, <1>3 DEF Edited
<1>5. /\ Edited(m, i, d) \in Seq(V6Desc) /\ Len(Edited(m, i, d)) = Len(m)
      /\ \A j \in DOMAIN m : Edited(m, i, d)[j] = IF j = i THEN d ELSE m[j]
      /\ DOMAIN Edited(m, i, d) = DOMAIN m
  BY <1>1, EditedFacts
<1>6. \A j \in DOMAIN m : DescOk(Edited(m, i, d)[j], G[j])
  BY <1>1, <1>5
<1>7. CatOf(Edited(m, i, d), G)
  BY <1>5, <1>6, CatSame
<1> QED BY <1>4, <1>7

\* The descriptor of a sealed segment.
LEMMA DescIs ==
  ASSUME NEW s \in V6Seg, s.recs # <<>>, Numbered(s.recs, s.first)
  PROVE  /\ Desc(s.id, s.recs) \in V6Desc /\ DescOk(Desc(s.id, s.recs), s)
         /\ DOMAIN Desc(s.id, s.recs).gens = {RAW_GENERATION}
         /\ Desc(s.id, s.recs).id = s.id /\ Desc(s.id, s.recs).root = s.recs
<1> DEFINE d == Desc(s.id, s.recs)
           n == Len(s.recs)
<1>1. /\ s.id \in Nat /\ s.first \in Nat /\ s.recs \in Seq(V6Rec) /\ n \in Nat \ {0}
      /\ DOMAIN s.recs = 1..n
  <2>1. s.id \in Nat /\ s.first \in Nat /\ s.recs \in Seq(V6Rec)
    BY DEF V6Seg
  <2> QED BY <2>1
<1>2. s.recs[1].lsn = s.first /\ s.recs[n].lsn = s.first + n - 1
  <2>1. 1 \in DOMAIN s.recs /\ n \in DOMAIN s.recs
    BY <1>1
  <2>2. s.recs[1].lsn = s.first + 1 - 1 /\ s.recs[n].lsn = s.first + n - 1
    BY <2>1 DEF Numbered
  <2> QED BY <2>2, <1>1
<1> DEFINE gens == [g \in {RAW_GENERATION} |-> "active"]
<1>3. gens \in V6Gens /\ DOMAIN gens = {0} /\ gens[0] = "active"
  <2>1. {RAW_GENERATION} \in SUBSET Nat /\ gens \in [{RAW_GENERATION} -> V6State]
    BY DEF RAW_GENERATION, V6State
  <2>2. gens \in V6Gens
    BY <2>1, GensType
  <2> QED BY <2>2 DEF RAW_GENERATION
<1>4. d = [id |-> s.id, first |-> s.first, last |-> s.first + n - 1, root |-> s.recs,
           active |-> 0, hold |-> FALSE, gens |-> gens]
  BY <1>2 DEF Desc, RAW_GENERATION
<1> HIDE DEF gens, d
<1>5. s.first + n - 1 \in Nat /\ After(s) - 1 = s.first + n - 1
  BY <1>1 DEF After
<1>6. IsFiniteSet({0})
  BY FS_Singleton
<1>7. d \in V6Desc
  BY <1>1, <1>3, <1>4, <1>5 DEF V6Desc
<1>8. DescOk(d, s)
  BY <1>3, <1>4, <1>5, <1>6 DEF DescOk, IsAuthority
<1> QED BY <1>3, <1>4, <1>7, <1>8 DEF d, RAW_GENERATION

\* A catalogue of a chain is valid, and ends where the chain does if it lists it all.
LEMMA CatRanges ==
  ASSUME NEW G, V6Chain(G), NEW m, CatOf(m, G)
  PROVE  /\ RangesValid(m)
         /\ Len(m) = Len(G) => NextLsnOf(m) = EndOf(G)
<1>1. /\ m \in Seq(V6Desc) /\ Len(m) \in Nat /\ DOMAIN m = 1..Len(m) /\ DOMAIN m \subseteq DOMAIN G
      /\ \A j \in DOMAIN m : DescOk(m[j], G[j])
      /\ \A i, j \in DOMAIN m : m[i].id = m[j].id => i = j
  BY CatFacts
<1>2. \A i \in DOMAIN m : m[i].first = G[i].first /\ m[i].last + 1 = After(G[i])
  <2> TAKE i \in DOMAIN m
  <2>1. After(G[i]) \in Nat
    BY <1>1, ChainFacts
  <2>2. m[i].first = G[i].first /\ m[i].last = After(G[i]) - 1
    BY <1>1 DEF DescOk
  <2> QED BY <2>1, <2>2
<1>3. ASSUME NEW i \in DOMAIN m PROVE m[i].first = IF i = 1 THEN 0 ELSE m[i - 1].last + 1
  <2>1. G[i].first = IF i = 1 THEN 0 ELSE After(G[i - 1])
    BY <1>1 DEF V6Chain
  <2>2. i # 1 => i - 1 \in DOMAIN m
    BY <1>1
  <2> QED BY <2>1, <2>2, <1>2
<1>4. ASSUME Len(m) = Len(G) PROVE NextLsnOf(m) = EndOf(G)
  <2>1. CASE m = <<>>
    <3>1. Len(G) = 0
      BY <2>1, <1>4
    <3>2. G = <<>>
      BY <3>1, ChainFacts
    <3> QED BY <3>2, <2>1 DEF NextLsnOf, EndOf
  <2>2. CASE m # <<>>
    <3>1. Len(m) \in DOMAIN m /\ G # <<>>
      BY <2>2, <1>1, <1>4
    <3> QED BY <3>1, <2>2, <1>2, <1>4 DEF NextLsnOf, EndOf
  <2> QED BY <2>1, <2>2
<1> QED BY <1>1, <1>3, <1>4 DEF RangesValid

\* next_segment goes beyond every id of the chain.
LEMMA NextSegmentFresh ==
  ASSUME NEW G, V6Chain(G), NEW m, CatOf(m, G), Len(m) = Len(G)
  PROVE  NextSegment(m) \in Nat /\ \A i \in DOMAIN G : G[i].id < NextSegment(m)
<1>1. /\ m \in Seq(V6Desc) /\ Len(m) \in Nat /\ DOMAIN m = 1..Len(m) /\ DOMAIN m = DOMAIN G
      /\ \A j \in DOMAIN m : m[j].id = G[j].id /\ m[j].id \in Nat
  BY CatFacts, ChainFacts DEF DescOk
<1>2. CASE m = <<>>
  BY <1>1, <1>2 DEF NextSegment
<1>3. CASE m # <<>>
  <2> DEFINE S == {m[i].id : i \in DOMAIN m}
             f == [i \in 1..Len(m) |-> m[i].id]
  <2>1. S \subseteq Nat /\ S # {}
    BY <1>1, <1>3
  <2>2. IsFiniteSet({f[i] : i \in 1..Len(m)})
    <3>1. DOMAIN f = 1..Len(m) /\ f = [i \in DOMAIN f |-> f[i]]
      OBVIOUS
    <3> HIDE DEF f
    <3> QED BY <3>1, <1>1, FiniteRange
  <2>3. {f[i] : i \in 1..Len(m)} = S
    BY <1>1
  <2>4. \A i \in DOMAIN m : m[i].id \in S
    OBVIOUS
  <2>5. NextSegment(m) = 1 + Max(S)
    BY <1>3 DEF NextSegment
  <2> HIDE DEF S, f
  <2>6. Max(S) \in S /\ \A y \in S : y <= Max(S)
    BY <2>1, <2>2, <2>3, MaxNat
  <2>7. Max(S) \in Nat
    BY <2>1, <2>6
  <2>8. \A i \in DOMAIN G : G[i].id <= Max(S) /\ G[i].id \in Nat
    BY <2>4, <2>6, <1>1
  <2> QED BY <2>5, <2>7, <2>8
<1> QED BY <1>2, <1>3

-----------------------------------------------------------------------------
(* Packed generations, and catalogues in use when a file comes or goes.    *)

LEMMA PutFacts ==
  ASSUME NEW f, NEW x, NEW y
  PROVE  /\ DOMAIN Put(f, x, y) = DOMAIN f \cup {x} /\ Put(f, x, y)[x] = y
         /\ \A z \in DOMAIN f : z # x => Put(f, x, y)[z] = f[z]
  BY DEF Put

\* The seconds of a finite set of pairs.
LEMMA SecondsFinite ==
  ASSUME NEW S, IsFiniteSet(S)
  PROVE  IsFiniteSet({k[2] : k \in S})
<1> DEFINE f == [k \in S |-> k[2]]
<1>1. f \in Surjection(S, {k[2] : k \in S})
  BY DEF Surjection
<1> QED BY <1>1, FS_Surjection

\* A new generation has a number that neither the catalogue nor the directory knows.
LEMMA NextGenFresh ==
  ASSUME NEW d \in V6Desc, IsFiniteSet(DOMAIN d.gens),
         DOMAIN packed \subseteq Nat \X Nat, IsFiniteSet(DOMAIN packed), DOMAIN d.gens # {}
  PROVE  /\ next_physical_generation(d) \in Nat \ {0}
         /\ next_physical_generation(d) \notin DOMAIN d.gens
         /\ <<d.id, next_physical_generation(d)>> \notin DOMAIN packed
<1> DEFINE P == {k \in DOMAIN packed : k[1] = d.id}
           Q == {k[2] : k \in P}
           S == DOMAIN d.gens \cup Q
<1>1. next_physical_generation(d) = 1 + Max(S)
  BY DEF next_physical_generation
<1>2. IsFiniteSet(P)
  BY FS_Subset
<1>3. Q \subseteq Nat
  OBVIOUS
<1>4. \A g : <<d.id, g>> \in DOMAIN packed => g \in Q
  <2> TAKE g
  <2> HAVE <<d.id, g>> \in DOMAIN packed
  <2>1. <<d.id, g>> \in P /\ <<d.id, g>>[2] = g
    OBVIOUS
  <2> QED BY <2>1
<1> HIDE DEF P
<1>5. IsFiniteSet(Q)
  BY <1>2, SecondsFinite
<1> HIDE DEF Q
<1>6. IsFiniteSet(S)
  BY <1>5, FS_Union
<1>7. S \subseteq Nat /\ S # {}
  BY <1>3, DescFacts
<1>8. DOMAIN d.gens \subseteq S /\ Q \subseteq S
  OBVIOUS
<1> HIDE DEF S
<1>9. Max(S) \in S /\ \A y \in S : y <= Max(S)
  BY <1>6, <1>7, MaxNat
<1>10. Max(S) \in Nat /\ 1 + Max(S) \in Nat \ {0} /\ 1 + Max(S) \notin S
  <2> DEFINE x == Max(S)
  <2>1. x \in Nat /\ \A y \in S : y <= x
    BY <1>7, <1>9
  <2> HIDE DEF x
  <2>2. x \in Nat /\ 1 + x \in Nat \ {0} /\ 1 + x \notin S
    BY <2>1, <1>7
  <2> QED BY <2>2 DEF x
<1> QED BY <1>1, <1>4, <1>8, <1>10

\* record_pack describes the same segment, with one generation more.
LEMMA PackIs ==
  ASSUME NEW d \in V6Desc, NEW s, DescOk(d, s), NEW source, NEW g \in Nat
  PROVE  /\ record_pack(d, source, g) \in V6Desc /\ DescOk(record_pack(d, source, g), s)
         /\ DOMAIN record_pack(d, source, g).gens = DOMAIN d.gens \cup {g}
         /\ record_pack(d, source, g).id = d.id /\ record_pack(d, source, g).root = d.root
<1> DEFINE marked == [h \in DOMAIN d.gens |-> IF h = source /\ d.gens[h] # "quarantined"
                                              THEN "superseded" ELSE d.gens[h]]
           gens == Put(marked, g, "active")
           e == record_pack(d, source, g)
<1>1. /\ d.id \in Nat /\ d.first \in Nat /\ d.last \in Nat /\ d.root \in Seq(V6Rec)
      /\ d.active \in Nat /\ d.hold \in BOOLEAN
      /\ DOMAIN d.gens \subseteq Nat /\ \A h \in DOMAIN d.gens : d.gens[h] \in V6State
  BY DescFacts
<1>2. d = [id |-> d.id, first |-> d.first, last |-> d.last, root |-> d.root, active |-> d.active,
           hold |-> d.hold, gens |-> d.gens]
  BY DEF V6Desc
<1>3. DOMAIN marked = DOMAIN d.gens /\ \A h \in DOMAIN marked : marked[h] \in V6State
  BY <1>1 DEF V6State
<1>4. e = [d EXCEPT !.gens = gens, !.active = g]
  BY DEF record_pack
<1> HIDE DEF marked
<1>5. DOMAIN gens = DOMAIN d.gens \cup {g} /\ gens[g] = "active"
      /\ \A h \in DOMAIN gens : gens[h] \in V6State
  BY <1>3 DEF Put, V6State
<1>6. gens \in V6Gens
  <2>1. gens = [h \in DOMAIN d.gens \cup {g} |-> gens[h]]
    BY <1>3 DEF Put
  <2> HIDE DEF gens
  <2>2. gens \in [DOMAIN d.gens \cup {g} -> V6State]
    BY <2>1, <1>5
  <2>3. DOMAIN d.gens \cup {g} \in SUBSET Nat
    BY <1>1
  <2> QED BY <2>2, <2>3, GensType
<1> HIDE DEF gens
<1>7. e = [id |-> d.id, first |-> d.first, last |-> d.last, root |-> d.root, active |-> g,
           hold |-> d.hold, gens |-> gens]
  BY <1>2, <1>4
<1> HIDE DEF e
<1>8. e \in V6Desc
  BY <1>1, <1>6, <1>7 DEF V6Desc
<1>9. IsFiniteSet(DOMAIN d.gens \cup {g})
  <2>1. IsFiniteSet(DOMAIN d.gens)
    BY DEF DescOk
  <2> QED BY <2>1, FS_AddElement
<1>10. DescOk(e, s)
  BY <1>5, <1>7, <1>9 DEF DescOk, IsAuthority
<1> QED BY <1>5, <1>7, <1>8, <1>10 DEF e

\* Catalogues in use, when a file, a segment or a tail comes or goes.
LEMMA LivePacked ==
  ASSUME NEW m, NEW G, NEW r, NEW p, NEW t, V6Live(m, G, r, p, t), NEW k, k \notin DOMAIN p, NEW x
  PROVE  V6Live(m, G, r, Put(p, k, x), t)
<1>1. \A z \in DOMAIN p : z \in DOMAIN Put(p, k, x) /\ Put(p, k, x)[z] = p[z]
  BY DEF Put
<1>2. HasFiles(m, r, Put(p, k, x))
  <2>1. \A id, g, recs : InFile(r, p, id, g, recs) => InFile(r, Put(p, k, x), id, g, recs)
    BY <1>1 DEF InFile
  <2> QED BY <2>1 DEF V6Live, HasFiles
<1> QED BY <1>2 DEF V6Live

LEMMA LiveTail ==
  ASSUME NEW m, NEW G, NEW r, NEW p, NEW t, V6Live(m, G, r, p, t)
  PROVE  /\ V6Live(m, G, r, p, FALSE)
         /\ Len(m) = Len(G) => \A u : V6Live(m, G, r, p, u)
         /\ t /\ V6Chain(G) => Len(m) = Len(G)
<1>1. Len(m) = Len(G) => ~(Len(m) < Len(G)) \/ Len(m) \notin Int
  OBVIOUS
<1>2. V6Chain(G) => Len(m) \in Nat /\ Len(G) \in Nat /\ Len(m) <= Len(G)
  BY CatFacts, ChainFacts DEF V6Live
<1>3. V6Live(m, G, r, p, FALSE)
  BY DEF V6Live
<1>4. ASSUME Len(m) = Len(G), NEW u PROVE V6Live(m, G, r, p, u)
  <2>1. Len(m) \in Nat
    BY LenProperties DEF V6Live, CatOf
  <2>2. ~(Len(m) < Len(G))
    BY <2>1, <1>4
  <2> QED BY <2>2 DEF V6Live
<1>5. ASSUME t, V6Chain(G) PROVE Len(m) = Len(G)
  <2>1. ~(Len(m) < Len(G))
    BY <1>5 DEF V6Live
  <2> QED BY <2>1, <1>2, <1>5
<1> QED BY <1>3, <1>4, <1>5

LEMMA LiveSealed ==
  ASSUME NEW m, NEW G, NEW r, NEW p, NEW t, V6Live(m, G, r, p, t), V6Chain(G), Len(m) = Len(G),
         NEW s, V6Chain(Append(G, s)), s.id \notin DOMAIN r,
         \A i \in DOMAIN G : G[i].id < s.id
  PROVE  V6Live(m, Append(G, s), Put(r, s.id, s.recs), p, FALSE)
<1> DEFINE H == Append(G, s)
           q == Put(r, s.id, s.recs)
<1>1. /\ m \in Seq(V6Desc) /\ Len(m) \in Nat /\ DOMAIN m = 1..Len(m) /\ DOMAIN m \subseteq DOMAIN G
      /\ \A i \in DOMAIN m : m[i].id = G[i].id /\ DescOk(m[i], G[i]) /\ G[i].id \in Nat
  BY CatFacts, ChainFacts DEF V6Live, DescOk
<1>2. /\ Len(H) = Len(G) + 1 /\ H[Len(G) + 1] = s /\ \A i \in DOMAIN G : H[i] = G[i]
  <2>1. G \in Seq(V6Seg)
    BY DEF V6Chain
  <2> QED BY <2>1
<1> HIDE DEF H
<1>3. CatOf(m, H)
  <2>1. \A i \in DOMAIN m : DescOk(m[i], H[i])
    BY <1>1, <1>2
  <2> QED BY <2>1, <1>1, <1>2 DEF CatOf
<1>4. /\ s.id \in DOMAIN q /\ DOMAIN q = DOMAIN r \cup {s.id}
      /\ \A z \in DOMAIN r : z \in DOMAIN q /\ q[z] = r[z]
  BY DEF Put
<1> HIDE DEF q
<1>5. HasFiles(m, q, p)
  <2>1. \A id, g, recs : InFile(r, p, id, g, recs) => InFile(q, p, id, g, recs)
    BY <1>4 DEF InFile
  <2>2. \A i \in DOMAIN m : m[i].id # s.id
    <3> TAKE i \in DOMAIN m
    <3>1. G[i].id < s.id /\ m[i].id = G[i].id /\ G[i].id \in Nat
      BY <1>1
    <3> QED BY <3>1
  <2>3. \A i \in DOMAIN m : m[i].id \in DOMAIN q => m[i].id \in DOMAIN r
    BY <2>2, <1>4
  <2> QED BY <2>1, <2>3 DEF V6Live, HasFiles
<1>6. H[Len(H)] = s
  BY <1>2
<1> QED BY <1>3, <1>4, <1>5, <1>6 DEF V6Live, H, q

\* The catalogue that has got the segment it left out.
LEMMA LiveListed ==
  ASSUME NEW m, NEW G, NEW r, NEW p, NEW t, V6Live(m, G, r, p, t), V6Chain(G), Len(m) < Len(G),
         NEW u, r[G[Len(G)].id] = G[Len(G)].recs
  PROVE  LET d == Desc(G[Len(G)].id, G[Len(G)].recs)
         IN  /\ Upsert(m, d) = Append(m, d) /\ V6Live(Append(m, d), G, r, p, u)
             /\ Len(Append(m, d)) = Len(G) /\ Append(m, d) # m /\ ~Catalogued(m, G[Len(G)].id)
<1> DEFINE s == G[Len(G)]
           d == Desc(s.id, s.recs)
           n == Append(m, d)
<1>1. Len(G) \in DOMAIN G /\ s \in V6Seg /\ s.recs # <<>> /\ Numbered(s.recs, s.first)
  <2>1. Len(G) \in DOMAIN G
    BY CatFacts, ChainFacts DEF V6Live
  <2> QED BY <2>1, ChainFacts DEF V6Chain
<1>2. /\ d \in V6Desc /\ DescOk(d, s) /\ DOMAIN d.gens = {RAW_GENERATION}
      /\ d.id = s.id /\ d.root = s.recs
  BY <1>1, DescIs
<1>3. s.id \in DOMAIN r /\ r[s.id] = s.recs
  BY DEF V6Live
<1> HIDE DEF d
<1>4. /\ Upsert(m, d) = n /\ CatOf(n, G) /\ Len(n) = Len(G) /\ ~Catalogued(m, d.id)
      /\ \A i \in DOMAIN n : \/ i \in DOMAIN m /\ n[i] = m[i]
                             \/ i = Len(G) /\ n[i] = d
  BY <1>2, UpsertNew DEF V6Live
<1> HIDE DEF n, s
<1>5. HasFiles(n, r, p)
  <2> SUFFICES ASSUME NEW i \in DOMAIN n
               PROVE  /\ \A g \in DOMAIN n[i].gens : InFile(r, p, n[i].id, g, n[i].root)
                      /\ n[i].id \in DOMAIN r => RAW_GENERATION \in DOMAIN n[i].gens
    BY DEF HasFiles
  <2>1. CASE i \in DOMAIN m /\ n[i] = m[i]
    BY <2>1 DEF V6Live, HasFiles
  <2>2. CASE n[i] = d
    BY <2>2, <1>2, <1>3 DEF InFile
  <2> QED BY <2>1, <2>2, <1>4
<1>6. Len(m) \in Nat /\ Len(G) \in Nat
  BY CatFacts, ChainFacts DEF V6Live
<1>7. n # m
  BY <1>4, <1>6
<1>8. V6Live(n, G, r, p, u)
  BY <1>4, <1>5, <1>6 DEF V6Live
<1> QED BY <1>2, <1>4, <1>7, <1>8 DEF d, n, s

\* The catalogue with a generation more of a segment, whose file was published.
LEMMA LivePackRecorded ==
  ASSUME NEW m, NEW G, NEW r, NEW p, NEW t, V6Live(m, G, r, p, t), V6Chain(G),
         NEW i \in DOMAIN m, NEW source, NEW g \in Nat \ {0}, <<m[i].id, g>> \notin DOMAIN p
  PROVE  V6Live(Edited(m, i, record_pack(m[i], source, g)), G, r,
                Put(p, <<m[i].id, g>>, m[i].root), t)
<1> DEFINE d == record_pack(m[i], source, g)
           n == Edited(m, i, d)
           q == Put(p, <<m[i].id, g>>, m[i].root)
<1>1. /\ m \in Seq(V6Desc) /\ CatOf(m, G) /\ Len(m) \in Nat /\ DOMAIN m = 1..Len(m)
      /\ \A j \in DOMAIN m : m[j] \in V6Desc /\ DescOk(m[j], G[j])
  BY CatFacts DEF V6Live
<1>2. /\ d \in V6Desc /\ DescOk(d, G[i]) /\ DOMAIN d.gens = DOMAIN m[i].gens \cup {g}
      /\ d.id = m[i].id /\ d.root = m[i].root
  BY <1>1, PackIs
<1> HIDE DEF d
<1>3. CatOf(n, G)
  BY <1>1, <1>2, UpsertKnown
<1>4. DOMAIN n = DOMAIN m /\ Len(n) = Len(m) /\ \A j \in DOMAIN m : n[j] = IF j = i THEN d ELSE m[j]
  <2>1. m \in Seq(V6Desc) /\ i \in DOMAIN m /\ d \in V6Desc
    BY <1>1, <1>2
  <2>2. DOMAIN n = DOMAIN m
    BY <2>1, EditedFacts
  <2>3. Len(n) = Len(m)
    BY <2>1, EditedFacts
  <2>4. \A j \in DOMAIN m : n[j] = IF j = i THEN d ELSE m[j]
    BY <2>1, <1>1 DEF Edited
  <2> QED BY <2>2, <2>3, <2>4
<1>5. /\ <<m[i].id, g>> \in DOMAIN q /\ q[<<m[i].id, g>>] = m[i].root
      /\ \A z \in DOMAIN p : z \in DOMAIN q /\ q[z] = p[z]
  BY DEF Put
<1> HIDE DEF n, q
<1>6. \A id, h, recs : InFile(r, p, id, h, recs) => InFile(r, q, id, h, recs)
  BY <1>5 DEF InFile
<1>7. InFile(r, q, m[i].id, g, m[i].root)
  BY <1>5 DEF InFile, RAW_GENERATION
<1>8. HasFiles(n, r, q)
  <2> SUFFICES ASSUME NEW j \in DOMAIN m
               PROVE  /\ \A h \in DOMAIN n[j].gens : InFile(r, q, n[j].id, h, n[j].root)
                      /\ n[j].id \in DOMAIN r => RAW_GENERATION \in DOMAIN n[j].gens
    BY <1>4 DEF HasFiles
  <2>1. /\ \A h \in DOMAIN m[j].gens : InFile(r, q, m[j].id, h, m[j].root)
        /\ m[j].id \in DOMAIN r => RAW_GENERATION \in DOMAIN m[j].gens
    BY <1>6 DEF V6Live, HasFiles
  <2>2. CASE j # i
    BY <2>1, <2>2, <1>4
  <2>3. CASE j = i
    BY <2>1, <2>3, <1>2, <1>4, <1>7
  <2> QED BY <2>2, <2>3
<1> QED BY <1>3, <1>4, <1>8 DEF V6Live, n, q, d

\* A catalogue of the same segments and generations.
LEMMA LiveSame ==
  ASSUME NEW m, NEW G, NEW r, NEW p, NEW t, V6Live(m, G, r, p, t),
         NEW n \in Seq(V6Desc), Len(n) = Len(m),
         \A i \in DOMAIN n : /\ DescOk(n[i], G[i]) /\ n[i].id = m[i].id /\ n[i].root = m[i].root
                             /\ DOMAIN n[i].gens = DOMAIN m[i].gens
  PROVE  V6Live(n, G, r, p, t)
<1>1. DOMAIN n = DOMAIN m
  BY LenProperties DEF V6Live, CatOf
<1>2. CatOf(n, G)
  BY CatSame DEF V6Live
<1>3. HasFiles(n, r, p)
  BY <1>1 DEF V6Live, HasFiles
<1> QED BY <1>2, <1>3 DEF V6Live

-----------------------------------------------------------------------------
(* What a boot reconciles, and what load finds.                            *)

\* Boot goes through the RAW files once, by segment id.
Reconciling(F, m, fs, end) ==
  F = [n \in 0..end |-> IF n = 0 THEN m
                        ELSE IF n - 1 \in DOMAIN fs THEN Reconciled(F[n - 1], n - 1, fs[n - 1])
                        ELSE F[n - 1]]

LEMMA ReconcilingOnce ==
  ASSUME NEW m, NEW fs, NEW end \in Nat, NEW F, NEW E,
         Reconciling(F, m, fs, end), Reconciling(E, m, fs, end)
  PROVE  F[end] = E[end]
<1> DEFINE Bad == {n \in 0..end : F[n] # E[n]}
<1>1. \A n \in 0..end :
        /\ F[n] = IF n = 0 THEN m
                  ELSE IF n - 1 \in DOMAIN fs THEN Reconciled(F[n - 1], n - 1, fs[n - 1])
                  ELSE F[n - 1]
        /\ E[n] = IF n = 0 THEN m
                  ELSE IF n - 1 \in DOMAIN fs THEN Reconciled(E[n - 1], n - 1, fs[n - 1])
                  ELSE E[n - 1]
  BY DEF Reconciling
<1>2. SUFFICES ASSUME Bad # {} PROVE FALSE
  OBVIOUS
<1>3. Bad \subseteq Nat
  OBVIOUS
<1> HIDE DEF Bad
<1>4. PICK n \in Bad : \A k \in Bad : n <= k
  BY <1>2, <1>3, LeastNat
<1>5. n \in 0..end /\ F[n] # E[n]
  BY DEF Bad
<1>6. n # 0
  BY <1>1, <1>5
<1>7. n - 1 \in 0..end /\ ~(n <= n - 1)
  BY <1>5, <1>6
<1>8. F[n - 1] = E[n - 1]
  BY <1>4, <1>7 DEF Bad
<1> QED BY <1>1, <1>5, <1>6, <1>8

LEMMA ReconciledIs ==
  ASSUME NEW m, NEW fs, DOMAIN fs \subseteq Nat, IsFiniteSet(DOMAIN fs)
  PROVE  \E end \in Nat :
           /\ \A id \in DOMAIN fs : id < end
           /\ \A E : Reconciling(E, m, fs, end) => ReconciledAll(m, fs) = E[end]
<1> DEFINE S == {id + 1 : id \in DOMAIN fs}
           T == S \cup {0}
           end == Max(T)
           f == [id \in DOMAIN fs |-> id + 1]
<1>1. f \in Surjection(DOMAIN fs, S)
  BY DEF Surjection
<1>2. IsFiniteSet(S)
  BY <1>1, FS_Surjection
<1>3. IsFiniteSet(T)
  BY <1>2, FS_AddElement
<1>4. T \subseteq Nat /\ T # {} /\ \A id \in DOMAIN fs : id + 1 \in T
  OBVIOUS
<1>5. ReconciledAll(m, fs) = (CHOOSE F : Reconciling(F, m, fs, end))[end]
  BY DEF ReconciledAll, Reconciling
<1> HIDE DEF T
<1>6. end \in T /\ \A y \in T : y <= end
  BY <1>3, <1>4, MaxNat
<1> HIDE DEF end
<1>7. end \in Nat /\ \A id \in DOMAIN fs : id < end
  BY <1>4, <1>6
<1>8. ASSUME NEW E, Reconciling(E, m, fs, end) PROVE ReconciledAll(m, fs) = E[end]
  <2> DEFINE F == CHOOSE F : Reconciling(F, m, fs, end)
  <2>1. Reconciling(F, m, fs, end)
    BY <1>8
  <2>2. ReconciledAll(m, fs) = F[end]
    BY <1>5
  <2> HIDE DEF F
  <2> QED BY <2>1, <2>2, <1>7, <1>8, ReconcilingOnce
<1> QED BY <1>7, <1>8

\* What a boot reconciles is the whole chain, whatever the catalogue left out.
LEMMA ReconciledLive ==
  ASSUME NEW G, V6Chain(G), NEW m, NEW r, NEW p, NEW t, V6Live(m, G, r, p, t),
         RawOf(r, G), IsFiniteSet(DOMAIN r), NEW u
  PROVE  V6Live(ReconciledAll(m, r), G, r, p, u) /\ Len(ReconciledAll(m, r)) = Len(G)
<1>1. /\ Len(m) \in Nat /\ Len(G) \in Nat /\ Len(m) <= Len(G) /\ Len(G) <= Len(m) + 1
      /\ DOMAIN G = 1..Len(G) /\ DOMAIN m = 1..Len(m)
      /\ \A i \in DOMAIN G : G[i].id \in Nat
      /\ \A i \in DOMAIN m : m[i].id = G[i].id /\ Catalogued(m, m[i].id)
  <2>1. CatOf(m, G)
    BY DEF V6Live
  <2>2. /\ Len(m) \in Nat /\ DOMAIN m = 1..Len(m)
        /\ \A i \in DOMAIN m : DescOk(m[i], G[i]) /\ Catalogued(m, m[i].id)
    BY <2>1, CatFacts
  <2>3. \A i \in DOMAIN m : m[i].id = G[i].id
    BY <2>2 DEF DescOk
  <2>4. Len(m) <= Len(G) /\ Len(G) <= Len(m) + 1
    BY <2>1 DEF CatOf
  <2> QED BY <2>2, <2>3, <2>4, ChainFacts
<1>2. DOMAIN r \subseteq Nat
  BY <1>1 DEF RawOf
<1>3. PICK end \in Nat : /\ \A id \in DOMAIN r : id < end
                         /\ \A E : Reconciling(E, m, r, end) => ReconciledAll(m, r) = E[end]
  BY <1>2, ReconciledIs
<1>4. CASE Len(m) = Len(G)
  <2> DEFINE E == [n \in 0..end |-> m]
  <2>1. \A id \in DOMAIN r : Catalogued(m, id)
    BY <1>1, <1>4 DEF RawOf
  <2>2. \A n \in 0..end :
          E[n] = IF n = 0 THEN m
                 ELSE IF n - 1 \in DOMAIN r THEN Reconciled(E[n - 1], n - 1, r[n - 1])
                 ELSE E[n - 1]
    BY <2>1 DEF Reconciled
  <2>3. Reconciling(E, m, r, end)
    BY <2>2 DEF Reconciling
  <2>4. ReconciledAll(m, r) = m
    <3>1. E[end] = m
      OBVIOUS
    <3> HIDE DEF E
    <3> QED BY <2>3, <3>1, <1>3
  <2>5. V6Live(m, G, r, p, u)
    BY <1>4, LiveTail
  <2> QED BY <2>4, <2>5, <1>4
<1>5. CASE Len(m) < Len(G)
  <2> DEFINE P == G[Len(G)].id
             d == Desc(P, G[Len(G)].recs)
             M == Append(m, d)
             E == [n \in 0..end |-> IF n <= P THEN m ELSE M]
  <2>1. Len(G) \in DOMAIN G /\ P \in DOMAIN r /\ P \in Nat /\ Len(G) = Len(m) + 1
    <3>1. Len(G) = Len(m) + 1 /\ Len(G) \in 1..Len(G)
      <4> DEFINE a == Len(m)
                 b == Len(G)
      <4>1. a \in Nat /\ b \in Nat /\ b <= a + 1 /\ a < b
        BY <1>1, <1>5
      <4> HIDE DEF a, b
      <4>2. b = a + 1 /\ b \in 1..b
        BY <4>1
      <4> QED BY <4>2 DEF a, b
    <3> QED BY <3>1, <1>1, <1>5 DEF V6Live
  <2>2. r[P] = G[Len(G)].recs
    <3>1. PICK i \in DOMAIN G : G[i].id = P /\ r[P] = G[i].recs
      BY <2>1 DEF RawOf
    <3>2. i \in Nat /\ Len(G) \in Nat /\ i <= Len(G)
      BY <1>1
    <3>3. i < Len(G) => G[i].id < G[Len(G)].id
      BY <2>1 DEF V6Chain
    <3>4. i = Len(G)
      BY <3>1, <3>2, <3>3, <2>1
    <3> QED BY <3>1, <3>4
  <2>3. /\ Upsert(m, d) = M /\ V6Live(M, G, r, p, u) /\ Len(M) = Len(G) /\ ~Catalogued(m, P)
    BY <2>2, <1>5, LiveListed, SMTT(30)
  <2>4. Reconciled(m, P, r[P]) = M
    BY <2>2, <2>3 DEF Reconciled
  <2> HIDE DEF M, d
  <2>5. \A id \in DOMAIN r : id # P => Catalogued(m, id)
    <3> TAKE id \in DOMAIN r
    <3> HAVE id # P
    <3>1. PICK i \in DOMAIN G : G[i].id = id
      BY DEF RawOf
    <3>2. i \in DOMAIN m
      BY <3>1, <2>1, <1>1
    <3> QED BY <3>1, <3>2, <1>1
  <2>6. \A id \in DOMAIN r : Catalogued(M, id)
    <3> TAKE id \in DOMAIN r
    <3>1. PICK i \in DOMAIN G : G[i].id = id
      BY DEF RawOf
    <3>2. i \in DOMAIN M /\ M[i].id = G[i].id
      <4>1. DOMAIN M = 1..Len(M) /\ \A j \in DOMAIN M : DescOk(M[j], G[j])
        BY <2>3, CatFacts DEF V6Live
      <4> QED BY <4>1, <2>3, <1>1 DEF DescOk
    <3> QED BY <3>1, <3>2 DEF Catalogued
  <2>7. ASSUME NEW n \in 0..end
        PROVE  E[n] = IF n = 0 THEN m
                      ELSE IF n - 1 \in DOMAIN r THEN Reconciled(E[n - 1], n - 1, r[n - 1])
                      ELSE E[n - 1]
    <3> HIDE DEF P
    <3>1. CASE n = 0
      BY <3>1, <2>1
    <3>2. CASE n # 0 /\ n <= P
      <4>1. n - 1 \in 0..end /\ n - 1 <= P /\ n - 1 # P /\ n \in Nat /\ n # 0
        BY <3>2, <2>1
      <4>2. E[n] = m /\ E[n - 1] = m
        BY <4>1, <3>2
      <4>3. n - 1 \in DOMAIN r => Reconciled(m, n - 1, r[n - 1]) = m
        BY <4>1, <2>5 DEF Reconciled
      <4> QED BY <4>1, <4>2, <4>3
    <3>3. CASE n = P + 1
      <4>1. n - 1 = P /\ n # 0 /\ ~(n <= P) /\ n - 1 \in 0..end /\ n - 1 <= P
        BY <3>3, <2>1
      <4>2. E[n] = M /\ E[n - 1] = m
        BY <4>1
      <4> QED BY <4>1, <4>2, <2>1, <2>4
    <3>4. CASE n > P + 1
      <4>1. n - 1 \in 0..end /\ ~(n - 1 <= P) /\ ~(n <= P) /\ n # 0
        BY <3>4, <2>1
      <4>2. E[n] = M /\ E[n - 1] = M
        BY <4>1
      <4>3. n - 1 \in DOMAIN r => Reconciled(M, n - 1, r[n - 1]) = M
        BY <4>1, <2>6 DEF Reconciled
      <4> QED BY <4>1, <4>2, <4>3
    <3> QED BY <3>1, <3>2, <3>3, <3>4, <2>1
  <2>8. Reconciling(E, m, r, end)
    BY <2>7 DEF Reconciling
  <2>9. E[end] = M
    <3>1. P < end
      BY <2>1, <1>3
    <3> QED BY <3>1, <2>1
  <2> HIDE DEF E
  <2>10. ReconciledAll(m, r) = M
    BY <2>8, <2>9, <1>3
  <2> QED BY <2>10, <2>3
<1>6. Len(m) = Len(G) \/ Len(m) < Len(G)
  <2> DEFINE a == Len(m)
             b == Len(G)
  <2>1. a \in Nat /\ b \in Nat /\ a <= b
    BY <1>1
  <2> HIDE DEF a, b
  <2>2. a = b \/ a < b
    BY <2>1
  <2> QED BY <2>2 DEF a, b
<1> QED BY <1>4, <1>5, <1>6

\* The packing queue holds ids of the catalogue.
LEMMA QueueFacts ==
  ASSUME NEW m \in Seq(V6Desc)
  PROVE  /\ packing_queue(m) \in Seq(Nat)
         /\ \A k \in DOMAIN packing_queue(m) : Catalogued(m, packing_queue(m)[k])
<1> DEFINE s == [i \in DOMAIN m |-> m[i].id]
           K == {i \in DOMAIN m : Authorities(m[i]) = {RAW_GENERATION}}
<1>1. Len(m) \in Nat /\ DOMAIN m = 1..Len(m) /\ \A i \in DOMAIN m : m[i].id \in Nat
  <2>1. Len(m) \in Nat /\ DOMAIN m = 1..Len(m) /\ \A i \in DOMAIN m : m[i] \in V6Desc
    BY LenProperties
  <2> QED BY <2>1, DescFacts
<1>2. s \in [1..Len(m) -> Nat]
  BY <1>1
<1>3. s \in Seq(Nat) /\ DOMAIN s = DOMAIN m /\ \A i \in DOMAIN m : s[i] = m[i].id
  BY <1>1, <1>2
<1>4. packing_queue(m) = SelectAt(s, K)
  BY DEF packing_queue
<1> HIDE DEF s, K
<1>5. Selected(SelectAt(s, K), Nat, s, K)
  BY <1>3, SelectAtFacts
<1> DEFINE t == SelectAt(s, K)
<1>6. t \in Seq(Nat) /\ \A i \in DOMAIN t : \E j \in DOMAIN m : t[i] = m[j].id
  BY <1>3, <1>5, ZenonT(40) DEF Selected
<1> QED BY <1>4, <1>6 DEF Catalogued

\* What load finds, when the manifest directory changes.
LEMMA LoadAfterWrite ==
  ASSUME ManifestsOk, manifests' = Put(manifests, NextManifest, man), current' = current
  PROVE  /\ ManifestsOk' /\ Generations' # {} /\ manifests'[Max(Generations')] = man
         /\ Load' = Load \/ Load' = man
<1> DEFINE g == NextManifest
<1>1. Generations \subseteq Nat /\ (Generations # {} =>
        Max(Generations) \in Generations /\ \A h \in Generations : h <= Max(Generations))
  BY MaxNat DEF ManifestsOk
<1>2. g \in Nat \ {0} /\ \A h \in Generations : h < g
  <2>1. CASE Generations = {}
    BY <2>1 DEF NextManifest
  <2>2. CASE Generations # {}
    <3> DEFINE x == Max(Generations)
    <3>1. x \in Nat /\ (\A h \in Generations : h <= x) /\ g = 1 + x
      BY <1>1, <2>2 DEF NextManifest
    <3> HIDE DEF x, g
    <3> QED BY <3>1, <1>1
  <2> QED BY <2>1, <2>2
<1> HIDE DEF g
<1>3. /\ Generations' = Generations \cup {g} /\ manifests'[g] = man
      /\ \A h \in Generations : manifests'[h] = manifests[h]
  <2>1. manifests' = Put(manifests, g, man)
    BY DEF g
  <2>2. \A h \in DOMAIN manifests : h # g
    BY <1>1, <1>2 DEF Generations
  <2> QED BY <2>1, <2>2 DEF Generations, Put
<1>4. IsFiniteSet(Generations') /\ Generations' \subseteq Nat \ {0} /\ Generations' # {}
  BY <1>2, <1>3, FS_AddElement DEF ManifestsOk
<1>5. Max(Generations') = g
  <2>1. Max(Generations') \in Generations' /\ \A h \in Generations' : h <= Max(Generations')
    BY <1>4, MaxNat
  <2> DEFINE x == Max(Generations')
  <2>2. x \in Generations' /\ g <= x
    BY <2>1, <1>3
  <2> HIDE DEF x
  <2>3. x = g
    BY <2>2, <1>1, <1>2, <1>3
  <2> QED BY <2>3 DEF x
<1>6. ManifestsOk'
  <2>1. current' \in Generations' \cup {0}
    BY <1>3 DEF ManifestsOk
  <2> QED BY <1>4, <2>1 DEF ManifestsOk
<1>7. Load' = Load \/ Load' = man
  <2>1. CASE current \in Generations
    <3>1. current' \in Generations' /\ manifests'[current'] = manifests[current]
      BY <2>1, <1>3
    <3>2. Load' = manifests'[current'] /\ Load = manifests[current]
      BY <3>1, <2>1 DEF Load
    <3> QED BY <3>1, <3>2
  <2>2. CASE current \notin Generations
    <3>1. current' \notin Generations' /\ Generations' # {}
      BY <2>2, <1>2, <1>4, <1>3 DEF ManifestsOk
    <3>2. Load' = manifests'[Max(Generations')]
      BY <3>1 DEF Load
    <3> QED BY <3>2, <1>5, <1>3
  <2> QED BY <2>1, <2>2
<1> QED BY <1>3, <1>4, <1>5, <1>6, <1>7

LEMMA LoadAfterSwap ==
  ASSUME ManifestsOk, Generations # {}, manifests[Max(Generations)] = man,
         current' = Max(Generations), manifests' = manifests
  PROVE  ManifestsOk' /\ Load' = man
<1>1. Max(Generations) \in Generations
  BY MaxNat DEF ManifestsOk
<1>2. Generations' = Generations
  BY DEF Generations
<1>3. ManifestsOk'
  BY <1>1, <1>2 DEF ManifestsOk
<1>4. Load' = manifests'[current']
  BY <1>1, <1>2 DEF Load
<1> QED BY <1>3, <1>4

LEMMA LoadAfterPrune ==
  ASSUME ManifestsOk, Kept # Generations, current' = current,
         manifests' = [g \in Kept |-> manifests[g]]
  PROVE  ManifestsOk' /\ Load' = Load
<1>1. Generations # {}
  BY DEF Kept
<1> DEFINE x == Max(Generations)
<1>2. x \in Generations /\ \A y \in Generations : y <= x
  BY <1>1, MaxNat DEF ManifestsOk
<1>3. /\ Generations' = Kept /\ Kept \subseteq Generations /\ x \in Kept
      /\ \A g \in Kept : manifests'[g] = manifests[g]
  <2>1. Generations' = Kept /\ Kept \subseteq Generations
    BY DEF Generations, Kept
  <2> HIDE DEF x
  <2> QED BY <2>1, <1>2 DEF Kept
<1>4. IsFiniteSet(Kept)
  BY <1>3, FS_Subset DEF ManifestsOk
<1>5. Max(Kept) = x
  <2> DEFINE z == Max(Kept)
  <2>1. z \in Kept /\ \A y \in Kept : y <= z
    BY <1>3, <1>4, MaxNat DEF ManifestsOk
  <2> HIDE DEF x, z
  <2>2. z = x
    BY <2>1, <1>2, <1>3 DEF ManifestsOk
  <2> QED BY <2>2 DEF z
<1>6. current \in Generations <=> current \in Kept
  BY DEF Kept
<1>7. ManifestsOk'
  BY <1>3, <1>4, <1>6 DEF ManifestsOk
<1> HIDE DEF x
<1>8. CASE current \in Generations
  <2>1. Load = manifests[current] /\ Load' = manifests'[current]
    BY <1>8, <1>3, <1>6 DEF Load
  <2> QED BY <2>1, <1>3, <1>6, <1>7, <1>8
<1>9. CASE current \notin Generations
  <2>1. Load = manifests[x]
    BY <1>9, <1>1 DEF Load, x
  <2>2. Load' = manifests'[Max(Kept)]
    BY <1>9, <1>3, <1>6 DEF Load
  <2> QED BY <2>1, <2>2, <1>3, <1>5, <1>7
<1> QED BY <1>8, <1>9

-----------------------------------------------------------------------------
(* An append, its write and its sync; flush and the footer.                *)

\* A clock reading.
LEMMA HlcNat ==
  ASSUME NEW a \in Nat, NEW p \in Nat
  PROVE  HlcNow(a, p) \in Nat
  BY DEF HlcNow

\* What does not change with the files and the catalogues.
LEMMA SameFiles ==
  ASSUME NEW G, V6Files(G), UNCHANGED <<raw, packed, manifests, current>>
  PROVE  V6Files(G)' /\ Load' = Load
  BY DEF V6Files, ManifestsOk, Generations, Load

LEMMA SameKept ==
  ASSUME NEW G, V6Kept(G), UNCHANGED <<tail_file, v6promised, v6acked>>
  PROVE  V6Kept(G)'
  BY DEF V6Kept, InTail

LEMMA Step_append ==
  ASSUME NEW G, V6Is(G), NEW c \in V6Appenders, NEW p \in V6Clock, v6_append(c, p)
  PROVE  V6Is(G)'
<1> USE DEF v6_append, v6disk
<1>1. V6Chain(G)'
  BY DEF V6Is
<1>2. V6Files(G)' /\ Load' = Load
  BY SameFiles DEF V6Is
<1>3. V6Tail(G)'
  BY DEF V6Is, V6Tail, V6Up
<1>4. V6Catalogues(G)'
  BY <1>2 DEF V6Is, V6Catalogues, Live, Generations
<1>5. v6hlc' \in Nat /\ ids' \in Nat \ {0}
  <2>1. p \in Nat /\ v6hlc \in Nat /\ ids \in Nat
    BY V6Assumption DEF V6Is, V6Work
  <2> QED BY <2>1, HlcNat
<1>6. /\ stamped' \in [V6Appenders -> [id : Nat, ts : Nat]]
      /\ stamped'[c].id = ids' /\ \A d \in V6Appenders : d # c => stamped'[d] = stamped[d]
  BY <1>5 DEF V6Is, V6Work
<1>7. stamped'[c] # Unstamped
  BY <1>5, <1>6 DEF Unstamped
<1>8. V6Work'
  BY <1>5, <1>6, <1>7 DEF V6Is, V6Work, V6Stage
<1>9. V6Writer(G)'
  <2>1. phase = "sync" => \E d \in V6Appenders : job.for = {d} /\ stamped'[d] = stamped[d]
                                           /\ tail_file.recs[Len(tail_file.recs)].id = stamped[d].id
    <3> SUFFICES ASSUME phase = "sync"
                 PROVE \E d \in V6Appenders : job.for = {d} /\ stamped'[d] = stamped[d]
                          /\ tail_file.recs[Len(tail_file.recs)].id = stamped[d].id
      OBVIOUS
    <3>1. PICK d \in V6Appenders : job.for = {d} /\ tail_file.recs[Len(tail_file.recs)].id = stamped[d].id
      BY DEF V6Is, V6Writer
    <3>2. stamped[d] # Unstamped
      BY <3>1 DEF V6Is, V6Work
    <3> QED BY <3>1, <3>2, <1>6
  <2> QED BY <2>1 DEF V6Is, V6Writer, V6Up
<1>10. V6Kept(G)'
  BY SameKept DEF V6Is
<1>11. V6Reader(G)'
  BY DEF V6Is, V6Reader, V6Up
<1> QED BY <1>1, <1>2, <1>3, <1>4, <1>8, <1>9, <1>10, <1>11 DEF V6Is

LEMMA Step_append_inner ==
  ASSUME NEW G, V6Is(G), NEW c \in V6Appenders, append_inner(c)
  PROVE  V6Is(G)'
<1> USE DEF append_inner, v6disk, memory, counts, V6Idle
<1>0. job = NoJob /\ V6Up /\ job.op = "none"
  BY DEF V6Is, V6Work, V6Stage, V6Up, NoJob, Job
<1>1. V6Chain(G)'
  BY DEF V6Is
<1>2. V6Files(G)' /\ Load' = Load
  BY SameFiles DEF V6Is
<1>3. /\ V6Up' /\ job'.op \in {"none", "append", "seal"} /\ job'.todo = <<>>
      /\ phase' \in {"idle", "write", "footer"}
  BY <1>0 DEF V6Up, NoJob, Job
<1>4. V6Tail(G)'
  BY <1>0, <1>3 DEF V6Is, V6Tail
<1>5. V6Catalogues(G)'
  BY <1>0, <1>2, <1>3 DEF V6Is, V6Catalogues, Live, Generations
<1>6. V6Work'
  <2>1. CASE writer.open /\ phase' = "write" /\ UNCHANGED stamped
             /\ job' = Job("append", {c}, <<>>)
    BY <2>1 DEF V6Is, V6Work, V6Stage, Job, V6Ops
  <2>2. CASE writer.open /\ writer.root # <<>> /\ phase' = "footer" /\ UNCHANGED stamped
             /\ job' = Job("seal", {c}, <<>>)
    BY <2>2 DEF V6Is, V6Work, V6Stage, Job, V6Ops
  <2>3. CASE ~writer.open /\ stamped' = [stamped EXCEPT ![c] = Unstamped]
             /\ UNCHANGED <<phase, job>>
    BY <2>3, <1>0 DEF V6Is, V6Work, V6Stage, NoJob, Job, Unstamped
  <2> QED BY <2>1, <2>2, <2>3
<1>7. V6Writer(G)'
  BY <1>0, <1>3 DEF V6Is, V6Writer
<1>8. V6Kept(G)'
  BY SameKept DEF V6Is
<1>9. V6Reader(G)'
  BY <1>0, <1>3 DEF V6Is, V6Reader
<1> QED BY <1>1, <1>2, <1>4, <1>5, <1>6, <1>7, <1>8, <1>9 DEF V6Is

\* The parts of an active file.
LEMMA TailParts ==
  ASSUME NEW G, NEW f, V6TailOk(f, G)
  PROVE  /\ f.id \in Nat /\ f.first \in Nat /\ f.dur \in Nat /\ f.foot \in BOOLEAN
         /\ f.hdr /\ f.exists /\ f.recs \in Seq(V6Rec \cup {Torn})
         /\ Len(f.recs) \in Nat /\ DOMAIN f.recs = 1..Len(f.recs)
         /\ Scan(f.recs) \in Seq(V6Rec) /\ Len(Scan(f.recs)) \in Nat
         /\ Len(Scan(f.recs)) <= Len(f.recs) /\ f.dur <= Len(Scan(f.recs))
         /\ \A k \in 1..Len(Scan(f.recs)) : /\ Scan(f.recs)[k] = f.recs[k]
                                            /\ f.recs[k].lsn = f.first + k - 1
         /\ f = [id |-> f.id, first |-> f.first, hdr |-> TRUE, recs |-> f.recs, dur |-> f.dur,
                 foot |-> f.foot, exists |-> TRUE]
<1>1. /\ f.id \in Nat /\ f.first \in Nat /\ f.dur \in Nat /\ f.foot \in BOOLEAN
      /\ f.hdr /\ f.exists /\ f.recs \in Seq(V6Rec \cup {Torn})
  BY DEF V6TailOk
<1>2. f = [id |-> f.id, first |-> f.first, hdr |-> TRUE, recs |-> f.recs, dur |-> f.dur,
           foot |-> f.foot, exists |-> TRUE]
  BY DEF V6TailOk
<1>3. Len(f.recs) \in Nat /\ DOMAIN f.recs = 1..Len(f.recs)
  BY <1>1, LenProperties
<1>4. /\ Scan(f.recs) \in Seq(V6Rec) /\ Len(Scan(f.recs)) \in 0..Len(f.recs)
      /\ \A k \in 1..Len(Scan(f.recs)) : Scan(f.recs)[k] = f.recs[k]
  BY <1>1, ScanFacts
<1>5. Len(Scan(f.recs)) \in Nat /\ Len(Scan(f.recs)) <= Len(f.recs)
  BY <1>3, <1>4
<1>6. DOMAIN Scan(f.recs) = 1..Len(Scan(f.recs))
  BY <1>4, LenProperties
<1>7. \A k \in 1..Len(Scan(f.recs)) : f.recs[k].lsn = f.first + k - 1
  BY <1>4, <1>6 DEF V6TailOk, Numbered
<1>8. f.dur <= Len(Scan(f.recs))
  BY DEF V6TailOk
<1> QED BY <1>1, <1>2, <1>3, <1>4, <1>5, <1>7, <1>8

\* The active file with other records.
TailWith(f, recs, dur, foot) ==
  [id |-> f.id, first |-> f.first, hdr |-> TRUE, recs |-> recs, dur |-> dur, foot |-> foot,
   exists |-> TRUE]

LEMMA TailWithIs ==
  ASSUME NEW f, NEW recs, NEW dur, NEW foot
  PROVE  LET e == TailWith(f, recs, dur, foot)
         IN  /\ e.id = f.id /\ e.first = f.first /\ e.recs = recs /\ e.dur = dur /\ e.foot = foot
             /\ e.exists /\ e.hdr
  BY DEF TailWith

LEMMA EditRecs ==
  ASSUME NEW S, NEW f, f \in [id : Nat, first : Nat, hdr : {TRUE}, recs : S, dur : Nat,
                             foot : BOOLEAN, exists : {TRUE}], NEW x
  PROVE  [f EXCEPT !.recs = x] = [id |-> f.id, first |-> f.first, hdr |-> f.hdr, recs |-> x,
                                  dur |-> f.dur, foot |-> f.foot, exists |-> f.exists]
  OBVIOUS

LEMMA EditDur ==
  ASSUME NEW S, NEW f, f \in [id : Nat, first : Nat, hdr : {TRUE}, recs : S, dur : Nat,
                             foot : BOOLEAN, exists : {TRUE}], NEW x
  PROVE  [f EXCEPT !.dur = x] = [id |-> f.id, first |-> f.first, hdr |-> f.hdr, recs |-> f.recs,
                                 dur |-> x, foot |-> f.foot, exists |-> f.exists]
  OBVIOUS

LEMMA EditFoot ==
  ASSUME NEW S, NEW f, f \in [id : Nat, first : Nat, hdr : {TRUE}, recs : S, dur : Nat,
                             foot : BOOLEAN, exists : {TRUE}], NEW x
  PROVE  [f EXCEPT !.foot = x] = [id |-> f.id, first |-> f.first, hdr |-> f.hdr,
                                  recs |-> f.recs, dur |-> f.dur, foot |-> x,
                                  exists |-> f.exists]
  OBVIOUS

\* The edits the code makes.
LEMMA TailEdits ==
  ASSUME NEW G, NEW f, V6TailOk(f, G)
  PROVE  /\ \A x : [f EXCEPT !.recs = x] = TailWith(f, x, f.dur, f.foot)
         /\ Synced(f) = TailWith(f, f.recs, Len(f.recs), f.foot)
         /\ [Synced(f) EXCEPT !.foot = TRUE] = TailWith(f, f.recs, Len(f.recs), TRUE)
         /\ RepairedTail(f) = TailWith(f, Scan(f.recs), Len(Scan(f.recs)), f.foot)
<1>1. /\ f \in [id : Nat, first : Nat, hdr : {TRUE}, recs : Seq(V6Rec \cup {Torn}), dur : Nat,
               foot : BOOLEAN, exists : {TRUE}]
      /\ f.hdr = TRUE /\ f.exists = TRUE
  BY DEF V6TailOk
<1>2. \A x : [f EXCEPT !.recs = x] = TailWith(f, x, f.dur, f.foot)
  BY <1>1, EditRecs DEF TailWith
<1>3. Synced(f) = TailWith(f, f.recs, Len(f.recs), f.foot)
  BY <1>1, EditDur DEF TailWith, Synced
<1>4. [Synced(f) EXCEPT !.foot = TRUE] = TailWith(f, f.recs, Len(f.recs), TRUE)
  <2> DEFINE e == TailWith(f, f.recs, Len(f.recs), f.foot)
  <2>1. Len(f.recs) \in Nat
    BY <1>1, LenProperties
  <2>2. /\ e \in [id : Nat, first : Nat, hdr : {TRUE}, recs : Seq(V6Rec \cup {Torn}), dur : Nat,
                 foot : BOOLEAN, exists : {TRUE}]
        /\ e.id = f.id /\ e.first = f.first /\ e.hdr = TRUE /\ e.recs = f.recs
        /\ e.dur = Len(f.recs) /\ e.exists = TRUE
    BY <1>1, <2>1 DEF TailWith
  <2> HIDE DEF e
  <2> DEFINE yes == TRUE
  <2> HIDE DEF yes
  <2>3. [e EXCEPT !.foot = yes] = [id |-> e.id, first |-> e.first, hdr |-> e.hdr,
                                   recs |-> e.recs, dur |-> e.dur, foot |-> yes,
                                   exists |-> e.exists]
    BY <2>2, EditFoot
  <2>4. [e EXCEPT !.foot = yes] = TailWith(f, f.recs, Len(f.recs), yes)
    BY <2>2, <2>3 DEF TailWith
  <2> QED BY <2>4, <1>3 DEF e, yes
<1>5. RepairedTail(f) = TailWith(f, Scan(f.recs), Len(Scan(f.recs)), f.foot)
  <2>1. RepairedTail(f) = [[f EXCEPT !.recs = Scan(f.recs)] EXCEPT !.dur = Len(Scan(f.recs))]
    BY <1>1 DEF RepairedTail
  <2>2. [f EXCEPT !.recs = Scan(f.recs)] = TailWith(f, Scan(f.recs), f.dur, f.foot)
    BY <1>2
  <2> QED BY <2>1, <2>2 DEF TailWith
<1> QED BY <1>2, <1>3, <1>4, <1>5

LEMMA TailWithOk ==
  ASSUME NEW G, NEW f, V6TailOk(f, G), NEW recs \in Seq(V6Rec \cup {Torn}), NEW dur \in Nat,
         NEW foot \in BOOLEAN, dur <= Len(Scan(recs)), Numbered(Scan(recs), f.first),
         foot => recs \in Seq(V6Rec) /\ recs # <<>> /\ dur = Len(recs)
  PROVE  V6TailOk(TailWith(f, recs, dur, foot), G)
<1> DEFINE e == TailWith(f, recs, dur, foot)
<1>1. /\ e.id = f.id /\ e.first = f.first /\ e.recs = recs /\ e.dur = dur /\ e.foot = foot
      /\ e = [id |-> f.id, first |-> f.first, hdr |-> TRUE, recs |-> recs, dur |-> dur,
              foot |-> foot, exists |-> TRUE]
  BY DEF TailWith
<1> HIDE DEF e
<1>2. f.id \in Nat /\ f.first \in Nat
  BY DEF V6TailOk
<1>3. e \in [id : Nat, first : Nat, hdr : {TRUE}, recs : Seq(V6Rec \cup {Torn}), dur : Nat,
             foot : BOOLEAN, exists : {TRUE}]
  BY <1>1, <1>2
<1>4. V6TailOk(e, G)
  BY <1>1, <1>3 DEF V6TailOk
<1> QED BY <1>4 DEF e

\* The writer of a file with no bytes that are no record.
LEMMA WriterIs ==
  ASSUME NEW f, f.recs \in Seq(V6Rec)
  PROVE  WriterOf(f) = [open |-> TRUE, id |-> f.id, first |-> f.first, root |-> f.recs,
                        next |-> f.first + Len(f.recs)]
  BY ScanWhole DEF WriterOf

\* What an open writer knows.
LEMMA ActiveFacts ==
  ASSUME NEW G, V6Is(G), writer.open, phase # "create"
  PROVE  /\ V6Up /\ tail_file.exists /\ V6TailOk(tail_file, G) /\ tail_file.recs \in Seq(V6Rec)
         /\ Scan(tail_file.recs) = tail_file.recs /\ Whole(tail_file.recs)
         /\ tail_file.first = EndOf(G) /\ (tail_file.foot <=> phase = "rename")
         /\ writer = WriterOf(tail_file)
         /\ writer = [open |-> TRUE, id |-> tail_file.id, first |-> tail_file.first,
                      root |-> tail_file.recs, next |-> tail_file.first + Len(tail_file.recs)]
         /\ next_lsn \in Nat
         /\ tail_file.first + Len(tail_file.recs) = IF phase = "sync" THEN next_lsn + 1 ELSE next_lsn
<1>1. V6Up /\ tail_file.exists /\ writer = WriterOf(tail_file)
  BY DEF V6Is, V6Writer
<1>2. /\ V6TailOk(tail_file, G) /\ tail_file.recs \in Seq(V6Rec) /\ (tail_file.foot <=> phase = "rename")
  BY <1>1 DEF V6Is, V6Tail
<1>3. Scan(tail_file.recs) = tail_file.recs /\ Whole(tail_file.recs)
  BY <1>2, ScanWhole
<1>4. writer = [open |-> TRUE, id |-> tail_file.id, first |-> tail_file.first,
                root |-> tail_file.recs, next |-> tail_file.first + Len(tail_file.recs)]
  BY <1>1, <1>2, WriterIs
<1>5. writer.next = IF phase = "sync" THEN next_lsn + 1 ELSE next_lsn
  BY DEF V6Is, V6Writer
<1>6. next_lsn \in Nat /\ tail_file.first = EndOf(G)
  BY <1>2 DEF V6Is, V6Work, V6TailOk
<1>7. writer.next = tail_file.first + Len(tail_file.recs)
  BY <1>4
<1> QED BY <1>1, <1>2, <1>3, <1>4, <1>5, <1>6, <1>7

\* Both catalogues know the whole chain while there is an active file.
LEMMA TailListed ==
  ASSUME NEW G, V6Is(G), tail_file.exists
  PROVE  /\ job.op # "gc" => Live(Load, G) /\ Len(Load) = Len(G)
         /\ phase # "closed" => Live(man, G) /\ Len(man) = Len(G)
<1>1. V6Chain(G)
  BY DEF V6Is
<1>2. ASSUME NEW m, Live(m, G) PROVE Len(m) = Len(G)
  BY <1>1, <1>2, LiveTail DEF Live
<1> QED BY <1>2 DEF V6Is, V6Catalogues

\* The same episode is in a file that kept at least those records.
LEMMA InTailStays ==
  ASSUME NEW f, NEW e, NEW a, NEW n \in Nat, NEW q \in Nat, InTail(f, a, n), e.exists, n <= q,
         \A k \in 1..n : e.recs[k] = f.recs[k]
  PROVE  InTail(e, a, q)
<1>1. PICK k \in 1..n : f.recs[k].lsn = a[1] /\ f.recs[k].id = a[2]
  BY DEF InTail
<1>2. k \in 1..q /\ e.recs[k] = f.recs[k]
  BY <1>1
<1> QED BY <1>1, <1>2 DEF InTail

\* A step under the mutex that grows, syncs or closes the active file, and
\* nothing else of the directory.
SameMen == UNCHANGED <<raw, packed, manifests, current, man, before>>
LEMMA SameCatalogues ==
  ASSUME NEW G, V6Is(G), SameMen, tail_file'.exists = tail_file.exists, job'.op # "gc",
         phase \notin {"closed", "current"}, job.op # "gc",
         phase' \in {"idle", "write", "sync", "footer", "rename", "pack"}
  PROVE  V6Catalogues(G)'
<1>1. Load' = Load /\ Generations' = Generations
  BY DEF SameMen, Load, Generations
<1>2. Live(Load, G)' /\ Live(man, G)'
  BY <1>1 DEF V6Is, V6Catalogues, SameMen, Live
<1> QED BY <1>2 DEF V6Catalogues

LEMMA Step_write_record ==
  ASSUME NEW G, V6Is(G), write_record
  PROVE  V6Is(G)'
<1> DEFINE f == tail_file
           r == [lsn |-> next_lsn, ts |-> stamped[Holder].ts, id |-> stamped[Holder].id]
           recs == Append(f.recs, r)
<1>0. /\ phase = "write" /\ writer.open /\ job.op \in {"append", "seal"}
      /\ job.for # {} /\ V6Chain(G) /\ V6Up
  BY DEF V6Is, V6Work, V6Stage, V6Up, write_record
<1>1. PICK c \in V6Appenders : job.for = {c} /\ stamped[c] # Unstamped
  BY <1>0 DEF V6Is, V6Work
<1>2. Holder = c
  BY <1>1 DEF Holder
<1>3. stamped[c].id \in Nat \ {0} /\ stamped[c].ts \in Nat
  BY <1>1 DEF V6Is, V6Work
<1>4. /\ f.exists /\ V6TailOk(f, G) /\ f.recs \in Seq(V6Rec) /\ Scan(f.recs) = f.recs
      /\ ~f.foot /\ f.first = EndOf(G) /\ next_lsn \in Nat /\ f.first + Len(f.recs) = next_lsn
      /\ writer = [open |-> TRUE, id |-> f.id, first |-> f.first, root |-> f.recs,
                   next |-> f.first + Len(f.recs)]
  BY <1>0, ActiveFacts
<1>5. writer.next = next_lsn
  BY <1>4
<1>16. writer' = [writer EXCEPT !.root = Append(@, r), !.next = @ + 1]
  BY <1>5 DEF write_record
<1>6. /\ tail_file' = [f EXCEPT !.recs = recs]
      /\ phase' = "sync" /\ UNCHANGED <<stamped, job>>
      /\ UNCHANGED <<raw, packed, manifests, current, v6hlc, man, before, next_lsn, reader, counts>>
  BY <1>5 DEF write_record
<1>7. r \in V6Rec /\ r.lsn = next_lsn /\ r.id = stamped[c].id
  BY <1>2, <1>3, <1>4 DEF V6Rec
<1>8. /\ f.dur \in Nat /\ f.dur <= Len(f.recs) /\ Len(f.recs) \in Nat /\ f.first \in Nat
      /\ \A k \in 1..Len(f.recs) : f.recs[k].lsn = f.first + k - 1
      /\ f = [id |-> f.id, first |-> f.first, hdr |-> TRUE, recs |-> f.recs, dur |-> f.dur,
              foot |-> f.foot, exists |-> TRUE]
  BY <1>4, TailParts
<1> HIDE DEF r
<1>9. /\ recs \in Seq(V6Rec) /\ Len(recs) = Len(f.recs) + 1 /\ DOMAIN recs = 1..(Len(f.recs) + 1)
      /\ recs[Len(f.recs) + 1] = r /\ \A k \in 1..Len(f.recs) : recs[k] = f.recs[k]
  BY <1>4, <1>7
<1> HIDE DEF recs
<1>10. tail_file' = TailWith(f, recs, f.dur, f.foot)
  BY <1>4, <1>6, TailEdits
<1>11. Scan(recs) = recs /\ recs \in Seq(V6Rec \cup {Torn})
  BY <1>9, ScanWhole
<1>12. Numbered(recs, f.first)
  <2> SUFFICES ASSUME NEW k \in 1..(Len(f.recs) + 1) PROVE recs[k].lsn = f.first + k - 1
    BY <1>9 DEF Numbered
  <2>1. CASE k \in 1..Len(f.recs)
    BY <2>1, <1>8, <1>9
  <2>2. CASE k = Len(f.recs) + 1
    BY <2>2, <1>4, <1>7, <1>8, <1>9
  <2> QED BY <2>1, <2>2, <1>8
<1>13. V6TailOk(tail_file', G)
  <2>1. f.dur <= Len(Scan(recs))
    BY <1>8, <1>9, <1>11
  <2>2. f.foot \in BOOLEAN /\ Numbered(Scan(recs), f.first)
    BY <1>4, <1>11, <1>12, TailParts
  <2> HIDE DEF f
  <2> QED BY <2>1, <2>2, <1>4, <1>8, <1>10, <1>11, TailWithOk
<1>14. /\ tail_file'.exists /\ tail_file'.recs = recs /\ ~tail_file'.foot /\ tail_file'.dur = f.dur
       /\ tail_file'.id = f.id /\ tail_file'.first = f.first
  BY <1>4, <1>10, TailWithIs
<1>15. writer' = [open |-> TRUE, id |-> f.id, first |-> f.first, root |-> recs,
                  next |-> f.first + Len(recs)]
  <2>1. f.first + Len(f.recs) + 1 = f.first + Len(recs)
    BY <1>8, <1>9
  <2>2. writer' = [open |-> TRUE, id |-> f.id, first |-> f.first, root |-> recs,
                  next |-> f.first + Len(f.recs) + 1]
    BY <1>4, <1>16 DEF recs
  <2> QED BY <2>1, <2>2
<1>25. V6Up'
  BY <1>0, <1>6 DEF V6Up
<1>17. V6Tail(G)'
  <2>1. writer'.open = TRUE /\ phase' = "sync"
    BY <1>6, <1>15
  <2> QED BY <2>1, <1>9, <1>13, <1>14 DEF V6Tail
<1>18. V6Files(G)' /\ V6Chain(G)'
  BY <1>0, <1>6, SameFiles DEF V6Is
<1>19. V6Catalogues(G)'
  BY <1>0, <1>4, <1>6, <1>14, SameCatalogues DEF SameMen
<1>20. V6Work'
  <2>1. writer'.open
    BY <1>15
  <2> QED BY <2>1, <1>0, <1>6 DEF V6Is, V6Work, V6Stage, counts
<1>21. V6Writer(G)'
  <2>1. writer' = WriterOf(tail_file')
    BY <1>9, <1>14, <1>15, WriterIs
  <2>2. f.first + Len(recs) = next_lsn + 1
    BY <1>4, <1>8, <1>9
  <2>3. recs # <<>> /\ recs[Len(recs)].id = stamped[c].id
    BY <1>7, <1>8, <1>9
  <2> QED BY <2>1, <2>2, <2>3, <1>0, <1>1, <1>6, <1>14, <1>15, <1>25 DEF V6Writer
<1>22. V6Kept(G)'
  <2>1. UNCHANGED <<v6promised, v6acked>>
    BY <1>6 DEF counts
  <2>2. ASSUME NEW a, NEW n \in Nat, NEW q \in Nat, InTail(f, a, n), n <= q, n <= Len(f.recs)
        PROVE  InTail(tail_file', a, q)
    <3>1. \A k \in 1..n : tail_file'.recs[k] = f.recs[k]
      BY <2>2, <1>8, <1>9, <1>14
    <3> HIDE DEF f
    <3> QED BY <2>2, <3>1, <1>14, InTailStays
  <2>3. \A a \in v6promised : InChain(G, a) \/ InTail(tail_file', a, f.dur)
    BY <2>2, <1>8 DEF V6Is, V6Kept
  <2>4. \A a \in v6acked : InChain(G, a) \/ InTail(tail_file', a, Len(recs))
    <3> SUFFICES ASSUME NEW a \in v6acked, ~InChain(G, a) PROVE InTail(tail_file', a, Len(recs))
      OBVIOUS
    <3>1. InTail(f, a, Len(f.recs))
      BY <1>4 DEF V6Is, V6Kept
    <3>2. Len(f.recs) <= Len(recs) /\ Len(recs) \in Nat
      BY <1>8, <1>9
    <3> QED BY <3>1, <3>2, <2>2, <1>8
  <2> QED BY <2>1, <2>3, <2>4, <1>11, <1>14 DEF V6Kept
<1>23. V6Reader(G)'
  <2>1. reader.lsn < f.first + Len(f.recs) /\ reader.lsn \in Nat => reader.lsn < f.first + Len(recs)
    BY <1>8, <1>9
  <2> QED BY <2>1, <1>0, <1>4, <1>6, <1>14, <1>15, <1>25 DEF V6Is, V6Reader
<1> QED BY <1>17, <1>18, <1>19, <1>20, <1>21, <1>22, <1>23 DEF V6Is

LEMMA JobFacts ==
  /\ NoJob.op = "none" /\ NoJob.for = {} /\ NoJob.todo = <<>>
  /\ NoJob \in [op : V6Ops, for : SUBSET V6Appenders, todo : Seq(Nat)]
  /\ \A o, F, t : Job(o, F, t).op = o /\ Job(o, F, t).for = F /\ Job(o, F, t).todo = t
  /\ \A o \in V6Ops, F \in SUBSET V6Appenders, t \in Seq(Nat) :
       Job(o, F, t) \in [op : V6Ops, for : SUBSET V6Appenders, todo : Seq(Nat)]
  BY DEF NoJob, Job, V6Ops

\* The mutex is released.
LEMMA Released ==
  ASSUME V6Work, phase' \in {"idle", "closed"}, job' = NoJob,
         \A c \in V6Appenders : stamped'[c] \in {Unstamped, stamped[c]},
         stamped' = [c \in V6Appenders |-> stamped'[c]],
         v6hlc' \in Nat, next_lsn' \in Nat, ids' \in Nat
  PROVE  V6Work'
<1>1. Unstamped \in [id : Nat, ts : Nat]
  BY DEF Unstamped
<1>2. stamped \in [V6Appenders -> [id : Nat, ts : Nat]]
  BY DEF V6Work
<1>3. \A c \in V6Appenders : stamped'[c] \in [id : Nat, ts : Nat]
  BY <1>1, <1>2
<1>4. stamped' \in [V6Appenders -> [id : Nat, ts : Nat]]
  BY <1>3
<1>5. \A c \in V6Appenders : stamped'[c] # Unstamped => stamped'[c].id # 0
  BY DEF V6Work
<1>6. V6Stage'
  BY DEF V6Stage
<1> QED BY <1>4, <1>5, <1>6, JobFacts DEF V6Work

LEMMA ReturnsDo ==
  ASSUME V6Work, Returns, v6hlc' \in Nat, next_lsn' \in Nat, ids' \in Nat
  PROVE  V6Work' /\ phase' = "idle" /\ job' = NoJob /\ job'.op = "none" /\ V6Up'
<1>1. phase' = "idle" /\ job' = NoJob
  BY DEF Returns
<1>2. stamped' = [c \in V6Appenders |-> stamped'[c]]
  BY DEF Returns
<1>3. \A c \in V6Appenders : stamped'[c] \in {Unstamped, stamped[c]}
  BY DEF Returns
<1>4. V6Work'
  BY <1>1, <1>2, <1>3, Released
<1> QED BY <1>1, <1>4, JobFacts DEF V6Up

\* A file synced to its end.
LEMMA SyncedOk ==
  ASSUME NEW G, NEW f, V6TailOk(f, G), f.recs \in Seq(V6Rec), NEW foot \in BOOLEAN,
         foot => f.recs # <<>>
  PROVE  LET e == TailWith(f, f.recs, Len(f.recs), foot)
         IN  /\ V6TailOk(e, G) /\ e.recs = f.recs /\ e.id = f.id /\ e.first = f.first
             /\ e.dur = Len(f.recs) /\ e.exists /\ e.foot = foot /\ WriterOf(e) = WriterOf(f)
<1>1. /\ Scan(f.recs) = f.recs /\ Len(f.recs) \in Nat /\ Numbered(Scan(f.recs), f.first)
      /\ f.recs \in Seq(V6Rec \cup {Torn})
  BY ScanWhole, TailParts DEF V6TailOk
<1>2. Len(f.recs) <= Len(Scan(f.recs))
  BY <1>1
<1>3. V6TailOk(TailWith(f, f.recs, Len(f.recs), foot), G)
  BY <1>1, <1>2, TailWithOk
<1>4. WriterOf(TailWith(f, f.recs, Len(f.recs), foot)) = WriterOf(f)
  <2> DEFINE e == TailWith(f, f.recs, Len(f.recs), foot)
  <2>1. e.id = f.id /\ e.first = f.first /\ e.recs = f.recs
    BY TailWithIs
  <2> HIDE DEF e
  <2>2. WriterOf(e) = WriterOf(f)
    BY <2>1 DEF WriterOf
  <2> QED BY <2>2 DEF e
<1> QED BY <1>3, <1>4, TailWithIs

\* What was kept is kept when the file is synced and its records are promised.
LEMMA KeptSynced ==
  ASSUME NEW G, V6Is(G), tail_file.exists, tail_file.recs \in Seq(V6Rec),
         tail_file'.exists, tail_file'.recs = tail_file.recs,
         tail_file'.dur = Len(tail_file.recs),
         \A a \in v6acked' : a \in v6acked \/ InTail(tail_file, a, Len(tail_file.recs)),
         v6promised' \subseteq v6promised \cup v6acked'
  PROVE  V6Kept(G)'
<1>1. V6TailOk(tail_file, G)
  BY DEF V6Is, V6Tail
<1>2. /\ Scan(tail_file.recs) = tail_file.recs /\ tail_file.dur \in Nat
      /\ Len(tail_file.recs) \in Nat /\ tail_file.dur <= Len(tail_file.recs)
  BY <1>1, ScanWhole, TailParts
<1>3. ASSUME NEW a, NEW n \in Nat, InTail(tail_file, a, n), n <= Len(tail_file.recs)
      PROVE  InTail(tail_file', a, Len(tail_file.recs))
  BY <1>2, <1>3, InTailStays
<1>4. \A a \in v6acked' : InChain(G, a) \/ InTail(tail_file', a, Len(tail_file.recs))
  <2> TAKE a \in v6acked'
  <2>1. CASE a \in v6acked
    <3>1. InChain(G, a) \/ InTail(tail_file, a, Len(tail_file.recs))
      BY <2>1, <1>2 DEF V6Is, V6Kept
    <3> QED BY <3>1, <1>2, <1>3
  <2>2. CASE InTail(tail_file, a, Len(tail_file.recs))
    BY <2>2, <1>2, <1>3
  <2> QED BY <2>1, <2>2
<1>5. \A a \in v6promised : InChain(G, a) \/ InTail(tail_file', a, Len(tail_file.recs))
  <2> TAKE a \in v6promised
  <2>1. InChain(G, a) \/ InTail(tail_file, a, tail_file.dur)
    BY DEF V6Is, V6Kept
  <2> QED BY <2>1, <1>2, <1>3
<1> QED BY <1>2, <1>4, <1>5 DEF V6Kept

LEMMA Step_finish_append ==
  ASSUME NEW G, V6Is(G), finish_append
  PROVE  V6Is(G)'
<1> DEFINE f == tail_file
           n == Len(f.recs)
<1>0. /\ phase = "sync" /\ writer.open /\ job.op \in {"append", "seal"}
      /\ job.for # {} /\ V6Chain(G) /\ V6Up
  BY DEF V6Is, V6Work, V6Stage, V6Up, finish_append
<1>1. PICK c \in V6Appenders : job.for = {c} /\ f.recs[n].id = stamped[c].id
  BY <1>0 DEF V6Is, V6Writer
<1>2. Holder = c
  BY <1>1 DEF Holder
<1>3. PICK synced \in V6SyncNow :
       /\ v6acked' = v6acked \cup {<<next_lsn, stamped[Holder].id>>}
       /\ tail_file' = IF synced THEN Synced(tail_file) ELSE tail_file
       /\ v6promised' = IF synced \/ V6Policy = "always" THEN v6promised \cup v6acked'
                        ELSE v6promised
  BY DEF finish_append
<1>4. /\ next_lsn' = next_lsn + 1 /\ Returns
      /\ UNCHANGED <<raw, packed, manifests, current, v6hlc, man, before, writer, reader,
                     ids, v6crashes, v6faults, admin, passes>>
  BY DEF finish_append
<1>5. /\ f.exists /\ V6TailOk(f, G) /\ f.recs \in Seq(V6Rec) /\ Scan(f.recs) = f.recs
      /\ ~f.foot /\ f.first = EndOf(G) /\ next_lsn \in Nat /\ f.first + n = next_lsn + 1
      /\ writer = WriterOf(f)
      /\ writer = [open |-> TRUE, id |-> f.id, first |-> f.first, root |-> f.recs,
                   next |-> f.first + n]
  BY <1>0, ActiveFacts
<1>6. /\ f.dur \in Nat /\ f.dur <= n /\ n \in Nat /\ f.first \in Nat /\ f.foot \in BOOLEAN
      /\ \A k \in 1..n : f.recs[k].lsn = f.first + k - 1
  BY <1>5, TailParts
<1>7. n \in 1..n /\ f.recs[n].lsn = next_lsn
  <2>1. f.recs # <<>>
    BY <1>0 DEF V6Is, V6Writer
  <2>2. n # 0
    BY <2>1, <1>5
  <2>3. n \in 1..n
    BY <2>2, <1>6
  <2>4. f.recs[n].lsn = f.first + n - 1
    BY <2>3, <1>6
  <2>5. f.first + n - 1 = next_lsn
    BY <1>5, <1>6
  <2> QED BY <2>3, <2>4, <2>5
<1>8. InTail(f, <<next_lsn, stamped[Holder].id>>, n)
  BY <1>1, <1>2, <1>5, <1>7 DEF InTail
<1>9. /\ V6TailOk(tail_file', G) /\ tail_file'.recs = f.recs /\ tail_file'.id = f.id
      /\ tail_file'.first = f.first /\ tail_file'.exists /\ ~tail_file'.foot
      /\ WriterOf(tail_file') = WriterOf(f)
      /\ synced => tail_file'.dur = n
  <2>1. CASE synced
    <3>1. tail_file' = TailWith(f, f.recs, n, f.foot)
      BY <2>1, <1>3, <1>5, TailEdits
    <3>2. f.foot => f.recs # <<>>
      BY <1>5
    <3>3. LET e == TailWith(f, f.recs, Len(f.recs), f.foot)
          IN  /\ V6TailOk(e, G) /\ e.recs = f.recs /\ e.id = f.id /\ e.first = f.first
              /\ e.dur = Len(f.recs) /\ e.exists /\ e.foot = f.foot /\ WriterOf(e) = WriterOf(f)
      BY <3>2, <1>5, <1>6, SyncedOk
    <3> QED BY <3>1, <3>3, <1>5
  <2>2. CASE ~synced
    BY <2>2, <1>3, <1>5
  <2> QED BY <2>1, <2>2
<1>10. V6Work' /\ phase' = "idle" /\ job' = NoJob /\ job'.op = "none" /\ V6Up'
  <2>1. V6Work /\ v6hlc' \in Nat /\ ids' \in Nat /\ next_lsn' \in Nat
    BY <1>4, <1>5 DEF V6Is, V6Work
  <2> QED BY <2>1, <1>4, ReturnsDo
<1>11. V6Tail(G)'
  BY <1>0, <1>4, <1>5, <1>9, <1>10 DEF V6Tail
<1>12. V6Files(G)' /\ V6Chain(G)'
  BY <1>0, <1>4, SameFiles DEF V6Is
<1>13. V6Catalogues(G)'
  BY <1>0, <1>4, <1>5, <1>9, <1>10, SameCatalogues DEF SameMen
<1>14. V6Writer(G)'
  <2>1. writer'.open /\ writer' = WriterOf(tail_file') /\ writer'.next = next_lsn'
    <3>1. writer' = writer /\ writer.next = f.first + n /\ writer.open = TRUE
      BY <1>4, <1>5
    <3>2. f.first + n = next_lsn'
      BY <1>4, <1>5
    <3> QED BY <3>1, <3>2, <1>5, <1>9
  <2> QED BY <2>1, <1>9, <1>10 DEF V6Writer
<1>15. V6Kept(G)'
  <2>1. \A a \in v6acked' : a \in v6acked \/ InTail(f, a, n)
    BY <1>3, <1>8
  <2>2. CASE synced
    <3>1. v6promised' \subseteq v6promised \cup v6acked'
      BY <1>3
    <3> QED BY <3>1, <2>1, <2>2, <1>5, <1>9, KeptSynced
  <2>3. CASE ~synced
    <3>1. V6Policy # "always"
      BY <2>3 DEF V6SyncNow
    <3>2. tail_file' = f /\ v6promised' = v6promised
      BY <3>1, <2>3, <1>3
    <3>3. \A a \in v6acked' : InChain(G, a) \/ InTail(f, a, n)
      BY <2>1, <1>5 DEF V6Is, V6Kept
    <3> QED BY <3>2, <3>3, <1>5 DEF V6Is, V6Kept
  <2> QED BY <2>2, <2>3
<1>16. V6Reader(G)'
  BY <1>0, <1>4, <1>5, <1>9, <1>10 DEF V6Is, V6Reader
<1> QED BY <1>10, <1>11, <1>12, <1>13, <1>14, <1>15, <1>16 DEF V6Is

LEMMA Step_flush ==
  ASSUME NEW G, V6Is(G), v6_flush
  PROVE  V6Is(G)'
<1> DEFINE f == tail_file
           n == Len(f.recs)
<1>0. phase = "idle" /\ writer.open /\ job = NoJob /\ job.op = "none" /\ V6Chain(G) /\ V6Up
  BY JobFacts DEF V6Is, V6Work, V6Stage, V6Up, v6_flush, V6Idle
<1>1. /\ f.exists /\ V6TailOk(f, G) /\ f.recs \in Seq(V6Rec)
      /\ ~f.foot /\ writer = WriterOf(f)
  BY <1>0, ActiveFacts
<1>2. f.foot \in BOOLEAN
  BY <1>1, TailParts
<1>3. tail_file' = TailWith(f, f.recs, n, f.foot)
  BY <1>1, TailEdits DEF v6_flush
<1>4. /\ V6TailOk(tail_file', G) /\ tail_file'.recs = f.recs /\ tail_file'.id = f.id
      /\ tail_file'.first = f.first /\ tail_file'.exists /\ ~tail_file'.foot
      /\ WriterOf(tail_file') = WriterOf(f) /\ tail_file'.dur = n
  BY <1>1, <1>2, <1>3, SyncedOk
<1>5. /\ v6promised' = v6promised \cup v6acked
      /\ UNCHANGED <<raw, packed, manifests, current, v6hlc, man, before, writer, next_lsn, phase,
                     job, stamped, reader, ids, v6acked>>
  BY DEF v6_flush, memory
<1>6. V6Work' /\ V6Up'
  BY <1>0, <1>5 DEF V6Is, V6Work, V6Stage, V6Up
<1>7. V6Tail(G)'
  BY <1>0, <1>1, <1>4, <1>5 DEF V6Tail
<1>8. V6Files(G)' /\ V6Chain(G)'
  BY <1>0, <1>5, SameFiles DEF V6Is
<1>9. V6Catalogues(G)'
  BY <1>0, <1>1, <1>4, <1>5, SameCatalogues DEF SameMen
<1>10. V6Writer(G)'
  BY <1>0, <1>1, <1>4, <1>5, <1>6 DEF V6Is, V6Writer
<1>11. V6Kept(G)'
  BY <1>1, <1>4, <1>5, KeptSynced
<1>12. V6Reader(G)'
  BY <1>0, <1>1, <1>4, <1>5, <1>6 DEF V6Is, V6Reader
<1> QED BY <1>6, <1>7, <1>8, <1>9, <1>10, <1>11, <1>12 DEF V6Is

LEMMA Step_seal_footer ==
  ASSUME NEW G, V6Is(G), seal_footer
  PROVE  V6Is(G)'
<1> DEFINE f == tail_file
           n == Len(f.recs)
<1>0. /\ phase = "footer" /\ writer.open /\ writer.root # <<>> /\ job.op = "seal"
      /\ V6Chain(G) /\ V6Up
  BY DEF V6Is, V6Work, V6Stage, V6Up, seal_footer
<1>1. /\ f.exists /\ V6TailOk(f, G) /\ f.recs \in Seq(V6Rec) /\ writer = WriterOf(f)
      /\ writer = [open |-> TRUE, id |-> f.id, first |-> f.first, root |-> f.recs,
                   next |-> f.first + n]
  BY <1>0, ActiveFacts
<1>2. f.recs # <<>>
  BY <1>0, <1>1
<1>3. tail_file' = TailWith(f, f.recs, n, TRUE)
  BY <1>1, TailEdits DEF seal_footer
<1>4. /\ V6TailOk(tail_file', G) /\ tail_file'.recs = f.recs /\ tail_file'.id = f.id
      /\ tail_file'.first = f.first /\ tail_file'.exists /\ tail_file'.foot
      /\ WriterOf(tail_file') = WriterOf(f) /\ tail_file'.dur = n
  BY <1>1, <1>2, <1>3, SyncedOk
<1>5. /\ v6promised' = v6promised \cup v6acked /\ phase' = "rename"
      /\ UNCHANGED <<raw, packed, manifests, current, v6hlc, man, before, writer, next_lsn,
                     job, stamped, reader, ids, v6acked>>
  BY DEF seal_footer, memory
<1>6. V6Work' /\ V6Up'
  BY <1>0, <1>5 DEF V6Is, V6Work, V6Stage, V6Up
<1>7. V6Tail(G)'
  BY <1>0, <1>1, <1>4, <1>5 DEF V6Tail
<1>8. V6Files(G)' /\ V6Chain(G)'
  BY <1>0, <1>5, SameFiles DEF V6Is
<1>9. V6Catalogues(G)'
  BY <1>0, <1>1, <1>4, <1>5, SameCatalogues DEF SameMen
<1>10. V6Writer(G)'
  BY <1>0, <1>1, <1>4, <1>5, <1>6 DEF V6Is, V6Writer
<1>11. V6Kept(G)'
  BY <1>1, <1>4, <1>5, KeptSynced
<1>12. V6Reader(G)'
  BY <1>0, <1>1, <1>4, <1>5, <1>6 DEF V6Is, V6Reader
<1> QED BY <1>6, <1>7, <1>8, <1>9, <1>10, <1>11, <1>12 DEF V6Is

-----------------------------------------------------------------------------
(* A roll: the mutex taken, the rename, the next active file.              *)

\* No file, no active file.
LEMMA NoFileFacts == ~NoFile.exists /\ NoFile.dur = 0 /\ NoFile.recs = <<>>
  BY DEF NoFile

\* What is kept without an active file is in the chain.
LEMMA KeptInChain ==
  ASSUME NEW G, V6Kept(G), ~tail_file.exists
  PROVE  \A a \in v6promised \cup v6acked : InChain(G, a)
  BY DEF V6Kept, InTail

LEMMA Step_seal_active ==
  ASSUME NEW G, V6Is(G), seal_active
  PROVE  V6Is(G)'
<1> DEFINE f == tail_file
           n == Len(f.recs)
<1>0. phase = "idle" /\ writer.open /\ job = NoJob /\ job.op = "none" /\ V6Chain(G) /\ V6Up
  BY JobFacts DEF V6Is, V6Work, V6Stage, V6Up, seal_active, V6Idle
<1>1. /\ f.exists /\ V6TailOk(f, G) /\ f.recs \in Seq(V6Rec) /\ Scan(f.recs) = f.recs
      /\ ~f.foot /\ f.first = EndOf(G) /\ next_lsn \in Nat /\ f.first + n = next_lsn
      /\ writer = WriterOf(f)
      /\ writer = [open |-> TRUE, id |-> f.id, first |-> f.first, root |-> f.recs,
                   next |-> f.first + n]
  BY <1>0, ActiveFacts
<1>2. /\ job' = Job("seal", {}, <<>>)
      /\ UNCHANGED <<raw, packed, manifests, current, v6hlc, man, before, writer, next_lsn,
                     stamped, reader, ids, v6acked, v6promised>>
  BY DEF seal_active, memory
<1>3. job'.op = "seal" /\ job'.for = {} /\ job'.todo = <<>>
      /\ job' \in [op : V6Ops, for : SUBSET V6Appenders, todo : Seq(Nat)]
  <2>1. "seal" \in V6Ops /\ {} \in SUBSET V6Appenders /\ <<>> \in Seq(Nat)
    BY DEF V6Ops
  <2> QED BY <2>1, <1>2 DEF Job
<1>4. V6Files(G)' /\ V6Chain(G)' /\ Load' = Load
  BY <1>0, <1>2, SameFiles DEF V6Is
<1>5. CASE writer.root # <<>>
  <2>1. phase' = "footer" /\ tail_file' = f
    BY <1>5 DEF seal_active
  <2>2. V6Work' /\ V6Up'
    BY <1>0, <1>2, <1>3, <1>5, <2>1 DEF V6Is, V6Work, V6Stage, V6Up
  <2>3. V6Tail(G)'
    BY <1>0, <1>1, <1>2, <2>1 DEF V6Tail
  <2>4. V6Catalogues(G)'
    BY <1>0, <1>1, <1>2, <1>3, <2>1, SameCatalogues DEF SameMen
  <2>5. V6Writer(G)'
    BY <1>0, <1>1, <1>2, <1>3, <2>1, <2>2 DEF V6Is, V6Writer
  <2>6. V6Kept(G)'
    BY <1>2, <2>1, SameKept DEF V6Is
  <2>7. V6Reader(G)'
    BY <1>0, <1>2, <2>1, <2>2 DEF V6Is, V6Reader
  <2> QED BY <1>4, <2>2, <2>3, <2>4, <2>5, <2>6, <2>7 DEF V6Is
<1>6. CASE writer.root = <<>>
  <2>1. phase' = "create" /\ tail_file' = NoFile /\ ~tail_file'.exists
    BY <1>6, NoFileFacts DEF seal_active
  <2>2. V6Work' /\ V6Up'
    BY <1>0, <1>2, <1>3, <2>1 DEF V6Is, V6Work, V6Stage, V6Up
  <2>3. V6Tail(G)'
    BY <2>1 DEF V6Tail
  <2>4. f.recs = <<>> /\ n = 0 /\ f.first \in Nat /\ f.id \in Nat /\ f.dur = 0
    <3>1. f.recs = <<>>
      BY <1>1, <1>6
    <3>2. n = 0
      BY <3>1
    <3> QED BY <3>1, <3>2, <1>1, TailParts
  <2>5. next_lsn = EndOf(G) /\ writer.next = EndOf(G) /\ writer.id = f.id
    <3>1. f.first + n = f.first
      BY <2>4
    <3> QED BY <3>1, <1>1
  <2>6. V6Catalogues(G)'
    <3>1. Live(Load, G) /\ Len(Load) = Len(G) /\ Live(man, G) /\ Len(man) = Len(G)
      BY <1>0, <1>1, TailListed
    <3>2. Live(Load, G)' /\ Live(man, G)'
      BY <3>1, <1>2, <1>4, LiveTail DEF Live
    <3> QED BY <3>1, <3>2, <1>2, <1>4, <2>1 DEF V6Catalogues
  <2>7. V6Writer(G)'
    <3>1. writer'.open /\ writer'.root = <<>> /\ writer'.id \in Nat /\ writer'.next = EndOf(G)
      BY <1>0, <1>2, <1>6, <2>4, <2>5
    <3>2. \A i \in DOMAIN G : G[i].id < writer'.id
      BY <1>1, <1>2, <2>5 DEF V6TailOk
    <3>3. next_lsn' = EndOf(G)
      BY <1>2, <2>5
    <3> QED BY <3>1, <3>2, <3>3, <2>1, <2>2, <1>3 DEF V6Writer
  <2>8. V6Kept(G)'
    <3>1. \A a : ~InTail(f, a, 0)
      BY DEF InTail
    <3>2. \A a \in v6promised \cup v6acked : InChain(G, a)
      BY <3>1, <2>4, <1>1 DEF V6Is, V6Kept
    <3> QED BY <3>2, <1>2 DEF V6Kept
  <2>9. V6Reader(G)'
    <3>1. ASSUME reader # NoRead, reader.kind = "active"
          PROVE  reader.seg \in Nat /\ reader.seg <= writer.id /\ reader.seg < writer.id
      <4>1. /\ reader.seg \in Nat /\ reader.seg <= writer.id /\ reader.lsn \in Nat
            /\ f.id = reader.seg => f.first <= reader.lsn /\ reader.lsn < f.first + n
        BY <3>1, <1>0, <1>1 DEF V6Is, V6Reader
      <4>2. f.id # reader.seg
        BY <4>1, <2>4
      <4> QED BY <4>1, <4>2, <2>4, <2>5
    <3> QED BY <3>1, <1>0, <1>2, <2>1, <2>2 DEF V6Is, V6Reader
  <2> QED BY <1>4, <2>2, <2>3, <2>6, <2>7, <2>8, <2>9 DEF V6Is
<1> QED BY <1>5, <1>6

\* The segment that an active file becomes.
SegOf(f) == [id |-> f.id, first |-> f.first, recs |-> f.recs]

LEMMA SegFacts ==
  ASSUME NEW G, V6Chain(G), NEW f, V6TailOk(f, G), f.recs \in Seq(V6Rec), f.recs # <<>>
  PROVE  /\ SegOf(f) \in V6Seg /\ SegOf(f).id = f.id /\ SegOf(f).recs = f.recs
         /\ Numbered(f.recs, f.first) /\ After(SegOf(f)) = f.first + Len(f.recs)
         /\ V6Chain(Append(G, SegOf(f))) /\ EndOf(Append(G, SegOf(f))) = f.first + Len(f.recs)
         /\ Len(Append(G, SegOf(f))) = Len(G) + 1
         /\ DOMAIN Append(G, SegOf(f)) = 1..(Len(G) + 1)
         /\ Append(G, SegOf(f))[Len(G) + 1] = SegOf(f)
         /\ \A i \in DOMAIN G : /\ i \in DOMAIN Append(G, SegOf(f))
                                /\ Append(G, SegOf(f))[i] = G[i]
<1>1. f.id \in Nat /\ f.first \in Nat /\ Scan(f.recs) = f.recs
  BY TailParts, ScanWhole
<1>2. SegOf(f) \in V6Seg /\ SegOf(f).id = f.id /\ SegOf(f).recs = f.recs /\ SegOf(f).first = f.first
  BY <1>1 DEF SegOf, V6Seg
<1>3. /\ Numbered(f.recs, f.first) /\ f.first = EndOf(G)
      /\ \A i \in DOMAIN G : G[i].id < f.id
  BY <1>1 DEF V6TailOk
<1>4. After(SegOf(f)) = f.first + Len(f.recs)
  BY <1>2 DEF After
<1> DEFINE s == SegOf(f)
<1> HIDE DEF s
<1>5. /\ s \in V6Seg /\ s.recs # <<>> /\ Numbered(s.recs, s.first) /\ s.first = EndOf(G)
      /\ \A i \in DOMAIN G : G[i].id < s.id
  BY <1>2, <1>3 DEF s
<1>6. /\ V6Chain(Append(G, s)) /\ EndOf(Append(G, s)) = After(s)
      /\ Len(Append(G, s)) = Len(G) + 1 /\ Append(G, s)[Len(G) + 1] = s
      /\ DOMAIN Append(G, s) = 1..(Len(G) + 1)
      /\ \A i \in DOMAIN G : i \in DOMAIN Append(G, s) /\ Append(G, s)[i] = G[i]
  BY <1>5, ChainAppend
<1> QED BY <1>2, <1>3, <1>4, <1>6 DEF s

\* The RAW files when an active file has been renamed to one.
LEMMA FilesSealed ==
  ASSUME NEW G, V6Files(G), V6Chain(G), NEW f, V6TailOk(f, G), f.recs \in Seq(V6Rec),
         f.recs # <<>>, raw' = Put(raw, f.id, f.recs), UNCHANGED <<packed, manifests, current>>
  PROVE  V6Files(Append(G, SegOf(f)))' /\ Load' = Load /\ f.id \notin DOMAIN raw
<1> DEFINE H == Append(G, SegOf(f))
<1>1. /\ H[Len(G) + 1] = SegOf(f) /\ Len(G) + 1 \in DOMAIN H /\ SegOf(f).id = f.id
      /\ SegOf(f).recs = f.recs
      /\ \A i \in DOMAIN G : i \in DOMAIN H /\ H[i] = G[i]
  BY SegFacts, ChainFacts
<1> HIDE DEF H
<1>2. DOMAIN raw' = DOMAIN raw \cup {f.id} /\ raw'[f.id] = f.recs
      /\ \A s \in DOMAIN raw : s # f.id => raw'[s] = raw[s]
  BY DEF Put
<1>3. f.id \notin DOMAIN raw
  <2>1. \A i \in DOMAIN G : G[i].id < f.id /\ G[i].id \in Nat
    BY ChainFacts DEF V6TailOk
  <2>2. \A i \in DOMAIN G : G[i].id # f.id
    BY <2>1
  <2> QED BY <2>2 DEF V6Files, RawOf
<1>4. RawOf(raw', H)
  <2> SUFFICES ASSUME NEW s \in DOMAIN raw' PROVE \E i \in DOMAIN H : H[i].id = s /\ raw'[s] = H[i].recs
    BY DEF RawOf
  <2>1. CASE s = f.id
    BY <2>1, <1>1, <1>2
  <2>2. CASE s # f.id
    <3>1. s \in DOMAIN raw /\ raw'[s] = raw[s]
      BY <2>2, <1>2
    <3>2. PICK i \in DOMAIN G : G[i].id = s /\ raw[s] = G[i].recs
      BY <3>1 DEF V6Files, RawOf
    <3> QED BY <3>1, <3>2, <1>1
  <2> QED BY <2>1, <2>2
<1>5. IsFiniteSet(DOMAIN raw')
  <2>1. IsFiniteSet(DOMAIN raw)
    BY DEF V6Files
  <2>2. IsFiniteSet(DOMAIN raw \cup {f.id})
    BY <2>1, FS_AddElement
  <2> QED BY <2>2, <1>2
<1>6. ManifestsOk' /\ Load' = Load
  BY DEF V6Files, ManifestsOk, Generations, Load
<1> QED BY <1>3, <1>4, <1>5, <1>6 DEF V6Files, H

\* What was kept in the file is kept in the segment.
LEMMA KeptSealed ==
  ASSUME NEW G, V6Is(G), tail_file.exists, tail_file.recs \in Seq(V6Rec), tail_file.recs # <<>>,
         UNCHANGED <<v6promised, v6acked>>, NEW H, H = Append(G, SegOf(tail_file))
  PROVE  V6Kept(H)'
<1> DEFINE f == tail_file
           n == Len(G) + 1
<1>1. V6Chain(G) /\ V6TailOk(f, G)
  BY DEF V6Is, V6Tail
<1>2. /\ H[n] = SegOf(f) /\ n \in DOMAIN H /\ SegOf(f).recs = f.recs
      /\ \A i \in DOMAIN G : i \in DOMAIN H /\ H[i] = G[i]
  BY <1>1, SegFacts, ChainFacts
<1>3. /\ Len(f.recs) \in Nat /\ DOMAIN f.recs = 1..Len(f.recs) /\ f.dur \in Nat
      /\ f.dur <= Len(f.recs) /\ Scan(f.recs) = f.recs
  BY <1>1, TailParts, ScanWhole
<1> HIDE DEF n
<1>4. \A a : InChain(G, a) => InChain(H, a)
  BY <1>2 DEF InChain
<1>5. \A a : InTail(f, a, Len(f.recs)) => InChain(H, a)
  <2> TAKE a
  <2> HAVE InTail(f, a, Len(f.recs))
  <2>1. PICK k \in 1..Len(f.recs) : f.recs[k].lsn = a[1] /\ f.recs[k].id = a[2]
    BY DEF InTail
  <2>2. k \in DOMAIN H[n].recs /\ H[n].recs[k].lsn = a[1] /\ H[n].recs[k].id = a[2]
    BY <2>1, <1>2, <1>3
  <2> QED BY <2>2, <1>2 DEF InChain
<1>6. \A a : InTail(f, a, f.dur) => InTail(f, a, Len(f.recs))
  BY <1>3 DEF InTail
<1>7. \A a \in v6promised \cup v6acked : InChain(H, a)
  BY <1>3, <1>4, <1>5, <1>6 DEF V6Is, V6Kept
<1> QED BY <1>7 DEF V6Kept

\* The same of a descriptor given by name.
LEMMA LiveListedAs ==
  ASSUME NEW m, NEW G, NEW r, NEW p, NEW t, V6Live(m, G, r, p, t), V6Chain(G), Len(m) < Len(G),
         NEW u, NEW s, s = G[Len(G)], r[s.id] = s.recs, NEW d, d = Desc(s.id, s.recs)
  PROVE  /\ Upsert(m, d) = Append(m, d) /\ V6Live(Append(m, d), G, r, p, u)
         /\ Len(Append(m, d)) = Len(G) /\ Append(m, d) # m /\ ~Catalogued(m, s.id)
  BY LiveListed, SMTT(30)

LEMMA Step_seal_rename ==
  ASSUME NEW G, V6Is(G), seal_rename
  PROVE  \E H : V6Is(H)'
<1> DEFINE f == tail_file
           n == Len(f.recs)
<1>0. /\ phase = "rename" /\ writer.open /\ writer.root # <<>> /\ job.op = "seal"
      /\ V6Chain(G) /\ V6Up /\ V6Files(G)
  BY DEF V6Is, V6Work, V6Stage, V6Up, seal_rename
<1>1. /\ f.exists /\ V6TailOk(f, G) /\ f.recs \in Seq(V6Rec) /\ Scan(f.recs) = f.recs
      /\ Whole(f.recs) /\ f.first = EndOf(G) /\ next_lsn \in Nat /\ f.first + n = next_lsn
      /\ writer = [open |-> TRUE, id |-> f.id, first |-> f.first, root |-> f.recs,
                   next |-> f.first + n]
  BY <1>0, ActiveFacts
<1>2. f.recs # <<>> /\ f.id \in Nat /\ writer.id = f.id
  BY <1>0, <1>1, TailParts
<1> DEFINE s == SegOf(f)
           d == Desc(f.id, f.recs)
<1>3. PICK H : H = Append(G, s)
  OBVIOUS
<1>4. /\ V6Chain(H) /\ EndOf(H) = f.first + n /\ Len(H) = Len(G) + 1 /\ DOMAIN H = 1..(Len(G) + 1)
      /\ H[Len(G) + 1] = s /\ s.id = f.id /\ s.recs = f.recs /\ s \in V6Seg
      /\ \A i \in DOMAIN G : i \in DOMAIN H /\ H[i] = G[i]
  BY <1>0, <1>1, <1>2, <1>3, SegFacts
<1>5. f.id \notin DOMAIN raw
  <2>1. \A i \in DOMAIN G : G[i].id < f.id /\ G[i].id \in Nat
    BY <1>0, <1>1, ChainFacts DEF V6TailOk
  <2>2. \A i \in DOMAIN G : G[i].id # f.id
    BY <2>1
  <2> QED BY <2>2, <1>0 DEF V6Files, RawOf
<1>6. /\ writer' = [NoWriter EXCEPT !.id = writer.id]
      /\ raw' = Put(raw, f.id, f.recs) /\ tail_file' = NoFile
      /\ man' = Upsert(man, d) /\ before' = man /\ phase' = "commit"
      /\ UNCHANGED <<job, stamped>>
      /\ UNCHANGED <<packed, manifests, current, v6hlc, next_lsn, reader, ids, v6acked, v6promised>>
  BY <1>1, <1>5 DEF seal_rename, counts
<1>7. writer'.open = FALSE /\ writer'.id = f.id
  BY <1>2, <1>6 DEF NoWriter
<1>8. ~tail_file'.exists
  BY <1>6, NoFileFacts
<1>9. V6Up'
  BY <1>0, <1>6 DEF V6Up
<1>10. V6Files(H)' /\ Load' = Load
  <2>1. PICK e : e = f
    OBVIOUS
  <2>2. V6TailOk(e, G) /\ e.recs \in Seq(V6Rec) /\ e.recs # <<>> /\ raw' = Put(raw, e.id, e.recs)
        /\ H = Append(G, SegOf(e)) /\ UNCHANGED <<packed, manifests, current>>
    BY <2>1, <1>1, <1>2, <1>3, <1>6
  <2> HIDE DEF f
  <2>3. V6Files(Append(G, SegOf(e)))' /\ Load' = Load
    BY <2>2, <1>0, FilesSealed
  <2> QED BY <2>2, <2>3
<1>11. V6Work'
  BY <1>0, <1>6 DEF V6Is, V6Work, V6Stage
<1>12. V6Tail(H)'
  BY <1>6, <1>8 DEF V6Tail
<1>13. V6Catalogues(H)'
  <2>1. Live(Load, G) /\ Len(Load) = Len(G) /\ Live(man, G) /\ Len(man) = Len(G)
    BY <1>0, <1>1, TailListed
  <2>2. \A i \in DOMAIN G : G[i].id < s.id
    BY <1>1, <1>4 DEF V6TailOk
  <2>3. raw' = Put(raw, s.id, s.recs) /\ s.id \notin DOMAIN raw
    BY <1>4, <1>5, <1>6
  <2>4. ASSUME NEW m, Live(m, G), Len(m) = Len(G)
        PROVE  V6Live(m, H, raw', packed', FALSE)
    <3>1. V6Live(m, G, raw, packed, tail_file.exists) /\ V6Chain(G) /\ Len(m) = Len(G)
      BY <2>4, <1>0 DEF Live
    <3>2. PICK e : e = s
      OBVIOUS
    <3>3. /\ V6Chain(Append(G, e)) /\ e.id \notin DOMAIN raw /\ \A i \in DOMAIN G : G[i].id < e.id
          /\ H = Append(G, e) /\ raw' = Put(raw, e.id, e.recs) /\ packed' = packed
      BY <3>2, <2>2, <2>3, <1>3, <1>4, <1>6
    <3> HIDE DEF s
    <3>4. V6Live(m, Append(G, e), Put(raw, e.id, e.recs), packed, FALSE)
      BY <3>1, <3>3, LiveSealed
    <3> QED BY <3>3, <3>4
  <2>5. V6Live(man, H, raw', packed', FALSE) /\ V6Live(Load, H, raw', packed', FALSE)
    BY <2>1, <2>4
  <2>6. Len(man) < Len(H) /\ H[Len(H)] = s /\ raw'[s.id] = s.recs
    <3>1. Len(G) \in Nat
      BY <1>0, ChainFacts
    <3> QED BY <3>1, <2>1, <2>3, <1>4 DEF Put
  <2>7. /\ Upsert(man, d) = Append(man, d) /\ V6Live(Append(man, d), H, raw', packed', FALSE)
        /\ Len(Append(man, d)) = Len(H)
    <3>1. PICK r, q, e, c, mm : r = raw' /\ q = packed' /\ e = s /\ c = d /\ mm = man
      OBVIOUS
    <3>2. c = Desc(e.id, e.recs) /\ e = H[Len(H)] /\ r[e.id] = e.recs
      BY <2>6, <3>1, <1>4
    <3> HIDE DEF d, s, f, n
    <3>3. V6Live(mm, H, r, q, FALSE) /\ V6Chain(H) /\ Len(mm) < Len(H)
      BY <2>5, <2>6, <3>1, <1>4
    <3>4. PICK no : no = FALSE
      BY ZenonT(40)
    <3>5. V6Live(mm, H, r, q, no)
      BY <3>3, <3>4
    <3>6. V6Live(Append(mm, c), H, r, q, no)
      BY <3>2, <3>3, <3>5, LiveListedAs
    <3>7. Upsert(mm, c) = Append(mm, c)
      BY <3>2, <3>3, <3>5, LiveListedAs
    <3>8. Len(Append(mm, c)) = Len(H)
      BY <3>2, <3>3, <3>5, LiveListedAs
    <3> QED BY <3>1, <3>4, <3>6, <3>7, <3>8
  <2> HIDE DEF d
  <2>8. V6Live(man', H, raw', packed', FALSE) /\ Len(man') = Len(H)
    BY <2>7, <1>6
  <2>9. (tail_file'.exists) = FALSE
    BY <1>6 DEF NoFile
  <2>10. Live(man, H)' /\ Live(Load, H)' /\ Live(before, H)'
    BY <2>5, <2>8, <2>9, <1>6, <1>10 DEF Live
  <2> QED BY <2>8, <2>10, <1>6 DEF V6Catalogues
<1>14. V6Writer(H)'
  <2>1. next_lsn' = EndOf(H)
    BY <1>1, <1>4, <1>6
  <2>2. ASSUME NEW i \in DOMAIN H PROVE H[i].id <= f.id
    <3>1. CASE i \in DOMAIN G
      <4>1. G[i].id < f.id /\ G[i].id \in Nat
        BY <3>1, <1>0, <1>1, ChainFacts DEF V6TailOk
      <4> QED BY <4>1, <3>1, <1>2, <1>4
    <3>2. CASE i = Len(G) + 1
      BY <3>2, <1>2, <1>4
    <3> QED BY <3>1, <3>2, <1>0, <1>4, ChainFacts
  <2> QED BY <2>1, <2>2, <1>2, <1>6, <1>7, <1>8 DEF V6Writer
<1>15. V6Kept(H)'
  BY <1>1, <1>2, <1>3, <1>6, KeptSealed
<1>16. V6Reader(H)'
  <2> SUFFICES ASSUME reader # NoRead PROVE V6Reader(H)'
    BY <1>6 DEF V6Reader
  <2>1. CASE reader.kind = "active"
    BY <2>1, <1>0, <1>2, <1>6, <1>7, <1>8, <1>9 DEF V6Is, V6Reader
  <2>2. CASE reader.kind # "active"
    <3>1. PICK i \in DOMAIN G :
           /\ G[i].id = reader.seg /\ InFile(raw, packed, reader.seg, reader.gen, G[i].recs)
           /\ G[i].first <= reader.lsn /\ reader.lsn < After(G[i])
      BY <2>2 DEF V6Is, V6Reader
    <3>2. InFile(raw', packed', reader.seg, reader.gen, G[i].recs)
      BY <3>1, <1>5, <1>6 DEF InFile, Put
    <3>3. i \in DOMAIN H /\ H[i] = G[i] /\ reader.lsn \in Nat
      BY <1>4 DEF V6Is, V6Reader
    <3> QED BY <3>1, <3>2, <3>3, <2>2, <1>6, <1>9 DEF V6Reader
  <2> QED BY <2>1, <2>2
<1> QED BY <1>4, <1>10, <1>11, <1>12, <1>13, <1>14, <1>15, <1>16 DEF V6Is

LEMMA Step_create_active ==
  ASSUME NEW G, V6Is(G), NEW p \in V6Clock, create_active(p)
  PROVE  V6Is(G)'
<1>0. /\ phase = "create" /\ job.op \in {"seal", "boot"} /\ V6Chain(G)
      /\ ~tail_file.exists /\ next_lsn = EndOf(G) /\ next_lsn \in Nat
      /\ (job.op = "boot" => job.for = {})
  BY DEF V6Is, V6Work, V6Stage, V6Writer, create_active
<1> DEFINE id == IF job.op = "boot" THEN NextSegment(man)
                 ELSE IF writer.open THEN writer.id ELSE writer.id + 1
<1>1. /\ tail_file' = NewActive(id, next_lsn) /\ writer' = WriterOf(tail_file')
      /\ v6hlc' = HlcNow(v6hlc, p)
      /\ IF job.for = {} THEN phase' = "idle" /\ job' = NoJob
         ELSE phase' = "write" /\ UNCHANGED job
      /\ UNCHANGED <<raw, packed, manifests, current, man, before, next_lsn, stamped, reader,
                     ids, v6acked, v6promised>>
  BY DEF create_active, counts
<1>2. /\ Live(Load, G) /\ Live(man, G) /\ Len(man) = Len(G) /\ Len(Load) = Len(G)
  BY <1>0 DEF V6Is, V6Catalogues
<1>3. job.op # "boot" => IF writer.open THEN writer.id \in Nat /\ \A i \in DOMAIN G : G[i].id < writer.id
                         ELSE writer.id \in Nat /\ \A i \in DOMAIN G : G[i].id <= writer.id
  BY <1>0 DEF V6Is, V6Writer
<1>4. id \in Nat /\ \A i \in DOMAIN G : G[i].id < id
  <2>1. CASE job.op = "boot"
    BY <2>1, <1>0, <1>2, NextSegmentFresh DEF Live, V6Live
  <2>2. CASE job.op # "boot" /\ writer.open
    BY <2>2, <1>3
  <2>3. CASE job.op # "boot" /\ ~writer.open
    <3>1. writer.id \in Nat /\ id = writer.id + 1 /\ \A i \in DOMAIN G : G[i].id <= writer.id /\ G[i].id \in Nat
      BY <2>3, <1>0, <1>3, ChainFacts
    <3> HIDE DEF id
    <3> QED BY <3>1
  <2> QED BY <2>1, <2>2, <2>3
<1>5. /\ reader # NoRead /\ reader.kind = "active" =>
           job.op = "seal" /\ reader.seg \in Nat /\ reader.seg <= writer.id
           /\ (writer.open => reader.seg < writer.id)
  BY <1>0 DEF V6Is, V6Reader, V6Up
<1>6. reader # NoRead /\ reader.kind = "active" => reader.seg \in Nat /\ reader.seg < id
  <2> SUFFICES ASSUME reader # NoRead, reader.kind = "active" PROVE reader.seg \in Nat /\ reader.seg < id
    OBVIOUS
  <2>1. CASE writer.open
    BY <2>1, <1>5
  <2>2. CASE ~writer.open
    <3>1. id = writer.id + 1 /\ writer.id \in Nat
      BY <2>2, <1>0, <1>3, <1>5
    <3> HIDE DEF id
    <3> QED BY <3>1, <1>5
  <2> QED BY <2>1, <2>2
<1> HIDE DEF id
<1>7. /\ tail_file' = [id |-> id, first |-> EndOf(G), hdr |-> TRUE, recs |-> <<>>, dur |-> 0,
                       foot |-> FALSE, exists |-> TRUE]
      /\ EndOf(G) \in Nat
  BY <1>0, <1>1 DEF NewActive
<1>8. <<>> \in Seq(V6Rec) /\ <<>> \in Seq(V6Rec \cup {Torn}) /\ Scan(<<>>) = <<>>
  <2>1. <<>> \in Seq(V6Rec) /\ <<>> \in Seq(V6Rec \cup {Torn})
    OBVIOUS
  <2> QED BY <2>1, ScanWhole
<1>9. /\ tail_file'.id = id /\ tail_file'.first = EndOf(G) /\ tail_file'.recs = <<>>
      /\ tail_file'.dur = 0 /\ tail_file'.exists = TRUE /\ tail_file'.foot = FALSE
  BY <1>7
<1>10. V6TailOk(tail_file', G)
  <2>1. Numbered(<<>>, EndOf(G)) /\ Len(<<>>) = 0
    BY DEF Numbered
  <2>2. tail_file' \in [id : Nat, first : Nat, hdr : {TRUE}, recs : Seq(V6Rec \cup {Torn}), dur : Nat,
            foot : BOOLEAN, exists : {TRUE}]
    BY <1>4, <1>7, <1>8
  <2>3. tail_file'.dur <= Len(Scan(tail_file'.recs))
    <3>1. Scan(tail_file'.recs) = <<>> /\ tail_file'.dur = 0
      BY <1>8, <1>9
    <3> QED BY <3>1
  <2>4. Numbered(Scan(tail_file'.recs), tail_file'.first)
    BY <2>1, <1>8, <1>9
  <2>5. ~tail_file'.foot
    BY <1>9
  <2>6. tail_file'.first = EndOf(G) /\ \A i \in DOMAIN G : G[i].id < tail_file'.id
    BY <1>4, <1>9
  <2> QED BY <2>2, <2>3, <2>4, <2>5, <2>6 DEF V6TailOk
<1>11. /\ writer' = [open |-> TRUE, id |-> id, first |-> EndOf(G), root |-> <<>>,
                     next |-> EndOf(G) + Len(<<>>)]
  BY <1>1, <1>8, <1>9, WriterIs
<1>12. writer'.open = TRUE /\ writer'.id = id /\ writer'.next = EndOf(G)
  <2>1. EndOf(G) + Len(<<>>) = EndOf(G)
    BY <1>7
  <2> QED BY <2>1, <1>11
<1>13. /\ phase' \in {"idle", "write"} /\ job'.op \in {"none", "seal"}
       /\ V6Up' /\ (phase' = "write" => job'.op = "seal" /\ job' = job /\ job.for # {})
       /\ (phase' = "idle" => job' = NoJob)
  BY <1>0, <1>1, JobFacts DEF V6Up
<1>14. V6Files(G)' /\ V6Chain(G)' /\ Load' = Load
  BY <1>0, <1>1, SameFiles DEF V6Is
<1>15. V6Tail(G)'
  BY <1>8, <1>9, <1>10, <1>12, <1>13 DEF V6Tail
<1>16. V6Catalogues(G)'
  <2>1. Live(Load, G)' /\ Live(man, G)'
    BY <1>1, <1>2, <1>14, LiveTail DEF Live
  <2> QED BY <2>1, <1>13 DEF V6Catalogues
<1>17. V6Work'
  <2>1. v6hlc' \in Nat
    BY <1>1, V6Assumption, HlcNat DEF V6Is, V6Work
  <2>2. V6Stage'
    BY <1>12, <1>13 DEF V6Stage
  <2> QED BY <2>1, <2>2, <1>1, <1>13, JobFacts, SMTT(30) DEF V6Is, V6Work
<1>18. V6Writer(G)'
  BY <1>0, <1>1, <1>9, <1>12, <1>13 DEF V6Writer
<1>19. V6Kept(G)'
  BY <1>0, <1>1, KeptInChain DEF V6Is, V6Kept
<1>20. V6Reader(G)'
  <2> SUFFICES ASSUME reader # NoRead PROVE V6Reader(G)'
    BY <1>1 DEF V6Reader
  <2>1. reader' = reader /\ reader.lsn \in Nat
    BY <1>1 DEF V6Is, V6Reader
  <2>2. CASE reader.kind = "active"
    <3>1. reader.seg \in Nat /\ reader.seg <= writer'.id /\ tail_file'.id # reader.seg
      BY <2>2, <1>4, <1>6, <1>9, <1>12
    <3> QED BY <3>1, <2>1, <2>2, <1>9, <1>13 DEF V6Reader
  <2>3. CASE reader.kind # "active"
    BY <2>1, <2>3, <1>1, <1>13 DEF V6Is, V6Reader
  <2> QED BY <2>2, <2>3
<1> QED BY <1>14, <1>15, <1>16, <1>17, <1>18, <1>19, <1>20 DEF V6Is

-----------------------------------------------------------------------------
(* The commit of a manifest; packing.                                      *)

\* The reader keeps what it chose when the files only grow in number.
LEMMA ReaderStays ==
  ASSUME NEW G, V6Reader(G), reader' = reader, tail_file' = tail_file, writer' = writer,
         V6Up => V6Up',
         \A id, g, recs : InFile(raw, packed, id, g, recs) => InFile(raw', packed', id, g, recs),
         job'.op = "seal" /\ phase' \in {"commit", "current", "create"} =>
           job.op = "seal" /\ phase \in {"commit", "current", "create"}
  PROVE  V6Reader(G)'
<1> SUFFICES ASSUME reader # NoRead PROVE V6Reader(G)'
  BY DEF V6Reader
<1>1. V6Up' /\ reader.lsn \in Nat
  BY DEF V6Reader
<1>2. CASE reader.kind = "active"
  BY <1>1, <1>2 DEF V6Reader
<1>3. CASE reader.kind # "active"
  <2>1. PICK i \in DOMAIN G :
         /\ G[i].id = reader.seg /\ InFile(raw, packed, reader.seg, reader.gen, G[i].recs)
         /\ G[i].first <= reader.lsn /\ reader.lsn < After(G[i])
    BY <1>3 DEF V6Reader
  <2>2. InFile(raw', packed', reader.seg, reader.gen, G[i].recs)
    BY <2>1
  <2> QED BY <2>1, <2>2, <1>1, <1>3 DEF V6Reader
<1> QED BY <1>2, <1>3

LEMMA Step_write_manifest ==
  ASSUME NEW G, V6Is(G), write_manifest
  PROVE  V6Is(G)'
<1>1. /\ phase = "commit" /\ phase' = "current"
      /\ UNCHANGED <<tail_file, raw, packed, current, v6hlc, man, before, writer, next_lsn, job,
                     stamped, reader, ids, v6acked, v6promised>>
      /\ job.op \in {"seal", "pack", "boot", "maint", "gc"}
  BY DEF V6Is, V6Work, V6Stage, write_manifest, memory, counts
<1>2. manifests' = Put(manifests, NextManifest, man) /\ current' = current
  BY DEF write_manifest
<1>3. ManifestsOk' /\ Generations' # {} /\ manifests'[Max(Generations')] = man
  BY <1>2, LoadAfterWrite DEF V6Is, V6Files
<1>4. Load' = Load \/ Load' = man
  BY <1>2, LoadAfterWrite DEF V6Is, V6Files
<1>5. V6Chain(G) /\ V6Files(G)'
  BY <1>1, <1>3 DEF V6Is, V6Files
<1>6. V6Up' <=> V6Up
  BY <1>1 DEF V6Up
<1>7. V6Tail(G)'
  BY <1>1, <1>6 DEF V6Is, V6Tail
<1>8. V6Catalogues(G)'
  <2>1. /\ job.op # "gc" => Live(Load, G) /\ Live(before, G)
        /\ Live(man, G) /\ (job.op \in {"seal", "boot"} => Len(man) = Len(G))
    BY <1>1 DEF V6Is, V6Catalogues
  <2>2. job'.op # "gc" => Live(Load, G)' /\ Live(before, G)'
    BY <2>1, <1>1, <1>4 DEF Live
  <2>3. Live(man, G)'
    BY <2>1, <1>1 DEF Live
  <2> QED BY <2>1, <2>2, <2>3, <1>1, <1>3 DEF V6Catalogues
<1>9. V6Work'
  BY <1>1 DEF V6Is, V6Work, V6Stage
<1>10. V6Writer(G)'
  BY <1>1, <1>6 DEF V6Is, V6Writer
<1>11. V6Kept(G)'
  BY <1>1, SameKept DEF V6Is
<1>12. V6Reader(G)'
  BY <1>1, <1>6, ReaderStays DEF V6Is
<1> QED BY <1>5, <1>7, <1>8, <1>9, <1>10, <1>11, <1>12 DEF V6Is

LEMMA Step_swap_current ==
  ASSUME NEW G, V6Is(G), swap_current
  PROVE  V6Is(G)'
<1>1. /\ phase = "current"
      /\ UNCHANGED <<tail_file, raw, packed, manifests, v6hlc, man, before, writer, next_lsn,
                     stamped, reader, ids, v6acked, v6promised>>
      /\ job.op \in {"seal", "pack", "boot", "maint", "gc"}
  BY DEF V6Is, V6Work, V6Stage, swap_current, memory, counts
<1>2. \/ job.op = "seal" /\ phase' = "create"
      \/ job.op = "pack" /\ job.todo = <<>> /\ phase' = "idle"
      \/ job.op = "pack" /\ job.todo # <<>> /\ phase' = "pack"
      \/ job.op = "boot" /\ phase' = "activate"
      \/ job.op \in {"maint", "gc"} /\ phase' = "closed"
  BY <1>1 DEF swap_current
<1>3. job' = IF phase' \in {"idle", "closed"} THEN NoJob ELSE job
  BY DEF swap_current
<1>4. ManifestsOk' /\ Load' = man
  <2>1. /\ ManifestsOk /\ Generations # {} /\ manifests[Max(Generations)] = man
        /\ current' = Max(Generations) /\ manifests' = manifests
    BY <1>1 DEF V6Is, V6Files, V6Catalogues, swap_current
  <2> QED BY <2>1, LoadAfterSwap
<1>5. V6Chain(G) /\ V6Files(G)'
  BY <1>1, <1>4 DEF V6Is, V6Files
<1>6. V6Up' <=> V6Up
  BY <1>1, <1>2, <1>3, JobFacts DEF V6Up
<1>7. job'.op \in {job.op, "none"} /\ (job'.op = "boot" => job.op = "boot") /\ phase' # "rename"
      /\ job'.op # "gc"
  BY <1>1, <1>2, <1>3, JobFacts
<1>8. V6Tail(G)'
  BY <1>1, <1>6, <1>7 DEF V6Is, V6Tail
<1>9. V6Catalogues(G)'
  <2>1. Live(man, G) /\ (job.op \in {"seal", "boot"} => Len(man) = Len(G))
    BY <1>1 DEF V6Is, V6Catalogues
  <2>2. Live(man, G)' /\ Live(Load, G)'
    BY <2>1, <1>1, <1>4 DEF Live
  <2> QED BY <2>1, <2>2, <1>1, <1>2, <1>4, <1>7 DEF V6Catalogues
<1>10. V6Work'
  <2>1. V6Stage'
    BY <1>2, <1>3 DEF V6Stage
  <2>2. CASE job' = NoJob
    BY <2>1, <2>2, <1>1, JobFacts DEF V6Is, V6Work
  <2>3. CASE job' = job
    BY <2>1, <2>3, <1>1 DEF V6Is, V6Work
  <2> QED BY <2>2, <2>3, <1>3
<1>11. V6Writer(G)'
  <2>1. V6Writer(G)
    BY DEF V6Is
  <2>2. writer.open => job.op = "pack" /\ phase' # "create" /\ phase' # "sync"
    BY <2>1, <1>1, <1>2 DEF V6Writer, V6Up
  <2>3. phase' = "create" => job.op = "seal" /\ job' = job
    BY <1>2, <1>3
  <2>4. phase' # "sync" /\ phase' # "commit" /\ phase' # "current"
    BY <1>2
  <2> QED BY <2>1, <2>2, <2>3, <2>4, <1>1, <1>6, <1>7 DEF V6Writer
<1>12. V6Kept(G)'
  BY <1>1, SameKept DEF V6Is
<1>13. V6Reader(G)'
  <2>1. job'.op = "seal" => job.op = "seal"
    BY <1>7
  <2> QED BY <2>1, <1>1, <1>6, ReaderStays DEF V6Is
<1> QED BY <1>5, <1>8, <1>9, <1>10, <1>11, <1>12, <1>13 DEF V6Is

LEMMA Step_pack_pending ==
  ASSUME NEW G, V6Is(G), pack_pending
  PROVE  V6Is(G)'
<1>1. /\ phase = "idle" /\ phase' = "pack" /\ packing_queue(man) # <<>>
      /\ job' = Job("pack", {}, packing_queue(man))
      /\ UNCHANGED <<tail_file, raw, packed, manifests, current, v6hlc, man, before, writer,
                     next_lsn, stamped, reader, ids, v6acked, v6promised>>
      /\ job = NoJob
  BY DEF V6Is, V6Work, V6Stage, pack_pending, v6disk, memory, V6Idle
<1>2. man \in Seq(V6Desc)
  BY <1>1 DEF V6Is, V6Catalogues, Live, V6Live, CatOf
<1>3. /\ packing_queue(man) \in Seq(Nat)
      /\ \A k \in DOMAIN packing_queue(man) : Catalogued(man, packing_queue(man)[k])
  BY <1>2, QueueFacts
<1>4. job'.op = "pack" /\ job'.for = {} /\ job'.todo = packing_queue(man)
  BY <1>1, JobFacts
<1>5. job.op = "none" /\ V6Up /\ V6Up'
  BY <1>1, <1>4, JobFacts DEF V6Up
<1>6. V6Chain(G) /\ V6Files(G)' /\ Load' = Load
  BY <1>1, SameFiles DEF V6Is
<1>7. V6Tail(G)'
  BY <1>1, <1>5 DEF V6Is, V6Tail
<1>8. V6Catalogues(G)'
  BY <1>1, <1>4, <1>5, SameCatalogues DEF SameMen
<1>9. V6Work'
  <2>1. job' \in [op : V6Ops, for : SUBSET V6Appenders, todo : Seq(Nat)]
    <3>1. PICK q : q = packing_queue(man)
      OBVIOUS
    <3>2. job' = [op |-> "pack", for |-> {}, todo |-> q] /\ q \in Seq(Nat)
      BY <1>1, <1>3, <3>1 DEF Job
    <3> QED BY <3>2 DEF V6Ops
  <2>2. V6Stage'
    BY <1>1, <1>4 DEF V6Stage
  <2> QED BY <2>1, <2>2, <1>1, <1>3, <1>4 DEF V6Is, V6Work
<1>10. V6Writer(G)'
  BY <1>1, <1>4, <1>5 DEF V6Is, V6Writer
<1>11. V6Kept(G)'
  BY <1>1, SameKept DEF V6Is
<1>12. V6Reader(G)'
  BY <1>1, <1>4, <1>5, ReaderStays DEF V6Is
<1> QED BY <1>6, <1>7, <1>8, <1>9, <1>10, <1>11, <1>12 DEF V6Is

LEMMA Step_pack_segment ==
  ASSUME NEW G, V6Is(G), pack_segment
  PROVE  V6Is(G)'
<1> DEFINE d == DescOf(man, Head(job.todo))
           g == next_physical_generation(d)
<1>1. /\ phase = "pack" /\ job.op = "pack" /\ job.todo # <<>> /\ V6Chain(G) /\ V6Files(G)
      /\ job.todo \in Seq(Nat) /\ \A k \in DOMAIN job.todo : Catalogued(man, job.todo[k])
      /\ UNCHANGED <<tail_file, raw, manifests, current, v6hlc, writer, next_lsn, stamped, reader,
                     ids, v6acked, v6promised>>
  <2>1. /\ phase = "pack" /\ UNCHANGED <<tail_file, raw, manifests, current, v6hlc, writer, next_lsn,
                                        stamped, reader, ids, v6acked, v6promised>>
    BY DEF pack_segment, counts
  <2> QED BY <2>1 DEF V6Is, V6Work, V6Stage
<1>2. Live(Load, G) /\ Live(man, G)
  BY <1>1 DEF V6Is, V6Catalogues
<1>3. V6Up
  BY <1>1 DEF V6Up
<1>4. \/ /\ RAW_GENERATION \in DOMAIN d.gens
         /\ packed' = Put(packed, <<d.id, g>>, raw[d.id])
         /\ before' = man /\ man' = Upsert(man, record_pack(d, RAW_GENERATION, g))
         /\ phase' = "commit" /\ job' = Job("pack", {}, Tail(job.todo))
      \/ UNCHANGED <<packed, before, man>> /\ phase' = "idle" /\ job' = NoJob
  BY DEF pack_segment
<1> HIDE DEF d, g
<1>5. CASE UNCHANGED <<packed, before, man>> /\ phase' = "idle" /\ job' = NoJob
  <2>1. job'.op = "none" /\ V6Up'
    BY <1>5, JobFacts DEF V6Up
  <2>2. V6Files(G)' /\ Load' = Load
    BY <1>1, <1>5, SameFiles
  <2>3. V6Tail(G)'
    BY <1>1, <1>3, <1>5, <2>1 DEF V6Is, V6Tail
  <2>4. V6Catalogues(G)'
    BY <1>1, <1>5, <2>1, SameCatalogues DEF SameMen
  <2>5. V6Work'
    BY <1>1, <1>5, JobFacts DEF V6Is, V6Work, V6Stage
  <2>6. V6Writer(G)'
    BY <1>1, <1>3, <1>5, <2>1 DEF V6Is, V6Writer
  <2>7. V6Kept(G)'
    BY <1>1, SameKept DEF V6Is
  <2>8. V6Reader(G)'
    BY <1>1, <1>5, <2>1, ReaderStays DEF V6Is
  <2> QED BY <1>1, <2>2, <2>3, <2>4, <2>5, <2>6, <2>7, <2>8 DEF V6Is
<1>6. CASE /\ RAW_GENERATION \in DOMAIN d.gens
           /\ packed' = Put(packed, <<d.id, g>>, raw[d.id])
           /\ before' = man /\ man' = Upsert(man, record_pack(d, RAW_GENERATION, g))
           /\ phase' = "commit" /\ job' = Job("pack", {}, Tail(job.todo))
  <2>1. Catalogued(man, Head(job.todo))
    BY <1>1
  <2>2. PICK i \in DOMAIN man : man[i].id = Head(job.todo)
    BY <2>1 DEF Catalogued
  <2>3. CatOf(man, G) /\ HasFiles(man, raw, packed)
    BY <1>2 DEF Live, V6Live
  <2>4. d = man[i] /\ d \in V6Desc /\ DescOk(d, G[i]) /\ i \in DOMAIN G
    BY <2>2, <2>3, <1>1, CatFacts DEF d
  <2>5. g \in Nat \ {0} /\ g \notin DOMAIN d.gens /\ <<d.id, g>> \notin DOMAIN packed
    BY <2>4, <1>1, NextGenFresh DEF V6Files, DescOk, g
  <2>6. d.id \in DOMAIN raw /\ raw[d.id] = d.root
    BY <2>2, <2>3, <2>4, <1>6 DEF HasFiles, InFile
  <2>7. packed' = Put(packed, <<d.id, g>>, d.root)
    BY <1>6, <2>6
  <2>8. /\ record_pack(d, RAW_GENERATION, g) \in V6Desc
        /\ DescOk(record_pack(d, RAW_GENERATION, g), G[i])
    BY <2>4, <2>5, PackIs
  <2>9. man' = Edited(man, i, record_pack(d, RAW_GENERATION, g))
    <3>1. PICK e : e = record_pack(d, RAW_GENERATION, g)
      OBVIOUS
    <3>2. V6Chain(G) /\ CatOf(man, G) /\ i \in DOMAIN man /\ e \in V6Desc /\ DescOk(e, G[i])
      BY <1>1, <2>2, <2>3, <2>8, <3>1
    <3>3. Upsert(man, e) = Edited(man, i, e)
      BY <3>2, UpsertKnown
    <3> QED BY <1>6, <3>1, <3>3
  <2>10. Live(man, G)'
    <3>1. V6Live(man, G, raw, packed, tail_file.exists) /\ <<man[i].id, g>> \notin DOMAIN packed
      BY <1>2, <2>4, <2>5 DEF Live
    <3>2. V6Live(Edited(man, i, record_pack(man[i], RAW_GENERATION, g)), G, raw,
                Put(packed, <<man[i].id, g>>, man[i].root), tail_file.exists)
      BY <3>1, <2>2, <2>5, <1>1, LivePackRecorded
    <3>3. V6Live(Edited(man, i, record_pack(d, RAW_GENERATION, g)), G, raw, packed', tail_file.exists)
      BY <3>2, <2>4, <2>7
    <3> QED BY <3>3, <2>9, <1>1 DEF Live
  <2>11. Load' = Load
    BY <1>1 DEF Load, Generations
  <2>12. Live(Load, G)' /\ Live(before, G)'
    <3>1. ASSUME NEW m, Live(m, G) PROVE V6Live(m, G, raw, packed', tail_file.exists)
      BY <3>1, <2>5, <2>7, LivePacked DEF Live
    <3>2. V6Live(Load, G, raw, packed', tail_file.exists) /\ V6Live(man, G, raw, packed', tail_file.exists)
      BY <1>2, <3>1
    <3> QED BY <3>2, <2>11, <1>1, <1>6 DEF Live
  <2>13. job'.op = "pack" /\ job'.for = {} /\ job'.todo = Tail(job.todo)
    BY <1>6, JobFacts
  <2>14. V6Up'
    BY <1>6, <2>13 DEF V6Up
  <2>15. V6Catalogues(G)'
    BY <2>10, <2>12, <2>13, <1>6 DEF V6Catalogues
  <2>16. V6Files(G)'
    <3>1. DOMAIN packed' = DOMAIN packed \cup {<<d.id, g>>}
      BY <2>7, PutFacts
    <3>2. <<d.id, g>> \in Nat \X Nat
      BY <2>4, <2>5, DescFacts
    <3>3. IsFiniteSet(DOMAIN packed')
      BY <3>1, <1>1, FS_AddElement DEF V6Files
    <3>4. ManifestsOk'
      BY <1>1 DEF V6Files, ManifestsOk, Generations
    <3> QED BY <3>1, <3>2, <3>3, <3>4, <1>1 DEF V6Files
  <2>17. V6Tail(G)'
    BY <1>1, <1>3, <1>6, <2>13, <2>14 DEF V6Is, V6Tail
  <2>18. V6Work'
    <3>1. /\ Tail(job.todo) \in Seq(Nat)
          /\ \A k \in DOMAIN Tail(job.todo) : k + 1 \in DOMAIN job.todo /\ Tail(job.todo)[k] = job.todo[k + 1]
      BY <1>1, SMTT(30)
    <3>2. job' \in [op : V6Ops, for : SUBSET V6Appenders, todo : Seq(Nat)]
      <4>1. PICK q : q = Tail(job.todo)
        OBVIOUS
      <4>2. job' = [op |-> "pack", for |-> {}, todo |-> q] /\ q \in Seq(Nat)
        BY <1>6, <3>1, <4>1 DEF Job
      <4> QED BY <4>2 DEF V6Ops
    <3>3. V6Stage'
      BY <1>6, <2>13 DEF V6Stage
    <3>4. \A s : Catalogued(man, s) => Catalogued(man', s)
      <4>1. record_pack(d, RAW_GENERATION, g).id = man[i].id
        BY <2>4, <2>5, PackIs
      <4>2. /\ DOMAIN man' = DOMAIN man
            /\ \A j \in DOMAIN man : man'[j] = IF j = i THEN record_pack(d, RAW_GENERATION, g) ELSE man[j]
        BY <2>3, <2>8, <2>9, EditedFacts DEF CatOf
      <4> QED BY <4>1, <4>2, <2>9 DEF Catalogued
    <3>5. \A k \in DOMAIN job'.todo : Catalogued(man', job'.todo[k])
      BY <3>1, <3>4, <2>13, <1>1
    <3> QED BY <3>2, <3>3, <3>5, <2>13, <1>1 DEF V6Is, V6Work
  <2>19. V6Writer(G)'
    BY <1>1, <1>3, <1>6, <2>13, <2>14 DEF V6Is, V6Writer
  <2>20. V6Kept(G)'
    BY <1>1, SameKept DEF V6Is
  <2>21. V6Reader(G)'
    <3>1. \A z, c, recs : InFile(raw, packed, z, c, recs) => InFile(raw', packed', z, c, recs)
      BY <1>1, <2>5, <2>7 DEF InFile, Put
    <3> QED BY <3>1, <1>1, <2>13, <2>14, ReaderStays DEF V6Is
  <2> QED BY <1>1, <2>15, <2>16, <2>17, <2>18, <2>19, <2>20, <2>21 DEF V6Is
<1> QED BY <1>4, <1>5, <1>6

\* The path Located chooses is of the one file that has the LSN.
LEMMA LocatedFacts ==
  ASSUME NEW G, V6Is(G), V6Idle, writer.open, NEW lsn \in Nat, lsn < next_lsn
  PROVE  /\ Located(lsn).lsn = lsn
         /\ \/ /\ Located(lsn).kind = "active" /\ Located(lsn).seg = tail_file.id
               /\ tail_file.first <= lsn /\ lsn < tail_file.first + Len(tail_file.recs)
            \/ /\ Located(lsn).kind # "active"
               /\ \E i \in DOMAIN G :
                    /\ G[i].id = Located(lsn).seg
                    /\ InFile(raw, packed, Located(lsn).seg, Located(lsn).gen, G[i].recs)
                    /\ G[i].first <= lsn /\ lsn < After(G[i])
<1>1. /\ V6Chain(G) /\ tail_file.exists /\ writer.first = tail_file.first /\ writer.id = tail_file.id
      /\ tail_file.first = EndOf(G) /\ tail_file.first + Len(tail_file.recs) = next_lsn
  BY ActiveFacts DEF V6Is, V6Idle
<1>2. CASE lsn >= writer.first
  BY <1>1, <1>2 DEF Located
<1>3. CASE ~(lsn >= writer.first)
  <2>1. Live(man, G) /\ Len(man) = Len(G)
    BY <1>1, TailListed DEF V6Idle
  <2>2. CatOf(man, G) /\ HasFiles(man, raw, packed)
    BY <2>1 DEF Live, V6Live
  <2>3. lsn \in 0..(EndOf(G) - 1)
    BY <1>1, <1>3, ChainFacts
  <2>4. PICK j \in DOMAIN G : G[j].first <= lsn /\ lsn < After(G[j])
    BY <2>3, <1>1 DEF V6Chain
  <2>5. /\ DOMAIN man = DOMAIN G
        /\ \A i \in DOMAIN man : /\ man[i] \in V6Desc /\ DescOk(man[i], G[i]) /\ i \in DOMAIN G
                                 /\ After(G[i]) \in Nat /\ G[i].first \in Nat
    BY <2>1, <2>2, <1>1, CatFacts, ChainFacts
  <2>6. \A i \in DOMAIN man : man[i].first <= lsn /\ lsn <= man[i].last
                              <=> G[i].first <= lsn /\ lsn < After(G[i])
    BY <2>5 DEF DescOk
  <2> DEFINE d == CHOOSE d \in {man[i] : i \in DOMAIN man} : d.first <= lsn /\ lsn <= d.last
  <2>7. d \in {man[i] : i \in DOMAIN man} /\ d.first <= lsn /\ lsn <= d.last
    BY <2>4, <2>5, <2>6
  <2>8. Located(lsn) = [lsn |-> lsn, kind |-> Layout(d.active), seg |-> d.id, gen |-> d.active]
    BY <1>3 DEF Located
  <2> HIDE DEF d
  <2>9. PICK i \in DOMAIN man : d = man[i]
    BY <2>7
  <2>10. InFile(raw, packed, d.id, d.active, G[i].recs) /\ d.id = G[i].id
    BY <2>2, <2>5, <2>9 DEF HasFiles, DescOk
  <2>11. /\ Located(lsn).lsn = lsn /\ Located(lsn).kind # "active" /\ Located(lsn).seg = d.id
         /\ Located(lsn).gen = d.active
    BY <2>8 DEF Layout
  <2> QED BY <2>5, <2>6, <2>7, <2>9, <2>10, <2>11
<1> QED BY <1>2, <1>3

LEMMA Step_read ==
  ASSUME NEW G, V6Is(G), NEW lsn \in 0..(next_lsn - 1), v6_read(lsn)
  PROVE  V6Is(G)'
<1>1. /\ V6Idle /\ writer.open /\ lsn < next_lsn /\ reader' = Located(lsn)
      /\ UNCHANGED <<tail_file, raw, packed, manifests, current, v6hlc, man, before, writer, next_lsn,
                     phase, job, stamped, ids, v6acked, v6promised>>
  BY DEF v6_read, v6disk, memory, counts
<1>2. lsn \in Nat
  BY DEF V6Is, V6Work
<1>3. /\ V6Up /\ tail_file.exists /\ writer.id = tail_file.id /\ tail_file.id \in Nat
      /\ phase = "idle"
  BY <1>1, ActiveFacts, TailParts DEF V6Idle
<1>4. V6Up'
  BY <1>1, <1>3 DEF V6Up
<1>5. PICK rd : rd = Located(lsn)
  OBVIOUS
<1>6. /\ rd.lsn = lsn
      /\ \/ /\ rd.kind = "active" /\ rd.seg = tail_file.id
            /\ tail_file.first <= lsn /\ lsn < tail_file.first + Len(tail_file.recs)
         \/ /\ rd.kind # "active"
            /\ \E i \in DOMAIN G :
                 /\ G[i].id = rd.seg
                 /\ InFile(raw, packed, rd.seg, rd.gen, G[i].recs)
                 /\ G[i].first <= lsn /\ lsn < After(G[i])
  BY <1>1, <1>2, <1>5, LocatedFacts
<1>7. V6Reader(G)'
  <2>1. reader' = rd
    BY <1>1, <1>5
  <2>2. CASE rd.kind = "active"
    BY <2>1, <2>2, <1>1, <1>2, <1>3, <1>4, <1>6 DEF V6Reader
  <2>3. CASE rd.kind # "active"
    BY <2>1, <2>3, <1>1, <1>2, <1>4, <1>6 DEF V6Reader
  <2> QED BY <2>2, <2>3
<1>8. V6Chain(G) /\ V6Files(G)' /\ Load' = Load
  BY <1>1, SameFiles DEF V6Is
<1>9. V6Tail(G)' /\ V6Writer(G)'
  BY <1>1, <1>3, <1>4 DEF V6Is, V6Tail, V6Writer
<1>10. V6Catalogues(G)'
  BY <1>1, <1>8 DEF V6Is, V6Catalogues, Live, Generations
<1>11. V6Work'
  BY <1>1 DEF V6Is, V6Work, V6Stage
<1>12. V6Kept(G)'
  BY <1>1, SameKept DEF V6Is
<1> QED BY <1>7, <1>8, <1>9, <1>10, <1>11, <1>12 DEF V6Is

\* A step that leaves everything but the reader, which it may let go.
LEMMA Step_same ==
  ASSUME NEW G, V6Is(G), reader' \in {reader, NoRead},
         UNCHANGED <<tail_file, raw, packed, manifests, current, v6hlc, man, before, writer, next_lsn,
                     phase, job, stamped, ids, v6acked, v6promised>>
  PROVE  V6Is(G)'
<1>1. V6Chain(G) /\ V6Files(G)' /\ Load' = Load
  BY SameFiles DEF V6Is
<1>2. V6Up' <=> V6Up
  BY DEF V6Up
<1>3. V6Tail(G)' /\ V6Writer(G)'
  BY <1>2 DEF V6Is, V6Tail, V6Writer
<1>4. V6Catalogues(G)'
  BY <1>1 DEF V6Is, V6Catalogues, Live, Generations
<1>5. V6Work'
  BY DEF V6Is, V6Work, V6Stage
<1>6. V6Kept(G)'
  BY SameKept DEF V6Is
<1>7. V6Reader(G)'
  BY <1>2 DEF V6Is, V6Reader
<1> QED BY <1>1, <1>3, <1>4, <1>5, <1>6, <1>7 DEF V6Is

-----------------------------------------------------------------------------
(* Maintenance of a directory that no engine has open.                     *)

\* A maintenance operation is sound when the catalogue it commits has its files.
LEMMA Maintained ==
  ASSUME NEW G, V6Is(G), NEW m, NEW op, op \in {"maint", "gc"}, Maintain(m, op),
         RawOf(raw', G), IsFiniteSet(DOMAIN raw'),
         DOMAIN packed' \subseteq Nat \X Nat, IsFiniteSet(DOMAIN packed'),
         V6Live(m, G, raw', packed', tail_file.exists),
         op # "gc" => V6Live(Load, G, raw', packed', tail_file.exists)
  PROVE  V6Is(G)'
<1>1. /\ phase = "closed" /\ phase' = "commit" /\ before' = Load /\ man' = m /\ job' = Job(op, {}, <<>>)
      /\ UNCHANGED <<tail_file, manifests, current, v6hlc, writer, next_lsn, stamped, reader,
                     ids, v6acked, v6promised>>
  BY DEF Maintain
<1>2. job'.op = op /\ job'.for = {} /\ job'.todo = <<>>
  BY <1>1, JobFacts
<1>3. ~V6Up /\ ~V6Up' /\ ~writer.open /\ reader = NoRead /\ V6Chain(G)
  BY <1>1, <1>2 DEF V6Up, V6Is, V6Writer, V6Reader
<1>4. V6Files(G)' /\ Load' = Load
  BY <1>1 DEF V6Is, V6Files, ManifestsOk, Generations, Load
<1>5. V6Tail(G)'
  BY <1>1, <1>2, <1>3 DEF V6Is, V6Tail
<1>6. V6Catalogues(G)'
  <2>1. Live(man, G)'
    BY <1>1 DEF Live
  <2>2. job'.op # "gc" => Live(Load, G)' /\ Live(before, G)'
    BY <1>1, <1>2, <1>4 DEF Live
  <2> QED BY <2>1, <2>2, <1>1, <1>2 DEF V6Catalogues
<1>7. V6Work'
  <2>1. job' \in [op : V6Ops, for : SUBSET V6Appenders, todo : Seq(Nat)]
    BY <1>1 DEF V6Ops, Job
  <2>2. V6Stage'
    BY <1>1, <1>2 DEF V6Stage
  <2>3. job'.op # "pack"
    BY <1>2
  <2> QED BY <2>1, <2>2, <2>3, <1>1, <1>2 DEF V6Is, V6Work
<1>8. V6Writer(G)'
  BY <1>1, <1>2, <1>3 DEF V6Writer
<1>9. V6Kept(G)'
  BY <1>1, SameKept DEF V6Is
<1>10. V6Reader(G)'
  BY <1>1, <1>3 DEF V6Reader
<1> QED BY <1>3, <1>4, <1>5, <1>6, <1>7, <1>8, <1>9, <1>10 DEF V6Is

\* The manifest a maintenance operation starts from.
LEMMA LoadedFacts ==
  ASSUME NEW G, V6Is(G), phase = "closed"
  PROVE  /\ V6Chain(G) /\ Live(Load, G) /\ V6Live(Load, G, raw, packed, tail_file.exists)
         /\ CatOf(Load, G) /\ HasFiles(Load, raw, packed) /\ Load \in Seq(V6Desc)
         /\ V6Files(G) /\ RawOf(raw, G) /\ IsFiniteSet(DOMAIN raw)
         /\ DOMAIN packed \subseteq Nat \X Nat /\ IsFiniteSet(DOMAIN packed)
         /\ \A i \in DOMAIN Load : /\ i \in DOMAIN G /\ Load[i] \in V6Desc /\ DescOk(Load[i], G[i])
                                   /\ \A j \in DOMAIN Load : Load[i].id = Load[j].id => i = j
<1>1. job.op # "gc"
  BY JobFacts DEF V6Is, V6Work, V6Stage
<1>2. V6Chain(G) /\ V6Live(Load, G, raw, packed, tail_file.exists) /\ V6Files(G)
  BY <1>1 DEF V6Is, V6Catalogues, Live
<1>3. CatOf(Load, G) /\ HasFiles(Load, raw, packed)
  BY <1>2 DEF V6Live
<1>4. /\ Load \in Seq(V6Desc)
      /\ \A i \in DOMAIN Load : /\ i \in DOMAIN G /\ Load[i] \in V6Desc /\ DescOk(Load[i], G[i])
                                /\ \A j \in DOMAIN Load : Load[i].id = Load[j].id => i = j
  BY <1>2, <1>3, CatFacts
<1> QED BY <1>2, <1>3, <1>4 DEF V6Files, Live

LEMMA EditSame ==
  ASSUME NEW G, NEW m, NEW r, NEW p, NEW t, V6Live(m, G, r, p, t), m \in Seq(V6Desc),
         NEW i \in DOMAIN m, NEW e \in V6Desc, DescOk(e, G[i]), e.id = m[i].id, e.root = m[i].root,
         DOMAIN e.gens = DOMAIN m[i].gens, \A j \in DOMAIN m : DescOk(m[j], G[j])
  PROVE  V6Live(Edited(m, i, e), G, r, p, t)
<1>1. PICK n : n = Edited(m, i, e)
  OBVIOUS
<1>2. /\ n \in Seq(V6Desc) /\ Len(n) = Len(m) /\ DOMAIN n = DOMAIN m
      /\ \A j \in DOMAIN m : n[j] = IF j = i THEN e ELSE m[j]
  BY <1>1, EditedFacts
<1>3. \A j \in DOMAIN n : /\ DescOk(n[j], G[j]) /\ n[j].id = m[j].id /\ n[j].root = m[j].root
                          /\ DOMAIN n[j].gens = DOMAIN m[j].gens
  BY <1>2
<1> QED BY <1>1, <1>2, <1>3, LiveSame

LEMMA Step_repack ==
  ASSUME NEW G, V6Is(G), NEW i \in DOMAIN Load, repack(i)
  PROVE  V6Is(G)'
<1> DEFINE d == Load[i]
           g == next_physical_generation(d)
           e == record_pack(d, d.active, g)
<1>1. /\ phase = "closed" /\ raw' = raw /\ d.active # RAW_GENERATION
      /\ packed' = Put(packed, <<d.id, g>>, FileContent(d.id, d.active))
      /\ Maintain(Edited(Load, i, e), "maint")
  BY DEF repack, Maintain, Edited
<1> HIDE DEF e, g
<1>2. d \in V6Desc /\ DescOk(d, G[i]) /\ V6Chain(G) /\ HasFiles(Load, raw, packed)
  BY <1>1, LoadedFacts
<1>3. g \in Nat \ {0} /\ g \notin DOMAIN d.gens /\ <<d.id, g>> \notin DOMAIN packed
  <2>1. IsFiniteSet(DOMAIN d.gens) /\ DOMAIN d.gens # {}
    BY <1>2 DEF DescOk
  <2> QED BY <2>1, <1>1, <1>2, LoadedFacts, NextGenFresh DEF g
<1>4. FileContent(d.id, d.active) = d.root
  BY <1>1, <1>2 DEF DescOk, HasFiles, InFile, FileContent
<1>5. packed' = Put(packed, <<d.id, g>>, d.root)
  BY <1>1, <1>4
<1>6. V6Live(Load, G, raw, packed', tail_file.exists)
  BY <1>1, <1>3, <1>5, LoadedFacts, LivePacked
<1>7. V6Live(Edited(Load, i, e), G, raw, packed', tail_file.exists)
  <2>1. V6Live(Edited(Load, i, record_pack(Load[i], d.active, g)), G, raw,
               Put(packed, <<Load[i].id, g>>, Load[i].root), tail_file.exists)
    BY <1>1, <1>2, <1>3, LoadedFacts, LivePackRecorded
  <2> QED BY <2>1, <1>5 DEF e
<1>8. DOMAIN packed' \subseteq Nat \X Nat /\ IsFiniteSet(DOMAIN packed')
  <2>1. DOMAIN packed' = DOMAIN packed \cup {<<d.id, g>>}
    BY <1>5, PutFacts
  <2>2. <<d.id, g>> \in Nat \X Nat
    BY <1>2, <1>3, DescFacts
  <2>3. DOMAIN packed \subseteq Nat \X Nat /\ IsFiniteSet(DOMAIN packed)
    BY <1>1, LoadedFacts
  <2>4. IsFiniteSet(DOMAIN packed')
    BY <2>1, <2>3, FS_AddElement
  <2> QED BY <2>1, <2>2, <2>3, <2>4
<1>9. RawOf(raw', G) /\ IsFiniteSet(DOMAIN raw')
  BY <1>1, LoadedFacts
<1>10. /\ V6Live(Edited(Load, i, e), G, raw', packed', tail_file.exists)
       /\ V6Live(Load, G, raw', packed', tail_file.exists)
  BY <1>1, <1>6, <1>7
<1> HIDE DEF d
<1> QED BY <1>1, <1>8, <1>9, <1>10, Maintained

LEMMA Step_set_legal_hold ==
  ASSUME NEW G, V6Is(G), NEW i \in DOMAIN Load, NEW hold \in BOOLEAN, set_legal_hold(i, hold)
  PROVE  V6Is(G)'
<1> DEFINE d == Load[i]
<1>1. /\ phase = "closed" /\ UNCHANGED <<raw, packed>>
      /\ Maintain([Load EXCEPT ![i].hold = hold], "maint")
  BY DEF set_legal_hold, Maintain
<1>2. /\ d \in V6Desc /\ DescOk(d, G[i]) /\ Load \in Seq(V6Desc)
      /\ \A j \in DOMAIN Load : DescOk(Load[j], G[j])
      /\ V6Live(Load, G, raw, packed, tail_file.exists)
  BY <1>1, LoadedFacts
<1>0. PICK kept : kept = hold
  OBVIOUS
<1>3. PICK e : e = [id |-> d.id, first |-> d.first, last |-> d.last, root |-> d.root,
                    active |-> d.active, hold |-> kept, gens |-> d.gens]
  OBVIOUS
<1>4. [Load EXCEPT ![i].hold = hold] = Edited(Load, i, e)
  <2>1. [d EXCEPT !.hold = kept] = e
    <3>1. d = [id |-> d.id, first |-> d.first, last |-> d.last, root |-> d.root, active |-> d.active,
               hold |-> d.hold, gens |-> d.gens]
      BY <1>2 DEF V6Desc
    <3> HIDE DEF d
    <3> QED BY <3>1, <1>3
  <2>2. [Load EXCEPT ![i].hold = hold] = [Load EXCEPT ![i] = [Load[i] EXCEPT !.hold = kept]]
    BY <1>0, <1>2
  <2> QED BY <2>1, <2>2 DEF Edited
<1>5. /\ e \in V6Desc /\ e.id = d.id /\ e.root = d.root /\ e.gens = d.gens /\ e.first = d.first
      /\ e.last = d.last /\ e.active = d.active
  BY <1>0, <1>2, <1>3, DescFacts DEF V6Desc
<1>6. DescOk(e, G[i])
  BY <1>2, <1>5 DEF DescOk
<1>7. V6Live(Edited(Load, i, e), G, raw, packed, tail_file.exists)
  BY <1>2, <1>5, <1>6, EditSame
<1> QED BY <1>1, <1>2, <1>4, <1>7, LoadedFacts, Maintained

LEMMA Step_quarantine ==
  ASSUME NEW G, V6Is(G), NEW i \in DOMAIN Load, NEW bad \in DOMAIN Load[i].gens, quarantine(i, bad)
  PROVE  V6Is(G)'
<1> DEFINE d == Load[i]
           best == BestAuthority(d, bad)
           e == Quarantined(d, bad, best)
<1>1. /\ phase = "closed" /\ UNCHANGED <<raw, packed>> /\ Authorities(d) \ {bad} # {}
      /\ Maintain(Edited(Load, i, e), "maint")
  BY DEF quarantine, Maintain, Edited
<1>2. /\ d \in V6Desc /\ DescOk(d, G[i]) /\ Load \in Seq(V6Desc)
      /\ \A j \in DOMAIN Load : DescOk(Load[j], G[j])
      /\ V6Live(Load, G, raw, packed, tail_file.exists)
  BY <1>1, LoadedFacts
<1> HIDE DEF d, best
<1>3. best \in DOMAIN d.gens /\ best # bad /\ best \in Nat
  <2>1. /\ Authorities(d) \ {bad} \subseteq DOMAIN d.gens /\ DOMAIN d.gens \subseteq Nat
        /\ IsFiniteSet(DOMAIN d.gens)
    BY <1>2, DescFacts DEF Authorities, DescOk
  <2>2. IsFiniteSet(Authorities(d) \ {bad})
    BY <2>1, FS_Subset
  <2>3. best \in Authorities(d) \ {bad}
    BY <2>1, <2>2, <1>1, MaxNat DEF best, BestAuthority
  <2> QED BY <2>1, <2>3
<1>4. PICK h : h = [g \in DOMAIN d.gens |-> IF g = bad THEN "quarantined"
                                           ELSE IF g = best THEN "active" ELSE d.gens[g]]
  OBVIOUS
<1>5. e = [id |-> d.id, first |-> d.first, last |-> d.last, root |-> d.root,
           active |-> best, hold |-> d.hold, gens |-> h]
  <2>1. d = [id |-> d.id, first |-> d.first, last |-> d.last, root |-> d.root, active |-> d.active,
             hold |-> d.hold, gens |-> d.gens]
    BY <1>2 DEF V6Desc
  <2>2. e = [d EXCEPT !.gens = [g \in DOMAIN d.gens |-> IF g = bad THEN "quarantined"
                                           ELSE IF g = best THEN "active" ELSE d.gens[g]],
                      !.active = best]
    BY DEF Quarantined, e
  <2>3. e = [d EXCEPT !.gens = h, !.active = best]
    BY <2>2, <1>4
  <2> HIDE DEF e
  <2> QED BY <2>1, <2>3
<1> HIDE DEF e
<1>6. DOMAIN h = DOMAIN d.gens /\ h[best] = "active" /\ h \in V6Gens
  <2>1. h \in [DOMAIN d.gens -> V6State] /\ DOMAIN d.gens \in SUBSET Nat
    BY <1>2, <1>4, DescFacts DEF V6State
  <2> QED BY <2>1, <1>3, <1>4, GensType
<1>7. /\ e.id = d.id /\ e.root = d.root /\ e.gens = h /\ e.first = d.first
      /\ e.last = d.last /\ e.active = best
  BY <1>5
<1>8. e \in V6Desc
  BY <1>2, <1>3, <1>5, <1>6, DescFacts DEF V6Desc
<1>9. DescOk(e, G[i])
  BY <1>2, <1>3, <1>6, <1>7 DEF DescOk, IsAuthority
<1>10. V6Live(Edited(Load, i, e), G, raw, packed, tail_file.exists)
  BY <1>2, <1>6, <1>7, <1>8, <1>9, EditSame DEF d
<1> QED BY <1>1, <1>2, <1>10, LoadedFacts, Maintained

\* What a plan leaves of a descriptor that keeps its active generation.
LEMMA WithoutIs ==
  ASSUME NEW d \in V6Desc, NEW s, DescOk(d, s), NEW plan, <<d.id, d.active>> \notin plan
  PROVE  /\ Without(d, plan) \in V6Desc /\ DescOk(Without(d, plan), s)
         /\ Without(d, plan).id = d.id /\ Without(d, plan).root = d.root
         /\ DOMAIN Without(d, plan).gens = {g \in DOMAIN d.gens : <<d.id, g>> \notin plan}
<1> DEFINE S == {g \in DOMAIN d.gens : <<d.id, g>> \notin plan}
           e == Without(d, plan)
<1>1. PICK h : h = [g \in S |-> d.gens[g]]
  OBVIOUS
<1>2. e = [id |-> d.id, first |-> d.first, last |-> d.last, root |-> d.root,
           active |-> d.active, hold |-> d.hold, gens |-> h]
  <2>1. d = [id |-> d.id, first |-> d.first, last |-> d.last, root |-> d.root, active |-> d.active,
             hold |-> d.hold, gens |-> d.gens]
    BY DEF V6Desc
  <2>2. e = [d EXCEPT !.gens = [g \in S |-> d.gens[g]]]
    BY DEF Without
  <2>3. e = [d EXCEPT !.gens = h]
    BY <2>2, <1>1
  <2> HIDE DEF e
  <2> QED BY <2>1, <2>3
<1> HIDE DEF e
<1>3. d.active \in S /\ S \subseteq DOMAIN d.gens /\ S \in SUBSET Nat /\ IsFiniteSet(S)
  <2>1. S \subseteq DOMAIN d.gens /\ IsFiniteSet(DOMAIN d.gens) /\ d.active \in DOMAIN d.gens
    BY DEF DescOk
  <2>2. S \in SUBSET Nat
    BY <2>1, DescFacts
  <2> QED BY <2>1, <2>2, FS_Subset
<1>4. DOMAIN h = S /\ h[d.active] = d.gens[d.active] /\ h \in V6Gens
  <2>1. h \in [S -> V6State]
    BY <1>1, <1>3, DescFacts
  <2>2. DOMAIN h = S /\ h[d.active] = d.gens[d.active]
    BY <1>1, <1>3
  <2> HIDE DEF S
  <2> QED BY <2>1, <2>2, <1>3, GensType
<1>5. /\ e.id = d.id /\ e.root = d.root /\ e.gens = h /\ e.first = d.first
      /\ e.last = d.last /\ e.active = d.active
  BY <1>2
<1>6. e \in V6Desc
  BY <1>2, <1>4, DescFacts DEF V6Desc
<1>7. DescOk(e, s)
  BY <1>3, <1>4, <1>5 DEF DescOk
<1> QED BY <1>4, <1>5, <1>6, <1>7 DEF e

LEMMA Step_collect_garbage ==
  ASSUME NEW G, V6Is(G), collect_garbage
  PROVE  V6Is(G)'
<1>1. PICK plan \in SUBSET (UNION {{<<Load[i].id, g>> : g \in Collectable(Load[i])}
                                 : i \in DOMAIN Load}) :
        /\ Maintain([i \in DOMAIN Load |-> Without(Load[i], plan)], "gc")
        /\ raw' = [s \in {s \in DOMAIN raw : <<s, RAW_GENERATION>> \notin plan} |-> raw[s]]
        /\ packed' = [k \in DOMAIN packed \ plan |-> packed[k]]
  BY DEF collect_garbage
<1>2. phase = "closed"
  BY <1>1 DEF Maintain
<1>3. PICK old : old = Load
  OBVIOUS
<1>4. /\ V6Chain(G) /\ V6Live(old, G, raw, packed, tail_file.exists)
      /\ CatOf(old, G) /\ HasFiles(old, raw, packed) /\ old \in Seq(V6Desc)
      /\ RawOf(raw, G) /\ IsFiniteSet(DOMAIN raw)
      /\ DOMAIN packed \subseteq Nat \X Nat /\ IsFiniteSet(DOMAIN packed)
      /\ \A i \in DOMAIN old : /\ i \in DOMAIN G /\ old[i] \in V6Desc /\ DescOk(old[i], G[i])
                               /\ \A j \in DOMAIN old : old[i].id = old[j].id => i = j
  BY <1>2, <1>3, LoadedFacts
<1> DEFINE n == [i \in DOMAIN old |-> Without(old[i], plan)]
<1>5. \A x \in plan : \E i \in DOMAIN old : \E g \in Collectable(old[i]) : x = <<old[i].id, g>>
  BY <1>1, <1>3
<1>6. \A i \in DOMAIN old : <<old[i].id, old[i].active>> \notin plan
  <2> SUFFICES ASSUME NEW i \in DOMAIN old, <<old[i].id, old[i].active>> \in plan PROVE FALSE
    OBVIOUS
  <2>1. PICK j \in DOMAIN old : \E g \in Collectable(old[j]) : <<old[i].id, old[i].active>> = <<old[j].id, g>>
    BY <1>5
  <2>2. i = j /\ old[i].active \in Collectable(old[i])
    BY <2>1, <1>4
  <2> QED BY <2>2 DEF Collectable
<1>7. \A i \in DOMAIN old :
        /\ n[i] \in V6Desc /\ DescOk(n[i], G[i]) /\ n[i].id = old[i].id /\ n[i].root = old[i].root
        /\ DOMAIN n[i].gens = {g \in DOMAIN old[i].gens : <<old[i].id, g>> \notin plan}
  <2> SUFFICES ASSUME NEW i \in DOMAIN old
               PROVE  /\ n[i] \in V6Desc /\ DescOk(n[i], G[i]) /\ n[i].id = old[i].id
                      /\ n[i].root = old[i].root
                      /\ DOMAIN n[i].gens = {g \in DOMAIN old[i].gens : <<old[i].id, g>> \notin plan}
    OBVIOUS
  <2>1. n[i] = Without(old[i], plan)
    OBVIOUS
  <2>2. old[i] \in V6Desc /\ DescOk(old[i], G[i]) /\ <<old[i].id, old[i].active>> \notin plan
    BY <1>4, <1>6
  <2> HIDE DEF n
  <2>3. n[i] \in V6Desc /\ DescOk(n[i], G[i])
    BY <2>1, <2>2, WithoutIs
  <2>4. n[i].id = old[i].id /\ n[i].root = old[i].root
    BY <2>1, <2>2, WithoutIs
  <2>5. DOMAIN n[i].gens = {g \in DOMAIN old[i].gens : <<old[i].id, g>> \notin plan}
    BY <2>1, <2>2, WithoutIs
  <2> QED BY <2>3, <2>4, <2>5
<1>8. DOMAIN n = DOMAIN old /\ n \in Seq(V6Desc) /\ Len(n) = Len(old)
  <2>1. DOMAIN n = 1..Len(old) /\ Len(old) \in Nat
    BY <1>4
  <2>2. \A i \in 1..Len(old) : n[i] \in V6Desc
    BY <2>1, <1>7
  <2>3. n = [i \in 1..Len(old) |-> n[i]]
    BY <2>1
  <2> HIDE DEF n
  <2>4. n \in Seq(V6Desc) /\ Len(n) = Len(old)
    BY <2>1, <2>2, <2>3
  <2> QED BY <2>4, <2>1, <1>4
<1> HIDE DEF n
<1>9. CatOf(n, G)
  BY <1>4, <1>7, <1>8, CatSame
<1>10. /\ DOMAIN raw' = {s \in DOMAIN raw : <<s, RAW_GENERATION>> \notin plan}
       /\ DOMAIN packed' = DOMAIN packed \ plan
       /\ \A s \in DOMAIN raw' : raw'[s] = raw[s]
       /\ \A k \in DOMAIN packed' : packed'[k] = packed[k]
  BY <1>1
<1>11. HasFiles(n, raw', packed')
  <2> SUFFICES ASSUME NEW i \in DOMAIN old
               PROVE  /\ \A g \in DOMAIN n[i].gens : InFile(raw', packed', n[i].id, g, n[i].root)
                      /\ n[i].id \in DOMAIN raw' => RAW_GENERATION \in DOMAIN n[i].gens
    BY <1>8 DEF HasFiles
  <2>1. /\ \A g \in DOMAIN old[i].gens : InFile(raw, packed, old[i].id, g, old[i].root)
        /\ old[i].id \in DOMAIN raw => RAW_GENERATION \in DOMAIN old[i].gens
    BY <1>4 DEF HasFiles
  <2>2. ASSUME NEW g \in DOMAIN n[i].gens PROVE InFile(raw', packed', n[i].id, g, n[i].root)
    <3>1. g \in DOMAIN old[i].gens /\ <<old[i].id, g>> \notin plan
      BY <1>7
    <3>2. InFile(raw, packed, old[i].id, g, old[i].root)
      BY <2>1, <3>1
    <3>3. InFile(raw', packed', old[i].id, g, old[i].root)
      BY <3>1, <3>2, <1>10 DEF InFile
    <3> QED BY <3>3, <1>7
  <2>3. n[i].id \in DOMAIN raw' => RAW_GENERATION \in DOMAIN n[i].gens
    BY <2>1, <1>7, <1>10
  <2> QED BY <2>2, <2>3
<1>12. Len(n) < Len(G) => G[Len(G)].id \in DOMAIN raw' /\ ~tail_file.exists
  <2> SUFFICES ASSUME Len(n) < Len(G) PROVE G[Len(G)].id \in DOMAIN raw' /\ ~tail_file.exists
    OBVIOUS
  <2>1. G[Len(G)].id \in DOMAIN raw /\ ~tail_file.exists
    BY <1>4, <1>8 DEF V6Live
  <2>2. ASSUME NEW i \in DOMAIN old PROVE old[i].id # G[Len(G)].id
    <3>1. old[i].id = G[i].id /\ i \in 1..Len(old) /\ i \in DOMAIN G /\ Len(old) \in Nat
      BY <1>4 DEF DescOk
    <3>2. i < Len(G) /\ Len(G) \in DOMAIN G
      BY <3>1, <1>4, <1>8, ChainFacts
    <3>3. G[i].id < G[Len(G)].id /\ G[i].id \in Nat /\ G[Len(G)].id \in Nat
      BY <3>1, <3>2, <1>4, ChainFacts DEF V6Chain
    <3> QED BY <3>1, <3>3
  <2>3. <<G[Len(G)].id, RAW_GENERATION>> \notin plan
    BY <2>2, <1>5
  <2> QED BY <2>1, <2>3, <1>10
<1>13. V6Live(n, G, raw', packed', tail_file.exists)
  BY <1>9, <1>11, <1>12 DEF V6Live
<1>14. RawOf(raw', G) /\ IsFiniteSet(DOMAIN raw') /\ DOMAIN packed' \subseteq Nat \X Nat
  <2>1. DOMAIN raw' \subseteq DOMAIN raw
    BY <1>10
  <2>2. IsFiniteSet(DOMAIN raw')
    BY <2>1, <1>4, FS_Subset
  <2> QED BY <2>2, <1>4, <1>10 DEF RawOf
<1>15. IsFiniteSet(DOMAIN packed')
  <2>1. DOMAIN packed' \subseteq DOMAIN packed
    BY <1>10
  <2> QED BY <2>1, <1>4, FS_Subset
<1>16. Maintain(n, "gc")
  BY <1>1, <1>3 DEF n
<1>17. PICK op : op = "gc"
  OBVIOUS
<1>18. Maintain(n, op) /\ op \in {"maint", "gc"} /\ ~(op # "gc")
  BY <1>16, <1>17
<1> QED BY <1>13, <1>14, <1>15, <1>18, Maintained

LEMMA Step_prune ==
  ASSUME NEW G, V6Is(G), prune_old_manifests
  PROVE  V6Is(G)'
<1>1. /\ phase = "closed" /\ current' = current /\ Kept # Generations
      /\ manifests' = [g \in Kept |-> manifests[g]]
      /\ UNCHANGED <<tail_file, raw, packed, v6hlc, man, before, writer, next_lsn, phase, job,
                     stamped, reader, ids, v6acked, v6promised>>
  BY DEF prune_old_manifests, memory
<1>2. ManifestsOk' /\ Load' = Load
  BY <1>1, LoadAfterPrune DEF V6Is, V6Files
<1>3. V6Chain(G) /\ V6Files(G)'
  BY <1>1, <1>2 DEF V6Is, V6Files
<1>4. V6Up' <=> V6Up
  BY <1>1 DEF V6Up
<1>5. V6Tail(G)' /\ V6Writer(G)'
  BY <1>1, <1>4 DEF V6Is, V6Tail, V6Writer
<1>6. V6Catalogues(G)'
  BY <1>1, <1>2 DEF V6Is, V6Catalogues, Live
<1>7. V6Work'
  BY <1>1 DEF V6Is, V6Work, V6Stage
<1>8. V6Kept(G)'
  BY <1>1, SameKept DEF V6Is
<1>9. V6Reader(G)'
  BY <1>1, <1>4 DEF V6Is, V6Reader
<1> QED BY <1>3, <1>5, <1>6, <1>7, <1>8, <1>9 DEF V6Is

-----------------------------------------------------------------------------
(* Crashes and failed file operations.                                     *)

\* What a crash may leave of the active file goes on where the chain ends.
LEMMA CutOk ==
  ASSUME NEW G, NEW f, V6TailOk(f, G), NEW n \in f.dur..Len(f.recs), NEW t \in {<<>>, <<Torn>>},
         f.foot => n = Len(f.recs) /\ t = <<>>
  PROVE  /\ V6TailOk(TailWith(f, SubSeq(f.recs, 1, n) \o t, f.dur, f.foot), G)
         /\ \A k \in 1..f.dur : (SubSeq(f.recs, 1, n) \o t)[k] = f.recs[k]
<1> DEFINE recs == SubSeq(f.recs, 1, n) \o t
           s == Scan(f.recs)
           u == Scan(recs)
<1>1. /\ f.dur \in Nat /\ f.foot \in BOOLEAN /\ f.first \in Nat
      /\ f.recs \in Seq(V6Rec \cup {Torn}) /\ Len(f.recs) \in Nat
      /\ s \in Seq(V6Rec) /\ Len(s) \in Nat /\ f.dur <= Len(s) /\ Len(s) <= Len(f.recs)
      /\ \A k \in 1..Len(s) : s[k] = f.recs[k] /\ f.recs[k].lsn = f.first + k - 1
  BY TailParts
<1>2. n \in Nat /\ n <= Len(f.recs) /\ f.dur <= n
  BY <1>1
<1>3. /\ SubSeq(f.recs, 1, n) \in Seq(V6Rec \cup {Torn}) /\ Len(SubSeq(f.recs, 1, n)) = n
      /\ \A k \in 1..n : SubSeq(f.recs, 1, n)[k] = f.recs[k]
  BY <1>1, <1>2
<1>4. t \in Seq(V6Rec \cup {Torn}) /\ Len(t) \in {0, 1} /\ (Len(t) = 1 => t[1] = Torn)
  <2>1. CASE t = <<>>
    BY <2>1
  <2>2. CASE t = <<Torn>>
    BY <2>2
  <2> QED BY <2>1, <2>2
<1>5. /\ recs \in Seq(V6Rec \cup {Torn}) /\ Len(recs) = n + Len(t)
      /\ \A k \in 1..n : recs[k] = f.recs[k]
      /\ Len(t) = 1 => recs[n + 1] = Torn
  <2>1. PICK a : a = SubSeq(f.recs, 1, n)
    OBVIOUS
  <2>2. /\ a \in Seq(V6Rec \cup {Torn}) /\ Len(a) = n /\ \A k \in 1..n : a[k] = f.recs[k]
        /\ recs = a \o t
    BY <2>1, <1>3
  <2> HIDE DEF recs
  <2>3. /\ recs \in Seq(V6Rec \cup {Torn}) /\ Len(recs) = Len(a) + Len(t)
        /\ \A i \in 1..(Len(a) + Len(t)) :
             recs[i] = IF i <= Len(a) THEN a[i] ELSE t[i - Len(a)]
    <3>1. PICK B : B = V6Rec \cup {Torn}
      OBVIOUS
    <3>2. a \in Seq(B) /\ t \in Seq(B)
      BY <2>2, <3>1, <1>4
    <3>3. /\ a \o t \in Seq(B) /\ Len(a \o t) = Len(a) + Len(t)
          /\ \A i \in 1..(Len(a) + Len(t)) :
               (a \o t)[i] = IF i <= Len(a) THEN a[i] ELSE t[i - Len(a)]
      BY <3>2, ConcatProperties
    <3> QED BY <2>2, <3>1, <3>3
  <2>4. /\ \A k \in 1..n : k \in 1..(n + Len(t)) /\ k <= n
        /\ Len(t) = 1 => n + 1 \in 1..(n + Len(t)) /\ ~(n + 1 <= n) /\ n + 1 - n = 1
    BY <1>2, <1>4
  <2>5. \A k \in 1..n : recs[k] = f.recs[k]
    BY <2>2, <2>3, <2>4, Zenon
  <2>6. Len(t) = 1 => recs[n + 1] = Torn
    BY <2>2, <2>3, <2>4, <1>4
  <2> QED BY <2>2, <2>3, <2>5, <2>6
<1> HIDE DEF recs
<1>6. /\ u \in Seq(V6Rec) /\ Len(u) \in 0..Len(recs)
      /\ \A k \in 1..Len(u) : u[k] = recs[k]
      /\ \A m \in 0..Len(recs) : (\A k \in 1..m : recs[k] # Torn) => m <= Len(u)
  BY <1>5, ScanFacts
<1> DEFINE q == Len(u)
<1>7. q \in Nat /\ q <= n + Len(t) /\ \A k \in 1..q : recs[k] # Torn
  <2>1. \A k \in 1..q : u[k] \in V6Rec
    BY <1>6
  <2> QED BY <2>1, <1>5, <1>6, <1>2, <1>4, TornIsNone
<1> HIDE DEF q
<1>8. q <= n
  <2>1. CASE Len(t) = 0
    BY <2>1, <1>7, <1>2
  <2>2. CASE Len(t) = 1
    <3>1. ~(n + 1 \in 1..q)
      BY <2>2, <1>5, <1>7
    <3> QED BY <3>1, <1>2, <1>7
  <2> QED BY <2>1, <2>2, <1>4
<1>9. f.dur <= q
  <2>1. \A k \in 1..f.dur : recs[k] # Torn
    <3> TAKE k \in 1..f.dur
    <3>1. k \in 1..Len(s) /\ k \in 1..n
      BY <1>1, <1>2
    <3>2. s[k] \in V6Rec /\ recs[k] = s[k]
      BY <3>1, <1>1, <1>5
    <3> QED BY <3>2, TornIsNone
  <2>2. f.dur \in 0..Len(recs)
    BY <1>1, <1>2, <1>4, <1>5
  <2> QED BY <2>1, <2>2, <1>6 DEF q
<1>10. q <= Len(s)
  <2>1. \A k \in 1..q : f.recs[k] # Torn
    BY <1>2, <1>5, <1>7, <1>8
  <2>2. q \in 0..Len(f.recs)
    BY <1>2, <1>7, <1>8, <1>1
  <2> QED BY <2>1, <2>2, <1>1, ScanFacts
<1>11. Numbered(u, f.first)
  <2> SUFFICES ASSUME NEW k \in DOMAIN u PROVE u[k].lsn = f.first + k - 1
    BY DEF Numbered
  <2>1. k \in 1..q
    BY <1>6 DEF q
  <2>2. u[k] = recs[k]
    BY <2>1, <1>6 DEF q
  <2>3. k \in 1..n /\ k \in 1..Len(s)
    BY <2>1, <1>1, <1>2, <1>7, <1>8, <1>10
  <2> QED BY <2>2, <2>3, <1>1, <1>5
<1>12. f.foot => recs = f.recs
  <2> SUFFICES ASSUME f.foot PROVE recs = f.recs
    OBVIOUS
  <2>1. n = Len(f.recs) /\ t = <<>>
    OBVIOUS
  <2> QED BY <2>1, <1>1 DEF recs
<1>13. f.foot => recs \in Seq(V6Rec) /\ recs # <<>> /\ f.dur = Len(recs)
  BY <1>12 DEF V6TailOk
<1>14. V6TailOk(TailWith(f, recs, f.dur, f.foot), G)
  BY <1>1, <1>5, <1>9, <1>11, <1>13, TailWithOk DEF q
<1>15. \A k \in 1..f.dur : recs[k] = f.recs[k]
  BY <1>1, <1>2, <1>5
<1> QED BY <1>14, <1>15 DEF recs

LEMMA Step_crash ==
  ASSUME NEW G, V6Is(G), ~HeaderMayBeLost, ~GcInterrupted, NEW kind \in V6CrashKinds, v6_crash(kind)
  PROVE  V6Is(G)'
<1>1. /\ phase # "closed" /\ job.op # "gc" /\ tail_file' \in CrashedTail(kind)
      /\ v6hlc' = 0 /\ phase' = "closed" /\ writer' = NoWriter /\ next_lsn' = 0
      /\ job' = NoJob /\ stamped' = [c \in V6Appenders |-> Unstamped] /\ reader' = NoRead
      /\ v6acked' = {} /\ UNCHANGED <<raw, packed, manifests, current, ids, v6promised>>
  BY DEF v6_crash
<1>2. V6Chain(G) /\ V6Files(G)' /\ Load' = Load /\ Live(Load, G) /\ V6Kept(G)
  BY <1>1, SameFiles DEF V6Is, V6Catalogues
<1>3. ~V6Up' /\ job'.op = "none" /\ job'.for = {}
  BY <1>1, JobFacts DEF V6Up
<1> DEFINE f == tail_file
<1>4. \/ tail_file' = f
      \/ /\ f.exists
         /\ \E n \in f.dur..Len(f.recs), t \in {<<>>, <<Torn>>} :
              /\ tail_file' = [f EXCEPT !.recs = SubSeq(@, 1, n) \o t]
              /\ (f.foot => n = Len(f.recs)) /\ (f.foot => t = <<>>)
  <2> SUFFICES ASSUME tail_file' # f
               PROVE  /\ f.exists
                      /\ \E n \in f.dur..Len(f.recs), t \in {<<>>, <<Torn>>} :
                           /\ tail_file' = [f EXCEPT !.recs = SubSeq(@, 1, n) \o t]
                           /\ (f.foot => n = Len(f.recs)) /\ (f.foot => t = <<>>)
    OBVIOUS
  <2>1. PICK n \in IF kind = "power" /\ f.exists /\ ~f.foot THEN f.dur..Len(f.recs) ELSE {Len(f.recs)},
             t \in IF phase \in {"write", "sync"} THEN {<<>>, <<Torn>>} ELSE {<<>>} :
          f.exists /\ tail_file' = [f EXCEPT !.recs = SubSeq(@, 1, n) \o t]
    <3> DEFINE K == IF kind = "power" /\ f.exists /\ ~f.foot THEN f.dur..Len(f.recs) ELSE {Len(f.recs)}
               T == IF phase \in {"write", "sync"} THEN {<<>>, <<Torn>>} ELSE {<<>>}
               cut(n, t) == [f EXCEPT !.recs = SubSeq(@, 1, n) \o t]
               Z == IF HeaderMayBeLost /\ phase = "create"
                    THEN {[NewActive(NextSegment(man), next_lsn) EXCEPT !.hdr = FALSE]} ELSE {}
    <3>0. CrashedTail(kind) = {f} \cup {c \in {cut(n, t) : n \in K, t \in T} : f.exists} \cup Z
      BY DEF CrashedTail
    <3>1. Z = {}
      OBVIOUS
    <3> HIDE DEF K, T, cut, f, Z
    <3>2. \E n \in K, t \in T : f.exists /\ tail_file' = cut(n, t)
      BY <3>0, <3>1, <1>1
    <3> QED BY <3>2 DEF K, T, cut
  <2>2. V6TailOk(f, G)
    BY <2>1 DEF V6Is, V6Tail
  <2>3. n \in f.dur..Len(f.recs)
    <3>1. f.dur \in Nat /\ Len(f.recs) \in Nat /\ f.dur <= Len(f.recs)
      BY <2>2, TailParts
    <3> QED BY <3>1, <2>1
  <2>4. f.foot => n = Len(f.recs)
    BY <2>1
  <2>5. f.foot => t = <<>>
    <3>1. phase \in {"write", "sync"} => V6Up
      BY DEF V6Up, V6Is, V6Work, V6Stage
    <3>2. phase \in {"write", "sync"} => ~f.foot
      BY <2>1, <3>1 DEF V6Is, V6Tail
    <3> QED BY <3>2, <2>1
  <2>6. t \in {<<>>, <<Torn>>}
    BY <2>1
  <2> QED BY <2>1, <2>3, <2>4, <2>5, <2>6
<1>5. \/ tail_file' = f
      \/ /\ f.exists /\ tail_file'.exists /\ V6TailOk(tail_file', G) /\ tail_file'.dur = f.dur
         /\ f.dur \in Nat /\ \A k \in 1..f.dur : tail_file'.recs[k] = f.recs[k]
  <2> SUFFICES ASSUME tail_file' # f
               PROVE  /\ f.exists /\ tail_file'.exists /\ V6TailOk(tail_file', G)
                      /\ tail_file'.dur = f.dur
                      /\ f.dur \in Nat /\ \A k \in 1..f.dur : tail_file'.recs[k] = f.recs[k]
    OBVIOUS
  <2>1. PICK n \in f.dur..Len(f.recs), t \in {<<>>, <<Torn>>} :
              /\ tail_file' = [f EXCEPT !.recs = SubSeq(@, 1, n) \o t]
              /\ (f.foot => n = Len(f.recs)) /\ (f.foot => t = <<>>)
    BY <1>4
  <2>2. f.exists /\ V6TailOk(f, G)
    BY <1>4 DEF V6Is, V6Tail
  <2>3. PICK recs : recs = SubSeq(f.recs, 1, n) \o t
    OBVIOUS
  <2>4. tail_file' = [f EXCEPT !.recs = recs]
    BY <2>1, <2>3
  <2>5. tail_file' = TailWith(f, recs, f.dur, f.foot)
    BY <2>2, <2>4, TailEdits
  <2>6. /\ V6TailOk(TailWith(f, recs, f.dur, f.foot), G) /\ \A k \in 1..f.dur : recs[k] = f.recs[k]
    <3>1. V6TailOk(f, G) /\ (f.foot => n = Len(f.recs) /\ t = <<>>)
      BY <2>1, <2>2
    <3> HIDE DEF f
    <3>2. V6TailOk(TailWith(f, SubSeq(f.recs, 1, n) \o t, f.dur, f.foot), G)
      BY <3>1, CutOk
    <3>3. \A k \in 1..f.dur : (SubSeq(f.recs, 1, n) \o t)[k] = f.recs[k]
      BY <3>1, CutOk
    <3> QED BY <3>2, <3>3, <2>3
  <2>7. tail_file'.exists /\ tail_file'.dur = f.dur /\ tail_file'.recs = recs
    BY <2>5, TailWithIs
  <2>8. f.dur \in Nat
    BY <2>2, TailParts
  <2> QED BY <2>2, <2>5, <2>6, <2>7, <2>8
<1>6. V6Tail(G)'
  <2>1. CASE ~f.exists
    BY <2>1, <1>5 DEF V6Is, V6Tail
  <2>2. CASE f.exists
    <3>1. V6TailOk(f, G)
      BY <2>2 DEF V6Is, V6Tail
    <3>2. V6TailOk(tail_file', G) /\ tail_file'.exists
      BY <2>2, <3>1, <1>5
    <3> QED BY <3>2, <1>3 DEF V6Tail
  <2> QED BY <2>1, <2>2
<1>7. V6Catalogues(G)'
  <2>1. tail_file'.exists <=> f.exists
    BY <1>5
  <2>2. Live(Load, G)'
    BY <2>1, <1>1, <1>2 DEF Live, V6Live
  <2> QED BY <2>2, <1>1 DEF V6Catalogues
<1>8. V6Work'
  <2>1. V6Stage'
    BY <1>1 DEF V6Stage
  <2>2. job' \in [op : V6Ops, for : SUBSET V6Appenders, todo : Seq(Nat)]
    BY <1>1, JobFacts
  <2>3. Unstamped \in [id : Nat, ts : Nat]
    BY DEF Unstamped
  <2>4. stamped' \in [V6Appenders -> [id : Nat, ts : Nat]] /\ \A c \in V6Appenders : stamped'[c] = Unstamped
    BY <2>3, <1>1
  <2>5. ids' \in Nat
    BY <1>1 DEF V6Is, V6Work
  <2> QED BY <2>1, <2>2, <2>4, <2>5, <1>1, <1>3 DEF V6Work
<1>9. V6Writer(G)'
  BY <1>1, <1>3 DEF V6Writer, NoWriter
<1>10. V6Kept(G)'
  <2> SUFFICES ASSUME NEW a \in v6promised, ~InChain(G, a)
               PROVE  InTail(tail_file', a, tail_file'.dur)
    BY <1>1 DEF V6Kept
  <2>1. InTail(f, a, f.dur)
    BY <1>2 DEF V6Kept
  <2>2. CASE tail_file' = f
    BY <2>1, <2>2
  <2>3. CASE tail_file' # f
    BY <2>1, <2>3, <1>5 DEF InTail
  <2> QED BY <2>2, <2>3
<1>11. V6Reader(G)'
  BY <1>1 DEF V6Reader
<1> QED BY <1>2, <1>6, <1>7, <1>8, <1>9, <1>10, <1>11 DEF V6Is

LEMMA Step_io_error ==
  ASSUME NEW G, V6Is(G), ~HeaderMayBeLost, ~GcInterrupted, V6FaultKinds \subseteq {"commit", "create"},
         v6_io_error
  PROVE  V6Is(G)'
<1>1. /\ job.op # "gc" /\ tail_file' = tail_file
      /\ \/ phase \in {"commit", "current"} /\ man' = before
         \/ phase = "create" /\ man' = man
      /\ stamped' = [c \in V6Appenders |-> IF c \in job.for THEN Unstamped ELSE stamped[c]]
      /\ phase' = IF job.op \in {"boot", "maint", "gc"} THEN "closed" ELSE "idle"
      /\ job' = NoJob
      /\ writer' = IF phase = "create" THEN NoWriter ELSE writer
      /\ UNCHANGED <<raw, packed, manifests, current, v6hlc, before, next_lsn, reader, ids,
                     v6acked, v6promised>>
  BY DEF v6_io_error
<1>2. V6Chain(G) /\ V6Files(G)' /\ Load' = Load
  BY <1>1, SameFiles DEF V6Is
<1>3. job'.op = "none" /\ job'.for = {} /\ phase' \in {"idle", "closed"}
  BY <1>1, JobFacts
<1>4. V6Up' <=> V6Up
  BY <1>1, <1>3 DEF V6Up
<1>5. V6Tail(G)'
  <2>1. tail_file.exists => phase # "create"
    BY DEF V6Is, V6Writer
  <2> QED BY <2>1, <1>1, <1>3, <1>4 DEF V6Is, V6Tail
<1>6. V6Catalogues(G)'
  <2>1. Live(Load, G) /\ Live(man', G)
    BY <1>1 DEF V6Is, V6Catalogues
  <2>2. Live(Load, G)' /\ Live(man, G)'
    BY <2>1, <1>1, <1>2 DEF Live
  <2> QED BY <2>2, <1>3 DEF V6Catalogues
<1>7. V6Work'
  <2>1. stamped' = [c \in V6Appenders |-> stamped'[c]]
    BY <1>1
  <2>2. \A c \in V6Appenders : stamped'[c] \in {Unstamped, stamped[c]}
    BY <1>1
  <2>3. v6hlc' \in Nat /\ next_lsn' \in Nat /\ ids' \in Nat /\ V6Work
    BY <1>1 DEF V6Is, V6Work
  <2> QED BY <2>1, <2>2, <2>3, <1>1, <1>3, Released
<1>8. V6Writer(G)'
  <2>1. NoWriter.open = FALSE
    BY DEF NoWriter
  <2>2. CASE phase = "create"
    BY <2>1, <2>2, <1>1, <1>3 DEF V6Writer
  <2>3. CASE phase # "create"
    BY <2>3, <1>1, <1>3, <1>4 DEF V6Is, V6Writer
  <2> QED BY <2>2, <2>3
<1>9. V6Kept(G)'
  BY <1>1, SameKept DEF V6Is
<1>10. V6Reader(G)'
  <2>1. CASE phase # "create"
    BY <2>1, <1>1, <1>3, <1>4, ReaderStays DEF V6Is
  <2>2. CASE phase = "create"
    <3> SUFFICES ASSUME reader # NoRead PROVE V6Reader(G)'
      BY <1>1 DEF V6Reader
    <3>1. V6Up' /\ reader.lsn \in Nat
      BY <1>4 DEF V6Is, V6Reader
    <3>2. ~writer'.open /\ ~tail_file'.exists
      BY <2>2, <1>1 DEF NoWriter, V6Is, V6Writer
    <3>3. CASE reader.kind = "active"
      <4>1. reader.seg \in Nat
        BY <3>3 DEF V6Is, V6Reader
      <4> QED BY <4>1, <3>1, <3>2, <3>3, <1>1, <1>3 DEF V6Reader
    <3>4. CASE reader.kind # "active"
      BY <3>1, <3>4, <1>1 DEF V6Is, V6Reader
    <3> QED BY <3>3, <3>4
  <2> QED BY <2>1, <2>2
<1> QED BY <1>2, <1>5, <1>6, <1>7, <1>8, <1>9, <1>10 DEF V6Is

-----------------------------------------------------------------------------
(* The boot.                                                               *)

\* Boot goes on with a catalogue that lists a whole chain.
LEMMA Opened ==
  ASSUME NEW G, V6Is(G), phase = "closed", NEW H, V6Chain(H), V6Files(H)', V6Tail(H)', V6Kept(H)',
         Live(Load, H)', Live(man, H)', before' = man', Len(man') = Len(H),
         phase' \in {"commit", "activate"}, phase' = "activate" => Len(Load') = Len(H),
         job' = Job("boot", {}, <<>>), UNCHANGED <<v6hlc, writer, next_lsn, stamped, reader, ids>>
  PROVE  V6Is(H)'
<1>1. job'.op = "boot" /\ job'.for = {} /\ job'.todo = <<>>
  BY JobFacts
<1>2. ~V6Up /\ ~V6Up' /\ ~writer.open /\ reader = NoRead
  BY <1>1 DEF V6Up, V6Is, V6Writer, V6Reader
<1>3. V6Catalogues(H)'
  <2>1. Live(before, H)'
    BY DEF Live
  <2> QED BY <2>1, <1>1 DEF V6Catalogues
<1>4. V6Work'
  <2>1. job' \in [op : V6Ops, for : SUBSET V6Appenders, todo : Seq(Nat)]
    BY DEF V6Ops, Job
  <2>2. V6Stage'
    BY <1>1 DEF V6Stage
  <2>3. job'.op # "pack"
    BY <1>1
  <2> QED BY <2>1, <2>2, <2>3, <1>1 DEF V6Is, V6Work
<1>5. V6Writer(H)'
  BY <1>1, <1>2 DEF V6Writer
<1>6. V6Reader(H)'
  BY <1>2 DEF V6Reader
<1> QED BY <1>3, <1>4, <1>5, <1>6 DEF V6Is

\* What a boot finds of the RAW files agrees with the catalogue it loads.
LEMMA RawFound ==
  ASSUME NEW G, V6Chain(G), RawOf(raw, G), NEW m, CatOf(m, G), HasFiles(m, raw, packed),
         NEW id \in DOMAIN raw
  PROVE  RawAgrees(m, id, raw[id])
<1>1. PICK i \in DOMAIN G : G[i].id = id /\ raw[id] = G[i].recs
  BY DEF RawOf
<1>2. raw[id] # <<>> /\ Whole(raw[id])
  <2>1. G[i].recs \in Seq(V6Rec) /\ Len(G[i].recs) # 0
    BY <1>1, ChainFacts
  <2> QED BY <2>1, <1>1, ScanWhole
<1>3. Catalogued(m, id) => /\ RAW_GENERATION \in DOMAIN DescOf(m, id).gens
                           /\ DescOf(m, id).root = raw[id]
  <2> SUFFICES ASSUME Catalogued(m, id)
               PROVE  /\ RAW_GENERATION \in DOMAIN DescOf(m, id).gens
                      /\ DescOf(m, id).root = raw[id]
    OBVIOUS
  <2>1. PICK j \in DOMAIN m : m[j].id = id
    BY DEF Catalogued
  <2>2. DescOf(m, id) = m[j]
    BY <2>1, CatFacts
  <2>3. RAW_GENERATION \in DOMAIN m[j].gens
    BY <2>1 DEF HasFiles
  <2>4. InFile(raw, packed, m[j].id, RAW_GENERATION, m[j].root)
    BY <2>3 DEF HasFiles
  <2> QED BY <2>1, <2>2, <2>3, <2>4 DEF InFile
<1> QED BY <1>2, <1>3 DEF RawAgrees

LEMMA FilesPresent ==
  ASSUME NEW m, HasFiles(m, raw, packed)
  PROVE  GenerationsPresent(m)
  BY DEF GenerationsPresent, HasFiles, InFile, FileExists, FileContent

\* The catalogue a boot reconciles with the RAW files.
LEMMA SeenFacts ==
  ASSUME NEW G, V6Is(G), phase = "closed", NEW seen, seen = ReconciledAll(Load, raw)
  PROVE  /\ V6Chain(G) /\ V6Files(G) /\ Live(Load, G) /\ (tail_file.exists => Len(Load) = Len(G))
         /\ Len(Load) \in Nat /\ Len(Load) <= Len(G)
         /\ (\A u : V6Live(seen, G, raw, packed, u)) /\ Len(seen) = Len(G) /\ RangesValid(seen)
         /\ GenerationsPresent(seen)
         /\ \A id \in DOMAIN raw : RawAgrees(Load, id, raw[id])
<1>1. /\ V6Chain(G) /\ Live(Load, G) /\ V6Live(Load, G, raw, packed, tail_file.exists)
      /\ CatOf(Load, G) /\ HasFiles(Load, raw, packed) /\ V6Files(G)
      /\ RawOf(raw, G) /\ IsFiniteSet(DOMAIN raw)
  BY LoadedFacts
<1>2. PICK old, r, p, t : old = Load /\ r = raw /\ p = packed /\ t = tail_file.exists
  OBVIOUS
<1>3. V6Live(old, G, r, p, t) /\ RawOf(r, G) /\ IsFiniteSet(DOMAIN r)
  BY <1>1, <1>2
<1>4. \A u : V6Live(ReconciledAll(old, r), G, r, p, u)
  <2> TAKE u
  <2> QED BY <1>1, <1>3, ReconciledLive
<1>5. Len(ReconciledAll(old, r)) = Len(G)
  BY <1>1, <1>3, ReconciledLive
<1>6. (\A u : V6Live(seen, G, raw, packed, u)) /\ Len(seen) = Len(G)
  BY <1>2, <1>4, <1>5
<1>7. CatOf(seen, G) /\ HasFiles(seen, raw, packed)
  BY <1>6 DEF V6Live
<1>8. RangesValid(seen) /\ GenerationsPresent(seen)
  BY <1>1, <1>7, CatRanges, FilesPresent
<1>9. \A id \in DOMAIN raw : RawAgrees(Load, id, raw[id])
  BY <1>1, RawFound
<1>10. tail_file.exists => Len(Load) = Len(G)
  <2>1. t => Len(old) = Len(G)
    BY <1>1, <1>3, LiveTail
  <2> QED BY <2>1, <1>2
<1>11. Len(Load) \in Nat /\ Len(Load) <= Len(G)
  BY <1>1, CatFacts
<1> QED BY <1>1, <1>6, <1>8, <1>9, <1>10, <1>11

LEMMA Step_open ==
  ASSUME NEW G, V6Is(G), v6_open
  PROVE  \E H : V6Is(H)'
<1> DEFINE f == tail_file
           promoted == f.exists /\ f.hdr /\ f.foot
<1>1. PICK seen : seen = ReconciledAll(Load, raw)
  OBVIOUS
<1> DEFINE m == IF promoted THEN Reconciled(seen, f.id, f.recs) ELSE seen
           sound == /\ \A id \in DOMAIN raw : RawAgrees(Load, id, raw[id])
                    /\ RangesValid(seen) /\ GenerationsPresent(seen)
                    /\ f.exists => f.hdr
                    /\ promoted => f.id \notin DOMAIN raw /\ RawAgrees(seen, f.id, f.recs)
                    /\ RangesValid(m)
<1>2. /\ phase = "closed" /\ job = NoJob
      /\ UNCHANGED <<packed, manifests, current, v6hlc, writer, next_lsn, stamped, reader,
                     ids, v6acked, v6promised>>
      /\ sound => /\ man' = m /\ before' = m
                  /\ raw' = IF promoted THEN Put(raw, f.id, f.recs) ELSE raw
                  /\ f' = IF promoted THEN NoFile ELSE f
                  /\ phase' = IF m # Load THEN "commit" ELSE "activate"
                  /\ job' = Job("boot", {}, <<>>)
  <2>1. /\ phase = "closed" /\ job = NoJob
        /\ UNCHANGED <<packed, manifests, current, v6hlc, writer, next_lsn, stamped, reader,
                     ids, v6acked, v6promised>>
    BY DEF v6_open, counts
  <2>2. sound => /\ man' = m /\ before' = m
                 /\ raw' = IF promoted THEN Put(raw, f.id, f.recs) ELSE raw
                 /\ f' = IF promoted THEN NoFile ELSE f
                 /\ phase' = IF m # Load THEN "commit" ELSE "activate"
                 /\ job' = Job("boot", {}, <<>>)
    BY <1>1 DEF v6_open
  <2> QED BY <2>1, <2>2
<1>3. /\ V6Chain(G) /\ V6Files(G) /\ Live(Load, G) /\ (f.exists => Len(Load) = Len(G))
      /\ Len(Load) \in Nat /\ Len(Load) <= Len(G)
      /\ (\A u : V6Live(seen, G, raw, packed, u)) /\ Len(seen) = Len(G) /\ RangesValid(seen)
      /\ GenerationsPresent(seen)
      /\ \A id \in DOMAIN raw : RawAgrees(Load, id, raw[id])
  BY <1>1, <1>2, SeenFacts
<1>4. f.exists => V6TailOk(f, G) /\ f.hdr
  BY TailParts DEF V6Is, V6Tail
<1>5. CASE ~promoted
  <2>1. sound /\ m = seen
    BY <1>3, <1>4, <1>5
  <2> HIDE DEF sound
  <2>2. /\ man' = seen /\ before' = seen /\ raw' = raw /\ tail_file' = tail_file
        /\ phase' = IF seen # Load THEN "commit" ELSE "activate"
        /\ job' = Job("boot", {}, <<>>)
    BY <1>2, <1>5, <2>1
  <2>3. V6Files(G)' /\ Load' = Load
    BY <1>2, <1>3, <2>2, SameFiles
  <2>4. V6Tail(G)'
    <3>1. ~V6Up' /\ (f.exists => ~f.foot)
      BY <1>4, <1>5, <2>2, JobFacts DEF V6Up
    <3>2. phase' # "rename"
      BY <2>2
    <3> QED BY <3>1, <3>2, <2>2 DEF V6Is, V6Tail
  <2>5. V6Kept(G)'
    BY <1>2, <2>2, SameKept DEF V6Is
  <2>6. Live(Load, G)' /\ Live(man, G)'
    BY <1>2, <1>3, <2>2, <2>3 DEF Live
  <2>7. phase' \in {"commit", "activate"} /\ (phase' = "activate" => Len(Load') = Len(G))
    BY <1>3, <2>2, <2>3
  <2> HIDE DEF f, m, promoted
  <2>8. V6Is(G)'
    BY <1>2, <1>3, <2>2, <2>3, <2>4, <2>5, <2>6, <2>7, Opened
  <2> QED BY <2>8
<1>6. CASE promoted
  <2>1. /\ V6TailOk(f, G) /\ f.recs \in Seq(V6Rec) /\ f.recs # <<>> /\ f.exists
    BY <1>4, <1>6 DEF V6TailOk
  <2> DEFINE s == SegOf(f)
             d == Desc(f.id, f.recs)
  <2>2. PICK H : H = Append(G, s)
    OBVIOUS
  <2>3. /\ V6Chain(H) /\ Len(H) = Len(G) + 1 /\ H[Len(G) + 1] = s /\ s.id = f.id
        /\ s.recs = f.recs /\ Len(G) \in Nat
    BY <2>1, <2>2, <1>3, SegFacts, ChainFacts
  <2>4. f.id \notin DOMAIN raw /\ \A i \in DOMAIN G : G[i].id < f.id /\ G[i].id \in Nat
    <3>1. \A i \in DOMAIN G : G[i].id < f.id /\ G[i].id \in Nat
      BY <1>3, <2>1, ChainFacts DEF V6TailOk
    <3>2. \A i \in DOMAIN G : G[i].id # f.id
      BY <3>1
    <3> QED BY <3>1, <3>2, <1>3 DEF V6Files, RawOf
  <2>5. PICK r, p, e, c, old : /\ r = Put(raw, f.id, f.recs) /\ p = packed /\ e = s /\ c = d
                               /\ old = Load
    OBVIOUS
  <2>6. ASSUME NEW n, V6Live(n, G, raw, packed, f.exists), Len(n) = Len(G)
        PROVE  V6Live(n, H, r, p, FALSE)
    <3>1. /\ V6Chain(Append(G, e)) /\ e.id \notin DOMAIN raw /\ \A i \in DOMAIN G : G[i].id < e.id
          /\ H = Append(G, e) /\ r = Put(raw, e.id, e.recs) /\ p = packed
      BY <2>2, <2>3, <2>4, <2>5
    <3> HIDE DEF s, d, f
    <3>2. V6Live(n, Append(G, e), Put(raw, e.id, e.recs), packed, FALSE)
      BY <3>1, <2>6, <1>3, LiveSealed
    <3> QED BY <3>1, <3>2
  <2>7. V6Live(seen, H, r, p, FALSE) /\ V6Live(old, H, r, p, FALSE)
    BY <2>1, <2>5, <2>6, <1>3 DEF Live
  <2>8. /\ V6Chain(H) /\ Len(seen) < Len(H) /\ e = H[Len(H)] /\ r[e.id] = e.recs
        /\ c = Desc(e.id, e.recs) /\ e.id = f.id
    <3>1. r[f.id] = f.recs
      BY <2>5 DEF Put
    <3> QED BY <3>1, <2>3, <2>5, <1>3
  <2>9. PICK no : no = FALSE
    BY ZenonT(40)
  <2>10. Upsert(seen, c) = Append(seen, c) /\ V6Live(Append(seen, c), H, r, p, no)
         /\ Len(Append(seen, c)) = Len(H) /\ ~Catalogued(seen, f.id)
    <3> HIDE DEF s, d, f
    <3>1. V6Live(seen, H, r, p, no)
      BY <2>7, <2>9, ZenonT(40)
    <3>2. Upsert(seen, c) = Append(seen, c)
      BY <3>1, <2>8, LiveListedAs
    <3>3. V6Live(Append(seen, c), H, r, p, no)
      BY <3>1, <2>8, LiveListedAs
    <3>4. Len(Append(seen, c)) = Len(H)
      BY <3>1, <2>8, LiveListedAs
    <3>5. ~Catalogued(seen, e.id)
      BY <3>1, <2>8, LiveListedAs
    <3> QED BY <3>2, <3>3, <3>4, <3>5, <2>8
  <2>11. m = Append(seen, c)
    BY <1>6, <2>5, <2>10 DEF Reconciled
  <2>12. RangesValid(m)
    <3>1. CatOf(Append(seen, c), H)
      BY <2>10 DEF V6Live
    <3>2. RangesValid(Append(seen, c))
      BY <3>1, <2>8, CatRanges
    <3> QED BY <3>2, <2>11
  <2>13. RawAgrees(seen, f.id, f.recs)
    BY <2>1, <2>10, ScanWhole DEF RawAgrees
  <2>14. sound
    BY <1>3, <1>4, <2>4, <2>12, <2>13
  <2> HIDE DEF sound
  <2>15. m # Load
    <3>1. Len(m) = Len(G) + 1
      BY <2>3, <2>10, <2>11
    <3> QED BY <3>1, <1>3, <2>3
  <2>16. /\ man' = Append(seen, c) /\ before' = man' /\ raw' = r /\ tail_file' = NoFile
         /\ phase' = "commit" /\ job' = Job("boot", {}, <<>>) /\ packed' = p
    <3>1. /\ man' = m /\ before' = m /\ raw' = Put(raw, f.id, f.recs) /\ tail_file' = NoFile
          /\ phase' = "commit" /\ job' = Job("boot", {}, <<>>)
      BY <1>2, <1>6, <2>14, <2>15
    <3> HIDE DEF m
    <3> QED BY <3>1, <2>5, <2>11, <1>2
  <2> HIDE DEF m, d
  <2>17. V6Files(H)' /\ Load' = Load
    <3>1. PICK g : g = f
      OBVIOUS
    <3>2. V6TailOk(g, G) /\ g.recs \in Seq(V6Rec) /\ g.recs # <<>> /\ raw' = Put(raw, g.id, g.recs)
          /\ H = Append(G, SegOf(g)) /\ UNCHANGED <<packed, manifests, current>>
      BY <3>1, <2>1, <2>2, <2>5, <2>16, <1>2
    <3> HIDE DEF f, s
    <3>3. V6Files(Append(G, SegOf(g)))' /\ Load' = Load
      BY <3>2, <1>3, FilesSealed
    <3> QED BY <3>2, <3>3
  <2>18. V6Tail(H)' /\ (tail_file'.exists) = FALSE
    BY <2>16 DEF V6Tail, NoFile
  <2>19. V6Kept(H)'
    BY <1>2, <2>1, <2>2, KeptSealed
  <2>20. Live(Load, H)' /\ Live(man, H)'
    BY <2>5, <2>7, <2>9, <2>10, <2>16, <2>17, <2>18 DEF Live
  <2>21. Len(man') = Len(H)
    BY <2>10, <2>16
  <2> HIDE DEF f, s, promoted
  <2>22. V6Is(H)'
    BY <1>2, <2>8, <2>16, <2>17, <2>18, <2>19, <2>20, <2>21, Opened
  <2> QED BY <2>22
<1> QED BY <1>5, <1>6

LEMMA Step_activate ==
  ASSUME NEW G, V6Is(G), v6_activate
  PROVE  V6Is(G)'
<1>1. /\ phase = "activate" /\ job.op = "boot" /\ job.for = {}
      /\ UNCHANGED <<raw, packed, manifests, current, man, before, stamped, reader, ids, v6acked,
                     v6promised>>
  BY DEF v6_activate, counts, V6Is, V6Work, V6Stage
<1>2. /\ V6Chain(G) /\ Live(Load, G) /\ Live(man, G) /\ Len(man) = Len(G) /\ Len(Load) = Len(G)
      /\ EndOf(G) \in Nat
  BY <1>1, ChainFacts DEF V6Is, V6Catalogues
<1>3. NextLsnOf(man) = EndOf(G)
  BY <1>2, CatRanges DEF Live, V6Live
<1>4. V6Files(G)' /\ Load' = Load
  BY <1>1, SameFiles DEF V6Is
<1>5. ~V6Up /\ ~writer.open /\ reader = NoRead
  BY <1>1 DEF V6Up, V6Is, V6Writer, V6Reader
<1>6. CASE ~tail_file.exists
  <2>1. /\ phase' = "create" /\ next_lsn' = EndOf(G)
        /\ UNCHANGED <<tail_file, writer, v6hlc, job>>
    BY <1>3, <1>6 DEF v6_activate
  <2>2. ~V6Up'
    BY <2>1, <1>1 DEF V6Up
  <2>3. V6Tail(G)'
    BY <2>1, <1>6 DEF V6Is, V6Tail
  <2>4. V6Catalogues(G)'
    <3>1. Live(Load, G)' /\ Live(man, G)'
      BY <2>1, <1>1, <1>2, <1>4 DEF Live
    <3> QED BY <3>1, <2>1, <1>1, <1>2, <1>4 DEF V6Catalogues
  <2>5. V6Work'
    <3>1. V6Stage'
      BY <2>1, <1>1 DEF V6Stage
    <3> QED BY <3>1, <2>1, <1>1, <1>2 DEF V6Is, V6Work
  <2>6. V6Writer(G)'
    BY <2>1, <2>2, <1>1, <1>5, <1>6 DEF V6Writer
  <2>7. V6Kept(G)'
    BY <2>1, <1>1, SameKept DEF V6Is
  <2>8. V6Reader(G)'
    BY <1>1, <1>5 DEF V6Reader
  <2> QED BY <1>2, <1>4, <2>3, <2>4, <2>5, <2>6, <2>7, <2>8 DEF V6Is
<1>7. CASE tail_file.exists
  <2> DEFINE f == RepairedTail(tail_file)
             s == Scan(tail_file.recs)
  <2>1. V6TailOk(tail_file, G) /\ ~tail_file.foot
    BY <1>1, <1>7 DEF V6Is, V6Tail
  <2>2. /\ tail_file.id \in Nat /\ tail_file.first \in Nat /\ tail_file.dur \in Nat
        /\ s \in Seq(V6Rec) /\ Len(s) \in Nat
        /\ tail_file.dur <= Len(s) /\ \A k \in 1..Len(s) : s[k] = tail_file.recs[k]
        /\ Numbered(s, tail_file.first) /\ tail_file.first = EndOf(G)
    <3>1. /\ tail_file.id \in Nat /\ tail_file.first \in Nat /\ tail_file.dur \in Nat
          /\ s \in Seq(V6Rec) /\ Len(s) \in Nat
      BY <2>1, TailParts
    <3>2. tail_file.dur <= Len(s) /\ \A k \in 1..Len(s) : s[k] = tail_file.recs[k]
      BY <2>1, TailParts
    <3>3. Numbered(s, tail_file.first) /\ tail_file.first = EndOf(G)
      BY <2>1 DEF V6TailOk
    <3> QED BY <3>1, <3>2, <3>3
  <2>3. Scan(s) = s /\ s \in Seq(V6Rec \cup {Torn})
    <3>1. Scan(s) = s
      BY <2>2, ScanWhole
    <3>2. PICK q : q = s
      OBVIOUS
    <3>3. q \in Seq(V6Rec)
      BY <2>2, <3>2
    <3> HIDE DEF s
    <3>4. q \in Seq(V6Rec \cup {Torn})
      BY <3>3
    <3> QED BY <3>1, <3>2, <3>4
  <2>4. PICK no : no = FALSE
    BY ZenonT(40)
  <2>5. f = TailWith(tail_file, s, Len(s), tail_file.foot)
    BY <2>1, TailEdits
  <2>6. /\ f.id = tail_file.id /\ f.first = EndOf(G) /\ f.recs = s /\ f.dur = Len(s)
        /\ f.foot = tail_file.foot /\ f.exists
    BY <2>2, <2>5, TailWithIs
  <2>7. V6TailOk(f, G)
    <3>1. tail_file.foot \in BOOLEAN
      BY <2>1, TailParts
    <3>2. PICK q, n : q = s /\ n = Len(s)
      OBVIOUS
    <3>3. /\ q \in Seq(V6Rec \cup {Torn}) /\ n \in Nat /\ n <= Len(Scan(q))
          /\ Numbered(Scan(q), tail_file.first)
      BY <2>2, <2>3, <3>2
    <3>4. f = TailWith(tail_file, q, n, tail_file.foot)
      BY <2>5, <3>2
    <3> HIDE DEF f, s
    <3>5. V6TailOk(TailWith(tail_file, q, n, tail_file.foot), G)
      BY <3>1, <3>3, <2>1, TailWithOk
    <3> QED BY <3>4, <3>5
  <2>8. f.first = NextLsnOf(man) /\ \A i \in DOMAIN f.recs : f.recs[i].lsn = f.first + i - 1
    BY <2>2, <2>6, <1>3 DEF Numbered
  <2>9. /\ tail_file' = f /\ writer' = WriterOf(f) /\ next_lsn' = WriterOf(f).next
        /\ v6hlc' = IF f.recs = <<>> THEN v6hlc ELSE Max({f.recs[i].ts : i \in DOMAIN f.recs})
        /\ phase' = "idle" /\ job' = NoJob
    BY <2>8, <1>7 DEF v6_activate
  <2> HIDE DEF f, s
  <2>10. WriterOf(f) = [open |-> TRUE, id |-> f.id, first |-> f.first, root |-> f.recs,
                        next |-> f.first + Len(f.recs)]
    BY <2>2, <2>6, WriterIs
  <2>11. (writer'.open) = TRUE /\ writer'.next = next_lsn' /\ next_lsn' \in Nat
    <3>1. WriterOf(f).next = f.first + Len(f.recs) /\ WriterOf(f).open = TRUE
      BY <2>10
    <3>2. f.first + Len(f.recs) \in Nat
      BY <2>2, <2>6
    <3> QED BY <3>1, <3>2, <2>9
  <2>12. v6hlc' \in Nat
    <3>1. CASE f.recs = <<>>
      BY <3>1, <2>9 DEF V6Is, V6Work
    <3>2. CASE f.recs # <<>>
      <4> DEFINE T == {f.recs[i].ts : i \in DOMAIN f.recs}
      <4>1. f.recs \in Seq(V6Rec) /\ Len(f.recs) \in Nat /\ DOMAIN f.recs = 1..Len(f.recs)
        BY <2>2, <2>6
      <4>2. \A i \in DOMAIN f.recs : f.recs[i] \in V6Rec
        BY <4>1
      <4>3. T \subseteq Nat
        BY <4>2 DEF V6Rec
      <4>4. 1 \in DOMAIN f.recs
        BY <4>1, <3>2
      <4>5. T # {}
        BY <4>4
      <4>6. IsFiniteSet(T)
        <5>1. IsFiniteSet(1..Len(f.recs))
          BY <4>1, FS_Interval
        <5> DEFINE g == [i \in 1..Len(f.recs) |-> f.recs[i].ts]
        <5>2. g \in Surjection(1..Len(f.recs), T)
          BY <4>1 DEF Surjection
        <5> HIDE DEF g, T
        <5> QED BY <5>1, <5>2, FS_Surjection
      <4> HIDE DEF T
      <4>7. Max(T) \in Nat
        BY <4>3, <4>5, <4>6, MaxNat
      <4> QED BY <4>7, <3>2, <2>9 DEF T
    <3> QED BY <3>1, <3>2
  <2>13. V6Up' /\ job'.op = "none" /\ job'.for = {}
    BY <2>9, JobFacts DEF V6Up
  <2>14. V6Tail(G)'
    BY <2>1, <2>2, <2>6, <2>7, <2>9, <2>11, <2>13 DEF V6Tail
  <2>15. V6Catalogues(G)'
    <3>1. tail_file'.exists <=> tail_file.exists
      BY <2>6, <2>9, <1>7
    <3>2. Live(Load, G)' /\ Live(man, G)'
      BY <3>1, <1>1, <1>2, <1>4 DEF Live, V6Live
    <3> QED BY <3>2, <2>9, <2>13 DEF V6Catalogues
  <2>16. V6Work'
    <3>1. V6Stage'
      BY <2>9 DEF V6Stage
    <3>2. job' \in [op : V6Ops, for : SUBSET V6Appenders, todo : Seq(Nat)]
      BY <2>9, JobFacts
    <3> QED BY <3>1, <3>2, <2>9, <2>11, <2>12, <2>13, <1>1 DEF V6Is, V6Work
  <2>17. V6Writer(G)'
    BY <2>6, <2>9, <2>11, <2>13 DEF V6Writer
  <2>18. V6Kept(G)'
    <3>1. ASSUME NEW a \in v6promised, ~InChain(G, a) PROVE InTail(f, a, f.dur)
      <4>1. InTail(tail_file, a, tail_file.dur)
        BY <3>1 DEF V6Is, V6Kept
      <4>2. \A k \in 1..tail_file.dur : f.recs[k] = tail_file.recs[k]
        BY <2>2, <2>6
      <4>3. PICK k \in 1..tail_file.dur : tail_file.recs[k].lsn = a[1] /\ tail_file.recs[k].id = a[2]
        BY <4>1 DEF InTail
      <4>4. k \in 1..f.dur /\ f.recs[k] = tail_file.recs[k]
        BY <4>2, <4>3, <2>2, <2>6
      <4> QED BY <4>3, <4>4, <2>6 DEF InTail
    <3>2. ASSUME NEW a \in v6acked, ~InChain(G, a) PROVE InTail(f, a, Len(Scan(f.recs)))
      <4>1. InTail(tail_file, a, Len(s))
        BY <3>2 DEF V6Is, V6Kept, s
      <4>2. \A k \in 1..Len(s) : f.recs[k] = tail_file.recs[k]
        BY <2>2, <2>6
      <4>3. Len(Scan(f.recs)) = Len(s)
        BY <2>3, <2>6
      <4>4. PICK k \in 1..Len(s) : tail_file.recs[k].lsn = a[1] /\ tail_file.recs[k].id = a[2]
        BY <4>1 DEF InTail
      <4>5. k \in 1..Len(Scan(f.recs)) /\ f.recs[k] = tail_file.recs[k]
        BY <4>2, <4>3, <4>4
      <4> QED BY <4>4, <4>5, <2>6 DEF InTail
    <3> QED BY <3>1, <3>2, <2>9, <1>1 DEF V6Kept
  <2>19. V6Reader(G)'
    BY <1>1, <1>5 DEF V6Reader
  <2> QED BY <1>2, <1>4, <2>14, <2>15, <2>16, <2>17, <2>18, <2>19 DEF V6Is
<1> QED BY <1>6, <1>7

-----------------------------------------------------------------------------
(* What the invariant says of reads and of what was kept.                  *)

\* An episode that was appended and can still be read.
V6Held(G, a) == InChain(G, a) \/ InTail(tail_file, a, Len(Scan(tail_file.recs)))

LEMMA HeldFacts ==
  ASSUME NEW G, V6Is(G)
  PROVE  \A a \in v6acked \cup v6promised : V6Held(G, a)
<1> SUFFICES ASSUME NEW a \in v6acked \cup v6promised, ~InChain(G, a)
             PROVE  InTail(tail_file, a, Len(Scan(tail_file.recs)))
  BY DEF V6Held
<1>1. CASE a \in v6acked
  BY <1>1 DEF V6Is, V6Kept
<1>2. CASE a \in v6promised
  <2>1. InTail(tail_file, a, tail_file.dur)
    BY <1>2 DEF V6Is, V6Kept
  <2>2. V6TailOk(tail_file, G)
    BY <2>1 DEF InTail, V6Is, V6Tail
  <2>3. /\ tail_file.dur \in Nat /\ Len(Scan(tail_file.recs)) \in Nat
        /\ tail_file.dur <= Len(Scan(tail_file.recs))
    BY <2>2, TailParts
  <2> DEFINE n == Len(Scan(tail_file.recs))
             d == tail_file.dur
  <2>4. 1..d \subseteq 1..n
    <3> HIDE DEF n, d
    <3> QED BY <2>3 DEF n, d
  <2> QED BY <2>1, <2>4 DEF InTail
<1> QED BY <1>1, <1>2

\* What a file holds of an LSN within its range.
LEMMA OneRecord ==
  ASSUME NEW recs \in Seq(V6Rec), NEW first \in Nat, Numbered(recs, first),
         NEW lsn \in Nat, first <= lsn, lsn < first + Len(recs),
         NEW rd, rd.lsn = lsn,
         IF rd.kind = "active" THEN tail_file.recs = recs ELSE FileContent(rd.seg, rd.gen) = recs
  PROVE  /\ lsn - first + 1 \in 1..Len(recs) /\ recs[lsn - first + 1] \in V6Rec
         /\ RecordsAt(rd) = {recs[lsn - first + 1]}
<1>1. Len(recs) \in Nat /\ DOMAIN recs = 1..Len(recs)
  OBVIOUS
<1>2. lsn - first + 1 \in 1..Len(recs)
  BY <1>1
<1>3. Scan(recs) = recs
  BY ScanWhole
<1> DEFINE S == {recs[i] : i \in 1..Len(recs)}
<1>4. RecordsAt(rd) = S \cap [lsn : {lsn}, ts : Nat, id : Nat]
  BY <1>1, <1>3, ZenonT(40) DEF RecordsAt
<1>5. \A i \in 1..Len(recs) : recs[i] \in V6Rec /\ recs[i].lsn = first + i - 1
  BY <1>1 DEF Numbered
<1> DEFINE x == recs[lsn - first + 1]
<1>6. x \in S /\ x.lsn = lsn /\ x \in V6Rec
  <2>1. lsn = first + (lsn - first + 1) - 1
    OBVIOUS
  <2> QED BY <2>1, <1>2, <1>5
<1>7. x \in [lsn : {lsn}, ts : Nat, id : Nat]
  <2> HIDE DEF x
  <2> QED BY <1>6 DEF V6Rec
<1>8. ASSUME NEW y \in S \cap [lsn : {lsn}, ts : Nat, id : Nat] PROVE y = x
  <2>1. PICK i \in 1..Len(recs) : y = recs[i]
    BY <1>8
  <2>2. y.lsn = lsn
    BY <1>8
  <2>3. i = lsn - first + 1
    BY <2>1, <2>2, <1>5
  <2> QED BY <2>1, <2>3
<1> HIDE DEF x, S
<1>9. RecordsAt(rd) = {x}
  BY <1>4, <1>6, <1>7, <1>8
<1> QED BY <1>2, <1>6, <1>9 DEF x

\* A path to the active file, or to a sealed segment, gives the one record and
\* the episode whose append returned the LSN.
V6Gives(G, rd) ==
  \E r \in V6Rec : RecordsAt(rd) = {r} /\ \A a : V6Held(G, a) /\ a[1] = rd.lsn => a[2] = r.id

LEMMA ActiveGives ==
  ASSUME NEW G, V6Is(G), tail_file.exists, tail_file.recs \in Seq(V6Rec), NEW rd,
         rd.kind = "active", rd.lsn \in Nat, tail_file.first <= rd.lsn,
         rd.lsn < tail_file.first + Len(tail_file.recs)
  PROVE  V6Gives(G, rd)
<1>1. V6TailOk(tail_file, G) /\ V6Chain(G)
  BY DEF V6Is, V6Tail
<1>2. /\ Scan(tail_file.recs) = tail_file.recs /\ Numbered(tail_file.recs, tail_file.first)
      /\ tail_file.first = EndOf(G) /\ tail_file.first \in Nat
      /\ DOMAIN tail_file.recs = 1..Len(tail_file.recs) /\ Len(tail_file.recs) \in Nat
  BY <1>1, ScanWhole, TailParts DEF V6TailOk
<1> DEFINE k == rd.lsn - tail_file.first + 1
           r == tail_file.recs[k]
<1>3. k \in 1..Len(tail_file.recs) /\ r \in V6Rec /\ RecordsAt(rd) = {r}
  BY <1>2, OneRecord
<1>4. ASSUME NEW a, V6Held(G, a), a[1] = rd.lsn PROVE a[2] = r.id
  <2>1. CASE InChain(G, a)
    <3>1. PICK i \in DOMAIN G : \E j \in DOMAIN G[i].recs : G[i].recs[j].lsn = a[1]
      BY <2>1 DEF InChain
    <3>2. PICK j \in DOMAIN G[i].recs : G[i].recs[j].lsn = a[1]
      BY <3>1
    <3>3. /\ G[i].recs[j].lsn = G[i].first + j - 1 /\ j \in 1..Len(G[i].recs)
          /\ G[i].first \in Nat /\ Len(G[i].recs) \in Nat /\ After(G[i]) <= EndOf(G)
          /\ EndOf(G) \in Nat
      BY <3>2, <1>1, ChainFacts DEF V6Chain, Numbered
    <3>4. G[i].first + j - 1 < After(G[i])
      BY <3>3 DEF After
    <3>5. G[i].first + j - 1 = rd.lsn /\ After(G[i]) \in Nat
      BY <3>2, <3>3, <1>1, <1>4, ChainFacts
    <3> QED BY <3>3, <3>4, <3>5, <1>2, SMTT(30)
  <2>2. CASE InTail(tail_file, a, Len(Scan(tail_file.recs)))
    <3>1. PICK j \in 1..Len(tail_file.recs) :
            tail_file.recs[j].lsn = a[1] /\ tail_file.recs[j].id = a[2]
      BY <2>2, <1>2 DEF InTail
    <3>2. tail_file.recs[j].lsn = tail_file.first + j - 1
      BY <1>2 DEF Numbered
    <3>3. j = k
      <4>1. rd.lsn = tail_file.recs[j].lsn
        BY <3>1, <1>4
      <4>2. rd.lsn = tail_file.first + j - 1
        BY <3>2, <4>1
      <4>3. j \in Nat
        BY <3>1, <1>2
      <4> QED BY <4>2, <4>3, <1>2
    <3> QED BY <3>1, <3>3
  <2> QED BY <1>4, <2>1, <2>2 DEF V6Held
<1> QED BY <1>3, <1>4 DEF V6Gives

LEMMA SealedGives ==
  ASSUME NEW G, V6Is(G), NEW rd, rd.kind # "active", rd.lsn \in Nat, NEW i \in DOMAIN G,
         InFile(raw, packed, rd.seg, rd.gen, G[i].recs), G[i].first <= rd.lsn,
         rd.lsn < After(G[i])
  PROVE  V6Gives(G, rd) /\ FileExists(rd.seg, rd.gen)
<1>1. V6Chain(G)
  BY DEF V6Is
<1>2. FileExists(rd.seg, rd.gen) /\ FileContent(rd.seg, rd.gen) = G[i].recs
  BY DEF InFile, FileExists, FileContent
<1>3. /\ G[i].recs \in Seq(V6Rec) /\ G[i].first \in Nat /\ Numbered(G[i].recs, G[i].first)
      /\ Len(G[i].recs) \in Nat /\ DOMAIN G[i].recs = 1..Len(G[i].recs)
      /\ rd.lsn < G[i].first + Len(G[i].recs) /\ After(G[i]) <= EndOf(G) /\ EndOf(G) \in Nat
      /\ After(G[i]) \in Nat
  BY <1>1, ChainFacts DEF V6Chain, After
<1> DEFINE k == rd.lsn - G[i].first + 1
           r == G[i].recs[k]
<1>4. k \in 1..Len(G[i].recs) /\ r \in V6Rec /\ RecordsAt(rd) = {r}
  <2>1. PICK recs, first, lsn : recs = G[i].recs /\ first = G[i].first /\ lsn = rd.lsn
    OBVIOUS
  <2>2. /\ recs \in Seq(V6Rec) /\ first \in Nat /\ Numbered(recs, first) /\ lsn \in Nat
        /\ first <= lsn /\ lsn < first + Len(recs) /\ rd.lsn = lsn
        /\ IF rd.kind = "active" THEN tail_file.recs = recs ELSE FileContent(rd.seg, rd.gen) = recs
    BY <2>1, <1>2, <1>3
  <2>3. /\ lsn - first + 1 \in 1..Len(recs) /\ recs[lsn - first + 1] \in V6Rec
        /\ RecordsAt(rd) = {recs[lsn - first + 1]}
    BY <2>2, OneRecord
  <2> QED BY <2>1, <2>3
<1>5. ASSUME NEW a, V6Held(G, a), a[1] = rd.lsn PROVE a[2] = r.id
  <2>1. CASE InChain(G, a)
    <3>1. PICK j \in DOMAIN G : \E n \in DOMAIN G[j].recs :
            G[j].recs[n].lsn = a[1] /\ G[j].recs[n].id = a[2]
      BY <2>1 DEF InChain
    <3>2. PICK n \in DOMAIN G[j].recs : G[j].recs[n].lsn = a[1] /\ G[j].recs[n].id = a[2]
      BY <3>1
    <3>3. G[i].first <= G[j].recs[n].lsn /\ G[j].recs[n].lsn < After(G[i])
      BY <3>2, <1>5
    <3>4. i = j /\ n = G[j].recs[n].lsn - G[i].first + 1
      BY <3>3, <1>1, ChainPlace
    <3> QED BY <3>2, <3>4, <1>5
  <2>2. CASE InTail(tail_file, a, Len(Scan(tail_file.recs)))
    <3>1. V6TailOk(tail_file, G)
      BY <2>2 DEF InTail, V6Is, V6Tail
    <3>2. /\ tail_file.first = EndOf(G) /\ Len(Scan(tail_file.recs)) \in Nat
          /\ \A m \in 1..Len(Scan(tail_file.recs)) : tail_file.recs[m].lsn = tail_file.first + m - 1
      <4>1. tail_file.first = EndOf(G)
        BY <3>1 DEF V6TailOk
      <4>2. Len(Scan(tail_file.recs)) \in Nat
        BY <3>1, TailParts
      <4>3. \A m \in 1..Len(Scan(tail_file.recs)) : tail_file.recs[m].lsn = tail_file.first + m - 1
        BY <3>1, TailParts
      <4> QED BY <4>1, <4>2, <4>3
    <3>3. PICK m \in 1..Len(Scan(tail_file.recs)) : tail_file.recs[m].lsn = a[1]
      BY <2>2 DEF InTail
    <3>4. rd.lsn = EndOf(G) + m - 1 /\ m \in Nat /\ m >= 1
      BY <3>2, <3>3, <1>5
    <3> QED BY <3>4, <1>3
  <2> QED BY <1>5, <2>1, <2>2 DEF V6Held
<1> QED BY <1>2, <1>4, <1>5 DEF V6Gives

\* Every LSN below the head, by the path the mutex's holder chooses.
LEMMA LocatedGives ==
  ASSUME NEW G, V6Is(G), V6Idle, writer.open, NEW lsn \in Nat, lsn < next_lsn
  PROVE  PathExists(Located(lsn)) /\ V6Gives(G, Located(lsn)) /\ Located(lsn).lsn = lsn
<1>1. tail_file.exists /\ tail_file.recs \in Seq(V6Rec)
  BY ActiveFacts DEF V6Idle
<1>2. PICK rd : rd = Located(lsn)
  OBVIOUS
<1>3. /\ rd.lsn = lsn
      /\ \/ /\ rd.kind = "active" /\ rd.seg = tail_file.id
            /\ tail_file.first <= lsn /\ lsn < tail_file.first + Len(tail_file.recs)
         \/ /\ rd.kind # "active"
            /\ \E i \in DOMAIN G :
                 /\ G[i].id = rd.seg
                 /\ InFile(raw, packed, rd.seg, rd.gen, G[i].recs)
                 /\ G[i].first <= lsn /\ lsn < After(G[i])
  BY <1>2, LocatedFacts
<1>4. CASE rd.kind = "active"
  <2>1. V6Gives(G, rd)
    BY <1>1, <1>3, <1>4, ActiveGives
  <2>2. PathExists(rd)
    BY <1>1, <1>3, <1>4 DEF PathExists
  <2> QED BY <2>1, <2>2, <1>2, <1>3
<1>5. CASE rd.kind # "active"
  <2>1. V6Gives(G, rd) /\ FileExists(rd.seg, rd.gen)
    BY <1>3, <1>5, SealedGives
  <2>2. PathExists(rd)
    BY <2>1, <1>5 DEF PathExists
  <2> QED BY <2>1, <2>2, <1>2, <1>3
<1> QED BY <1>4, <1>5

LEMMA InvReads ==
  ASSUME NEW G, V6Is(G)
  PROVE  V6ReadsExact
<1> DEFINE exact(rd) == \E r \in RecordsAt(rd) :
                          /\ RecordsAt(rd) = {r}
                          /\ \A a \in v6acked : a[1] = rd.lsn => a[2] = r.id
<1>1. ASSUME NEW rd, V6Gives(G, rd) PROVE exact(rd)
  <2>1. PICK r \in V6Rec :
          RecordsAt(rd) = {r} /\ \A a : V6Held(G, a) /\ a[1] = rd.lsn => a[2] = r.id
    BY <1>1 DEF V6Gives
  <2>2. \A a \in v6acked : V6Held(G, a)
    BY HeldFacts
  <2> QED BY <2>1, <2>2
<1> HIDE DEF exact
<1>2. ASSUME V6Idle, writer.open, NEW lsn \in 0..(next_lsn - 1)
      PROVE  PathExists(Located(lsn)) /\ exact(Located(lsn))
  <2>1. lsn \in Nat /\ lsn < next_lsn
    <3>1. next_lsn \in Nat
      BY DEF V6Is, V6Work
    <3> QED BY <3>1
  <2>2. PathExists(Located(lsn)) /\ V6Gives(G, Located(lsn))
    BY <2>1, <1>2, LocatedGives
  <2> QED BY <2>2, <1>1
<1>3. ASSUME reader # NoRead, PathExists(reader) PROVE exact(reader)
  <2>1. V6Up /\ reader.lsn \in Nat
    BY <1>3 DEF V6Is, V6Reader
  <2>2. CASE reader.kind = "active"
    <3>1. tail_file.exists /\ tail_file.id = reader.seg
      BY <2>2, <1>3 DEF PathExists
    <3>2. /\ tail_file.first <= reader.lsn /\ reader.lsn < tail_file.first + Len(tail_file.recs)
          /\ tail_file.recs \in Seq(V6Rec)
      BY <3>1, <2>1, <2>2, <1>3 DEF V6Is, V6Reader, V6Tail
    <3>3. V6Gives(G, reader)
      BY <3>1, <3>2, <2>1, <2>2, ActiveGives
    <3> QED BY <3>3, <1>1
  <2>3. CASE reader.kind # "active"
    <3>1. PICK i \in DOMAIN G :
           /\ InFile(raw, packed, reader.seg, reader.gen, G[i].recs)
           /\ G[i].first <= reader.lsn /\ reader.lsn < After(G[i])
      BY <2>3, <1>3 DEF V6Is, V6Reader
    <3>2. V6Gives(G, reader)
      BY <3>1, <2>1, <2>3, SealedGives
    <3> QED BY <3>2, <1>1
  <2> QED BY <2>2, <2>3
<1> QED BY <1>2, <1>3 DEF V6ReadsExact, exact

LEMMA InvPromises ==
  ASSUME NEW G, V6Is(G)
  PROVE  V6PromisesKept
<1>1. phase # "refused"
  BY DEF V6Is, V6Work, V6Stage
<1>2. ASSUME V6Idle, writer.open, NEW a \in v6promised
      PROVE  a[1] < next_lsn /\ \E r \in RecordsAt(Located(a[1])) : r.id = a[2]
  <2>1. V6Held(G, a)
    BY HeldFacts
  <2>2. /\ V6Chain(G) /\ tail_file.first = EndOf(G) /\ V6TailOk(tail_file, G) /\ next_lsn \in Nat
        /\ tail_file.first + Len(tail_file.recs) = next_lsn /\ EndOf(G) \in Nat
        /\ Scan(tail_file.recs) = tail_file.recs /\ tail_file.recs \in Seq(V6Rec)
        /\ Len(tail_file.recs) \in Nat
    BY <1>2, ActiveFacts, ChainFacts, TailParts DEF V6Is, V6Idle
  <2>3. a[1] \in Nat /\ a[1] < next_lsn
    <3>1. CASE InChain(G, a)
      <4>1. PICK i \in DOMAIN G : \E j \in DOMAIN G[i].recs : G[i].recs[j].lsn = a[1]
        BY <3>1 DEF InChain
      <4>2. PICK j \in DOMAIN G[i].recs : G[i].recs[j].lsn = a[1]
        BY <4>1
      <4>3. /\ G[i].recs[j].lsn = G[i].first + j - 1 /\ j \in 1..Len(G[i].recs)
            /\ G[i].first \in Nat /\ Len(G[i].recs) \in Nat /\ After(G[i]) <= EndOf(G)
        BY <4>2, <2>2, ChainFacts DEF V6Chain, Numbered
      <4>4. G[i].first + j - 1 < G[i].first + Len(G[i].recs) /\ G[i].first + j - 1 \in Nat
        BY <4>3
      <4>5. a[1] \in Nat /\ a[1] < After(G[i]) /\ After(G[i]) \in Nat
        BY <4>2, <4>3, <4>4, <2>2, ChainFacts DEF After
      <4> QED BY <4>3, <4>5, <2>2, SMTT(30)
    <3>2. CASE InTail(tail_file, a, Len(Scan(tail_file.recs)))
      <4>1. PICK j \in 1..Len(tail_file.recs) : tail_file.recs[j].lsn = a[1]
        BY <3>2, <2>2 DEF InTail
      <4>2. tail_file.recs[j].lsn = tail_file.first + j - 1 /\ tail_file.first \in Nat
        BY <4>1, <2>2, TailParts
      <4> QED BY <4>1, <4>2, <2>2
    <3> QED BY <2>1, <3>1, <3>2 DEF V6Held
  <2>4. V6Gives(G, Located(a[1])) /\ Located(a[1]).lsn = a[1]
    BY <2>3, <1>2, LocatedGives
  <2>5. \E r \in RecordsAt(Located(a[1])) : r.id = a[2]
    BY <2>1, <2>4 DEF V6Gives
  <2> QED BY <2>3, <2>5
<1>3. ASSUME job.op # "gc", NEW i \in DOMAIN Load
      PROVE  LET d == Load[i]
             IN  /\ IsAuthority(d.gens[d.active])
                 /\ FileExists(d.id, d.active) /\ FileContent(d.id, d.active) = d.root
  <2>1. DescOk(Load[i], G[i]) /\ HasFiles(Load, raw, packed)
    BY <1>3 DEF V6Is, V6Catalogues, Live, V6Live, CatOf
  <2>2. IsAuthority(Load[i].gens[Load[i].active])
    BY <2>1 DEF DescOk
  <2>3. InFile(raw, packed, Load[i].id, Load[i].active, Load[i].root)
    BY <2>1 DEF DescOk, HasFiles
  <2> QED BY <2>2, <2>3 DEF InFile, FileExists, FileContent
<1> QED BY <1>1, <1>2, <1>3 DEF V6PromisesKept

-----------------------------------------------------------------------------
(* The theorems.                                                           *)

\* The faults under which the engine keeps its word: a crash leaves the header
\* of an active file whole, no crash falls between gc's removals and its
\* commit, and of the file operations only the commit of a manifest and the
\* creation of an active file may fail.
V6SoundFaults ==
  ~HeaderMayBeLost /\ ~GcInterrupted /\ V6FaultKinds \subseteq {"commit", "create"}

LEMMA V6StartsEmpty ==
  ASSUME V6Init
  PROVE  V6Inv
<1>1. /\ tail_file = NoFile /\ raw = <<>> /\ packed = <<>> /\ manifests = <<>> /\ current = 0
      /\ v6hlc = 0 /\ phase = "closed" /\ writer = NoWriter
      /\ next_lsn = 0 /\ job = NoJob /\ stamped = [c \in V6Appenders |-> Unstamped]
      /\ reader = NoRead /\ ids = 0 /\ v6acked = {} /\ v6promised = {}
  BY DEF V6Init
<1>2. /\ <<>> \in Seq(V6Seg) /\ <<>> \in Seq(V6Desc) /\ Len(<<>>) = 0 /\ DOMAIN <<>> = {}
      /\ IsFiniteSet({})
  BY FS_EmptySet
<1>3. EndOf(<<>>) = 0
  BY DEF EndOf
<1>4. V6Chain(<<>>)
  <2>1. 0..(EndOf(<<>>) - 1) = {}
    BY <1>3
  <2> QED BY <2>1, <1>2 DEF V6Chain
<1>5. Generations = {} /\ Load = <<>>
  BY <1>1, <1>2 DEF Generations, Load
<1>6. V6Files(<<>>)
  BY <1>1, <1>2, <1>5 DEF V6Files, RawOf, ManifestsOk
<1>7. V6Tail(<<>>) /\ ~tail_file.exists
  BY <1>1, NoFileFacts DEF V6Tail
<1>8. Live(<<>>, <<>>)
  BY <1>2 DEF Live, V6Live, CatOf, HasFiles
<1>9. ~V6Up /\ job.op = "none" /\ job.for = {}
  BY <1>1, JobFacts DEF V6Up
<1>10. V6Catalogues(<<>>)
  BY <1>1, <1>5, <1>8 DEF V6Catalogues
<1>11. V6Work
  <2>1. V6Stage
    BY <1>1 DEF V6Stage
  <2>2. job \in [op : V6Ops, for : SUBSET V6Appenders, todo : Seq(Nat)]
    BY <1>1, JobFacts
  <2>3. Unstamped \in [id : Nat, ts : Nat]
    BY DEF Unstamped
  <2>4. /\ stamped \in [V6Appenders -> [id : Nat, ts : Nat]]
        /\ \A c \in V6Appenders : stamped[c] = Unstamped
    BY <2>3, <1>1
  <2> QED BY <2>1, <2>2, <2>4, <1>1, <1>9 DEF V6Work
<1>12. V6Writer(<<>>)
  BY <1>1, <1>9 DEF V6Writer, NoWriter
<1>13. V6Kept(<<>>) /\ V6Reader(<<>>)
  BY <1>1 DEF V6Kept, V6Reader
<1>14. V6Is(<<>>)
  BY <1>4, <1>6, <1>7, <1>10, <1>11, <1>12, <1>13 DEF V6Is
<1> QED BY <1>14 DEF V6Inv

LEMMA V6Steps ==
  ASSUME V6SoundFaults, V6Inv, [V6Next]_v6vars
  PROVE  V6Inv'
<1>0. PICK G : V6Is(G)
  BY DEF V6Inv
<1>1. ASSUME NEW H, V6Is(H)' PROVE V6Inv'
  BY <1>1 DEF V6Inv
<1>2. ASSUME NEW c \in V6Appenders, NEW p \in V6Clock, v6_append(c, p) PROVE V6Inv'
  BY <1>0, <1>1, <1>2, Step_append
<1>3. ASSUME NEW c \in V6Appenders, append_inner(c) PROVE V6Inv'
  BY <1>0, <1>1, <1>3, Step_append_inner
<1>4. CASE write_record
  BY <1>0, <1>1, <1>4, Step_write_record
<1>5. CASE finish_append
  BY <1>0, <1>1, <1>5, Step_finish_append
<1>6. CASE v6_flush
  BY <1>0, <1>1, <1>6, Step_flush
<1>7. CASE seal_active
  BY <1>0, <1>1, <1>7, Step_seal_active
<1>8. CASE seal_footer
  BY <1>0, <1>1, <1>8, Step_seal_footer
<1>9. CASE seal_rename
  BY <1>0, <1>9, Step_seal_rename DEF V6Inv
<1>10. ASSUME NEW p \in V6Clock, create_active(p) PROVE V6Inv'
  BY <1>0, <1>1, <1>10, Step_create_active
<1>11. CASE write_manifest
  BY <1>0, <1>1, <1>11, Step_write_manifest
<1>12. CASE swap_current
  BY <1>0, <1>1, <1>12, Step_swap_current
<1>13. CASE pack_pending
  BY <1>0, <1>1, <1>13, Step_pack_pending
<1>14. CASE pack_segment
  BY <1>0, <1>1, <1>14, Step_pack_segment
<1>15. ASSUME NEW lsn \in 0..(next_lsn - 1), v6_read(lsn) PROVE V6Inv'
  BY <1>0, <1>1, <1>15, Step_read
<1>16. CASE v6_read_done
  <2>1. /\ reader' = NoRead
        /\ UNCHANGED <<tail_file, raw, packed, manifests, current, v6hlc, man, before, writer,
                       next_lsn, phase, job, stamped, ids, v6acked, v6promised>>
    BY <1>16 DEF v6_read_done, v6disk, memory, counts
  <2> QED BY <2>1, <1>0, <1>1, Step_same
<1>17. CASE v6_open
  BY <1>0, <1>17, Step_open DEF V6Inv
<1>18. CASE v6_activate
  BY <1>0, <1>1, <1>18, Step_activate
<1>19. CASE collect_garbage
  BY <1>0, <1>1, <1>19, Step_collect_garbage
<1>20. CASE prune_old_manifests
  BY <1>0, <1>1, <1>20, Step_prune
<1>21. ASSUME NEW i \in DOMAIN Load, NEW bad \in DOMAIN Load[i].gens, quarantine(i, bad) PROVE V6Inv'
  BY <1>0, <1>1, <1>21, Step_quarantine
<1>22. ASSUME NEW i \in DOMAIN Load, repack(i) PROVE V6Inv'
  BY <1>0, <1>1, <1>22, Step_repack
<1>23. ASSUME NEW i \in DOMAIN Load, NEW hold \in BOOLEAN, set_legal_hold(i, hold) PROVE V6Inv'
  BY <1>0, <1>1, <1>23, Step_set_legal_hold
<1>24. CASE v6_io_error
  BY <1>0, <1>1, <1>24, Step_io_error DEF V6SoundFaults
<1>25. ASSUME NEW kind \in V6CrashKinds, v6_crash(kind) PROVE V6Inv'
  BY <1>0, <1>1, <1>25, Step_crash DEF V6SoundFaults
<1>26. CASE UNCHANGED v6vars
  <2>1. UNCHANGED <<tail_file, raw, packed, manifests, current, v6hlc, man, before, writer,
                    next_lsn, phase, job, stamped, reader, ids, v6acked, v6promised>>
    BY <1>26 DEF v6vars, v6disk, memory, counts
  <2> QED BY <2>1, <1>0, <1>1, Step_same
<1>27. CASE V6Next
  BY <1>27, <1>2, <1>3, <1>4, <1>5, <1>6, <1>7, <1>8, <1>9, <1>10, <1>11, <1>12, <1>13, <1>14,
     <1>15, <1>16, <1>17, <1>18, <1>19, <1>20, <1>21, <1>22, <1>23, <1>24, <1>25 DEF V6Next
<1> QED BY <1>26, <1>27

\* The invariant holds through every step.
LEMMA V6Invariant ==
  ASSUME V6SoundFaults
  PROVE  V6Spec => []V6Inv
<1>1. V6Init => V6Inv
  BY V6StartsEmpty
<1>2. V6Inv /\ [V6Next]_v6vars => V6Inv'
  BY V6Steps
<1> QED BY <1>1, <1>2, PTL DEF V6Spec

\* While an engine is open, every LSN below next_lsn is read as one record, the
\* one whose append returned it, and the path a reader chose under the mutex
\* (V6Log::read) gives that record or nothing when it opens it later, through
\* every roll, packing, failed commit, crash and boot.
THEOREM V6ReadsAreExact ==
  ASSUME V6SoundFaults
  PROVE  V6Spec => []V6ReadsExact
<1>1. V6Inv => V6ReadsExact
  BY InvReads DEF V6Inv
<1>2. V6Spec => []V6Inv
  BY V6Invariant
<1> QED BY <1>1, <1>2, PTL

\* What an append under FsyncPolicy::Always, a flush or a seal made durable is
\* read again at its LSN by every engine that opens the directory; every segment
\* of the manifest a boot would load has the file of the generation readers use,
\* with the records that were sealed; and open_with_keystore refuses nothing
\* that crashes, failed commits, pack_pending, repack, quarantine and
\* collect_garbage leave.
THEOREM V6KeepsPromises ==
  ASSUME V6SoundFaults
  PROVE  V6Spec => []V6PromisesKept
<1>1. V6Inv => V6PromisesKept
  BY InvPromises DEF V6Inv
<1>2. V6Spec => []V6Inv
  BY V6Invariant
<1> QED BY <1>1, <1>2, PTL
=============================================================================
