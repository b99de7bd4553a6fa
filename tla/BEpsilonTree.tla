---------------------------- MODULE BEpsilonTree ----------------------------
(***************************************************************************)
(* The B-epsilon tree of heraclitus-btree/src/lib.rs, which holds the      *)
(* checkpoints of the H-VM (heraclitus-log/src/vm_bridge.rs:93): nodes in  *)
(* pages, messages buffered in the internal nodes, every change written to *)
(* fresh pages (copy on write), and two superblocks that are swapped by a  *)
(* commit.  Every call takes &mut self, so calls do not interleave; a      *)
(* crash may fall between two calls and between the parts of a commit.     *)
(*                                                                         *)
(* A tree in RAM with its file is one record (Tree), and each function of  *)
(* the code is an operator from trees to trees.  Keys are numbers; a value *)
(* is 1 or 2, of which 2 is kept in an overflow page; sizes in bytes are   *)
(* counts of entries against BtBudget.  Checksums, bloom filters (they are *)
(* rebuilt from the keys and have no false negatives), prefixes and the    *)
(* eviction of clean frames are left out.                                  *)
(***************************************************************************)
EXTENDS Integers, Sequences, FiniteSets, SequencesExt, TLC

CONSTANTS BtKeys,       \* a set 1..n
          BtNodeCap,    \* node_cap
          BtBufferCap,  \* buffer_cap
          BtBudget,     \* PAGE_SOFT_BUDGET, in entries
          BtMaxFree,    \* MAX_SB_FREE_LIST
          BtPreloads,   \* what a behaviour starts from: sets of keys in the file
          BtMaxCalls,   \* bound: calls of upsert and delete_key
          BtMaxCommits, \* bound: commits
          BtMaxCrashes  \* bound: crashes

VARIABLES bt,          \* the tree and its pages
          btDurable,   \* the superblock on disk: [root, next, free, head]
          btMap,       \* the map the calls have built: [key -> value, or Deleted]
          btCommitted, \* the map of the last commit
          btPhase,     \* how far a commit is: "none", "written", "swapped"
          btCalls, btCommits, btCrashes
btVars == <<bt, btDurable, btMap, btCommitted, btPhase, btCalls, btCommits, btCrashes>>

Deleted == 0
BtBig == 2
BtLow == 0      \* no low_key
BtHigh == 1000  \* no high_key
BtEmpty == [k \in BtKeys |-> Deleted]
-----------------------------------------------------------------------------
(* Nodes and pages.                                                        *)

BtLeaf(low, high, ents) ==
    [type |-> "leaf", low |-> low, high |-> high, ents |-> ents, keys |-> <<>>, kids |-> <<>>, buf |-> <<>>]
BtInternal(low, high, keys, kids, buf) ==
    [type |-> "internal", low |-> low, high |-> high, ents |-> <<>>, keys |-> keys, kids |-> kids, buf |-> buf]
Overflow(v) == [type |-> "overflow", val |-> v]
FreeListPage(head, ids) == [type |-> "free", head |-> head, ids |-> ids]

is_leaf(n) == n.type = "leaf"
NodeKeys(n) == IF is_leaf(n) THEN [i \in DOMAIN n.ents |-> n.ents[i].k] ELSE n.keys
estimate_serialized_size(n) ==
    IF is_leaf(n) THEN Len(n.ents) ELSE Len(n.keys) + Cardinality(DOMAIN n.buf)
TooLarge(n) == estimate_serialized_size(n) > BtBudget
byte_balanced_mid(n) == LET c == Len(NodeKeys(n)) IN (c + 1) \div 2
\* partition_point(p <= k): how many separators are at or below k.
ChildIndex(n, k) == Cardinality({i \in DOMAIN n.keys : n.keys[i] <= k}) + 1
BtUpTo(f, k) == [x \in {y \in DOMAIN f : y < k} |-> f[x]]
BtFrom(f, k) == [x \in {y \in DOMAIN f : y >= k} |-> f[x]]

\* open on an empty file: the root is page 2.
BtFresh == [mem |-> 2 :> BtLeaf(BtLow, BtHigh, <<>>), disk |-> 2 :> BtLeaf(BtLow, BtHigh, <<>>),
            dirty |-> {}, root |-> 2, next |-> 3, free |-> <<>>, head |-> 0, pend |-> <<>>,
            epoch |-> {}, msgs |-> 0, got |-> 0, bad |-> FALSE]
BtSuper(t) == [root |-> t.root, next |-> t.next, free |-> t.free, head |-> t.head]
\* open on a file with a superblock: nothing else is in RAM.
BtOpened(sb, disk) == [BtFresh EXCEPT !.mem = <<>>, !.disk = disk, !.root = sb.root,
                       !.next = sb.next, !.free = sb.free, !.head = sb.head]

\* A flush may go on into the buffers of the child.
RECURSIVE partial_flush_cascade(_, _, _), BtDrain(_, _, _, _, _)

acquire_node(t, id) == IF id \in DOMAIN t.mem THEN t.mem[id] ELSE t.disk[id]
BtWrite(t, id, page) == [t EXCEPT !.disk = id :> page @@ @]
BtFrame(t, id, n) == [t EXCEPT !.mem = id :> n @@ @]
mark_dirty(t, id) == IF id \in DOMAIN t.mem THEN [t EXCEPT !.dirty = @ \cup {id}] ELSE t
evict_cache_frame(t, id) ==
    [t EXCEPT !.mem = [x \in DOMAIN @ \ {id} |-> @[x]], !.dirty = @ \ {id}]
\* The frame of a node moves with the node to its new page.
rekey_cache_frame(t, old, new, n) ==
    LET moved == BtFrame(evict_cache_frame(t, old), new, n)
    IN  IF old \in t.dirty THEN mark_dirty(moved, new) ELSE moved
-----------------------------------------------------------------------------
(* Pages in and out of use.                                                *)

\* allocate_id, the page in the field got.  bad: a page that is no free list
\* was read as one, or a page was handed out twice in one epoch.
allocate_id(t) ==
    LET page == t.disk[t.head]
        taken == IF t.free # <<>> THEN [t EXCEPT !.got = Last(t.free), !.free = Front(@)]
                 ELSE IF t.head > 0
                 THEN IF page.type # "free" THEN [t EXCEPT !.got = t.head, !.bad = TRUE]
                      ELSE [t EXCEPT !.got = t.head, !.head = page.head, !.free = page.ids]
                 ELSE [t EXCEPT !.got = t.next, !.next = @ + 1]
    IN  [taken EXCEPT !.epoch = @ \cup {taken.got}, !.bad = @ \/ taken.got \in t.epoch]

add_to_free_list(t, id) ==
    IF Len(t.free) < BtMaxFree
    THEN [BtWrite(t, id, FreeListPage(0, <<>>)) EXCEPT !.free = Append(@, id)]
    ELSE [BtWrite(t, id, FreeListPage(t.head, t.free)) EXCEPT !.head = id, !.free = <<>>]

\* (mutant: a page of the durable tree is given back at once)
recycle_id_now(t, id) == IF id <= 2 THEN t ELSE add_to_free_list([t EXCEPT !.epoch = @ \ {id}], id)
recycle_id(t, id) ==
    IF id <= 2 THEN t
    ELSE IF id \in t.epoch THEN add_to_free_list([t EXCEPT !.epoch = @ \ {id}], id)
    ELSE [t EXCEPT !.pend = Append(@, id)]

write_value_chain(t, v) ==
    IF v # BtBig THEN [t EXCEPT !.got = 0]
    ELSE LET a == allocate_id(t) IN BtWrite(a, a.got, Overflow(v))
recycle_overflow_chain(t, ov) == IF ov = 0 THEN t ELSE recycle_id(t, ov)
-----------------------------------------------------------------------------
(* Changing a leaf.  Operators that change a node return it as well.       *)

KeyIndex(n, k) == {i \in DOMAIN n.ents : n.ents[i].k = k}
SortedPlace(n, k) == Cardinality({i \in DOMAIN n.ents : n.ents[i].k < k})

ApplyToLeaf(t, n, k, msg) ==
    LET found == KeyIndex(n, k)
        i == CHOOSE x \in found : TRUE
        chain == write_value_chain(t, msg)
        entry == [k |-> k, v |-> msg, ghost |-> FALSE, ov |-> chain.got]
    IN  IF msg # Deleted
        THEN IF found # {}
             THEN [t |-> recycle_overflow_chain(chain, n.ents[i].ov),
                   n |-> [n EXCEPT !.ents[i] = entry]]
             ELSE [t |-> chain, n |-> [n EXCEPT !.ents = InsertAt(@, SortedPlace(n, k) + 1, entry)]]
        ELSE IF found # {}
             THEN [t |-> recycle_overflow_chain(t, n.ents[i].ov),
                   n |-> [n EXCEPT !.ents[i].ghost = TRUE, !.ents[i].ov = 0]]
             ELSE [t |-> t, n |-> n]
compact_and_defragment(n) == [n EXCEPT !.ents = SelectSeq(@, LAMBDA e : ~e.ghost)]
-----------------------------------------------------------------------------
(* Splits.                                                                 *)

BtHalves(n) ==
    LET mid == byte_balanced_mid(n)
        pivot == NodeKeys(n)[mid + 1]
        last == Len(NodeKeys(n))
    IN  IF is_leaf(n)
        THEN [pivot |-> pivot, left |-> BtLeaf(n.low, pivot, SubSeq(n.ents, 1, mid)),
              right |-> BtLeaf(pivot, n.high, SubSeq(n.ents, mid + 1, last))]
        ELSE [pivot |-> pivot,
              left |-> BtInternal(n.low, pivot, SubSeq(n.keys, 1, mid),
                                  SubSeq(n.kids, 1, mid + 1), BtUpTo(n.buf, pivot)),
              right |-> BtInternal(pivot, n.high, SubSeq(n.keys, mid + 2, last),
                                   SubSeq(n.kids, mid + 2, last + 1), BtFrom(n.buf, pivot))]

split_root_node(t, n, id) ==
    LET h == BtHalves(n)
        a == allocate_id(t)
        b == allocate_id(a)
        c == allocate_id(BtWrite(BtWrite(b, a.got, h.left), b.got, h.right))
        root == BtInternal(n.low, n.high, <<h.pivot>>, <<a.got, b.got>>, <<>>)
    IN  recycle_id([BtWrite(rekey_cache_frame(c, id, c.got, root), c.got, root)
                        EXCEPT !.root = c.got], id)

\* The left half keeps the child's page; the parent n gets the separator.
split_child_node(t, n, idx, c, id) ==
    LET h == BtHalves(c)
        a == allocate_id(t)
    IN  [t |-> BtFrame(BtWrite(BtWrite(a, id, h.left), a.got, h.right), id, h.left),
         n |-> [n EXCEPT !.keys = InsertAt(@, idx, h.pivot), !.kids = InsertAt(@, idx + 1, a.got)]]

\* The left sibling takes the child in, in its own page.
merge_or_borrow_cascade(t, n, nid, idx, c, id) ==
    LET lid == n.kids[idx - 1]
        l == acquire_node(t, lid)
        merged == [l EXCEPT !.ents = @ \o c.ents, !.high = c.high]
        parent == [n EXCEPT !.keys = RemoveAt(@, idx - 1), !.kids = RemoveAt(@, idx)]
        done == evict_cache_frame(recycle_id(BtFrame(BtWrite(t, lid, merged), lid, merged), id), id)
    IN  IF idx = 1 THEN [t |-> BtFrame(t, id, c), n |-> n]
        ELSE IF estimate_serialized_size(l) + estimate_serialized_size(c) > BtBudget
        THEN [t |-> BtFrame(t, id, c), n |-> n]
        ELSE [t |-> IF nid = t.root /\ parent.keys = <<>> THEN [done EXCEPT !.root = lid] ELSE done,
              n |-> parent]
-----------------------------------------------------------------------------
(* Flushing buffers.                                                       *)

BufferOf(n, idx) == {k \in DOMAIN n.buf : ChildIndex(n, k) = idx}
Densest(n) == CHOOSE i \in DOMAIN n.kids : \A j \in DOMAIN n.kids :
                  \/ Cardinality(BufferOf(n, j)) < Cardinality(BufferOf(n, i))
                  \/ Cardinality(BufferOf(n, j)) = Cardinality(BufferOf(n, i)) /\ j <= i
SortedKeys(S) == SelectSeq([i \in 1..Cardinality(BtKeys) |-> i], LAMBDA k : k \in S)

\* The messages of one child, in key order.
Delivered(t, c, buf, keys) ==
    FoldLeft(LAMBDA r, k :
                 IF is_leaf(r.n) THEN LET x == ApplyToLeaf(r.t, r.n, k, buf[k])
                                      IN  [x EXCEPT !.t.msgs = @ - 1]
                 ELSE [r EXCEPT !.n.buf = k :> buf[k] @@ @],
             [t |-> t, n |-> c], SortedKeys(keys))

\* The loops of push_msg and partial_flush_cascade around a flush.
BtDrain(t, n, nid, bufCap, rounds) ==
    IF DOMAIN n.buf = {} \/ rounds > Len(n.kids)
       \/ (Cardinality(DOMAIN n.buf) <= bufCap /\ ~TooLarge(n))
    THEN [t |-> t, n |-> n]
    ELSE LET r == partial_flush_cascade(t, n, nid) IN BtDrain(r.t, r.n, nid, bufCap, rounds + 1)

\* What becomes of a child that has got its messages: [t, n] with the parent n.
FlushedChild(e, parent, nid, idx, id) ==
    LET count == Len(NodeKeys(e.n))
    IN  IF count >= 2 /\ (count > BtNodeCap \/ TooLarge(e.n))
        THEN split_child_node(e.t, parent, idx, e.n, id)
        ELSE IF is_leaf(e.n) /\ count < BtNodeCap \div 3
        THEN [merge_or_borrow_cascade(e.t, parent, nid, idx, e.n, id) EXCEPT !.t = mark_dirty(@, id)]
        ELSE [t |-> BtFrame(BtWrite(e.t, id, e.n), id, e.n), n |-> parent]
Flushed(r, nid, old) ==
    [t |-> mark_dirty(BtFrame(recycle_id(r.t, old), nid, r.n), nid), n |-> r.n]

partial_flush_cascade(t, n, nid) ==
    LET idx == Densest(n)
        old == n.kids[idx]
        a == allocate_id(t)
        child == acquire_node(t, old)
        keys == BufferOf(n, idx)
        parent == [n EXCEPT !.kids[idx] = a.got, !.buf = [k \in DOMAIN @ \ keys |-> @[k]]]
        d == Delivered(rekey_cache_frame(a, old, a.got, child), child, n.buf, keys)
    IN  Flushed(FlushedChild(IF is_leaf(child) THEN d ELSE BtDrain(d.t, d.n, a.got, BtBudget, 0),
                             parent, nid, idx, a.got), nid, old)
-----------------------------------------------------------------------------
(* push_msg, commit and get.                                               *)

PublishRoot(t, old, id) == recycle_id([mark_dirty(t, id) EXCEPT !.root = id], old)

\* The root has got the message: r.n in page id, in place of page old.
LeafRoot(r, id, old) ==
    LET count == Len(r.n.ents)
    IN  IF count >= 2 /\ (count > BtNodeCap \/ TooLarge(r.n))
        THEN recycle_id(split_root_node(r.t, r.n, id), old)
        ELSE PublishRoot(BtFrame(r.t, id, compact_and_defragment(r.n)), old, id)
InternalRoot(r, id, old) ==
    IF Len(r.n.keys) >= 2 /\ TooLarge(r.n)
    THEN recycle_id(split_root_node(r.t, r.n, id), old)
    ELSE PublishRoot(BtFrame(r.t, id, r.n), old, id)

push_msg(t, k, msg) ==
    LET a == allocate_id(t)
        n == acquire_node(t, t.root)
        b == rekey_cache_frame(a, t.root, a.got, n)
    IN  IF is_leaf(n) THEN LeafRoot(ApplyToLeaf(b, n, k, msg), a.got, t.root)
        ELSE InternalRoot(BtDrain([b EXCEPT !.msgs = @ + 1], [n EXCEPT !.buf = k :> msg @@ @],
                                  a.got, BtBufferCap, 0), a.got, t.root)

\* The first internal node with messages, from the root, rightmost first.
RECURSIVE BtPending(_, _)
BtPending(t, stack) ==
    IF stack = <<>> THEN 0
    ELSE LET n == acquire_node(t, Last(stack))
         IN  IF is_leaf(n) THEN BtPending(t, Front(stack))
             ELSE IF DOMAIN n.buf # {} THEN Last(stack)
             ELSE BtPending(t, Front(stack) \o n.kids)
RECURSIVE BtFlushAll(_)
BtFlushAll(t) ==
    LET target == BtPending(t, <<t.root>>)
    IN  IF t.msgs <= 0 THEN t
        ELSE IF target = 0 THEN [t EXCEPT !.msgs = 0]
        ELSE BtFlushAll(partial_flush_cascade(t, acquire_node(t, target), target).t)
WriteDirty(t) == [t EXCEPT !.dirty = {},
                  !.disk = [id \in t.dirty \cap DOMAIN t.mem |-> t.mem[id]] @@ @]
RecyclePending(t) == [FoldLeft(add_to_free_list, [t EXCEPT !.pend = <<>>], t.pend) EXCEPT !.epoch = {}]

RECURSIVE BtGetFrom(_, _, _, _)
BtGetFrom(t, id, k, depth) ==
    LET n == acquire_node(t, id)
        i == CHOOSE x \in KeyIndex(n, k) : TRUE
    IN  IF depth = 0 \/ id \notin DOMAIN t.mem \cup DOMAIN t.disk THEN Deleted
        ELSE IF n.type \notin {"leaf", "internal"} \/ k < n.low \/ k >= n.high THEN Deleted
        ELSE IF is_leaf(n)
        THEN IF KeyIndex(n, k) = {} \/ n.ents[i].ghost THEN Deleted
             ELSE IF n.ents[i].ov = 0 THEN n.ents[i].v
             ELSE IF t.disk[n.ents[i].ov] = Overflow(n.ents[i].v) THEN n.ents[i].v ELSE Deleted
        ELSE IF k \in DOMAIN n.buf THEN n.buf[k]
        ELSE BtGetFrom(t, n.kids[ChildIndex(n, k)], k, depth - 1)
get(t, k) == BtGetFrom(t, t.root, k, 8)

\* from_map: a fresh file, the keys in order, a commit.
from_map(m) ==
    LET keys == SortedKeys({k \in BtKeys : m[k] # Deleted})
        full == FoldLeft(LAMBDA t, k : push_msg(t, k, m[k]), BtFresh, keys)
    IN  RecyclePending(WriteDirty(BtFlushAll(full)))
BtPreload(S) == [k \in BtKeys |-> IF k \in S THEN 1 ELSE Deleted]
-----------------------------------------------------------------------------
BtInit ==
    \E S \in BtPreloads :
        /\ btMap = BtPreload(S) /\ btCommitted = btMap
        /\ bt = BtOpened(BtSuper(from_map(btMap)), from_map(btMap).disk)
        /\ btDurable = BtSuper(bt)
        /\ btPhase = "none" /\ btCalls = 0 /\ btCommits = 0 /\ btCrashes = 0

BtCall(k, msg) ==
    /\ btPhase = "none" /\ btCalls < BtMaxCalls
    /\ bt' = push_msg(bt, k, msg)
    /\ btMap' = [btMap EXCEPT ![k] = msg]
    /\ btCalls' = btCalls + 1
    /\ UNCHANGED <<btDurable, btCommitted, btPhase, btCommits, btCrashes>>
upsert == \E k \in BtKeys, v \in {1, BtBig} : BtCall(k, v)
delete_key == \E k \in BtKeys : BtCall(k, Deleted)

\* commit: the messages and dirty frames, the superblock, the replaced pages.
commit_pages ==
    /\ btPhase = "none" /\ btCommits < BtMaxCommits
    /\ bt' = WriteDirty(BtFlushAll(bt)) /\ btPhase' = "written"
    /\ btCommits' = btCommits + 1
    /\ UNCHANGED <<btDurable, btMap, btCommitted, btCalls, btCrashes>>
commit_superblock ==
    /\ btPhase = "written"
    /\ btDurable' = BtSuper(bt) /\ btCommitted' = btMap /\ btPhase' = "swapped"
    /\ UNCHANGED <<bt, btMap, btCalls, btCommits, btCrashes>>
commit_recycle ==
    /\ btPhase = "swapped"
    /\ bt' = RecyclePending(bt) /\ btPhase' = "none"
    /\ UNCHANGED <<btDurable, btMap, btCommitted, btCalls, btCommits, btCrashes>>

\* A crash, and the open after it.
bt_open ==
    /\ btCrashes < BtMaxCrashes /\ btCrashes' = btCrashes + 1
    /\ bt' = BtOpened(btDurable, bt.disk)
    /\ btMap' = btCommitted /\ btPhase' = "none"
    /\ UNCHANGED <<btDurable, btCommitted, btCalls, btCommits>>

BtNext == upsert \/ delete_key \/ commit_pages \/ commit_superblock \/ commit_recycle \/ bt_open
-----------------------------------------------------------------------------
\* What get answers for every key.
BtContents(t) == [k \in BtKeys |-> get(t, k)]

(***************************************************************************)
(* The tree is the map its calls built, and its file, at every moment, the *)
(* map of the last commit: wherever a key's newest message is (a buffer of *)
(* some level, a leaf, an overflow page), get finds it after any flushes,  *)
(* splits, merges and page reuse (lib.rs:2212), and no page of the durable *)
(* tree is overwritten before a superblock without it is durable (:1452,   *)
(* :2349).                                                                 *)
(***************************************************************************)
TreeIsMap == /\ ~bt.bad
             /\ BtContents(bt) = btMap
             /\ BtContents(BtOpened(btDurable, bt.disk)) = btCommitted
=============================================================================
