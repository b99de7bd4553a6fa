--------------------------- MODULE ComponentProofs ---------------------------
(***************************************************************************)
(* Theorems about the components that sit around the log: the snapshot     *)
(* pins, the tail of the log, the key store, the cold tier, the consensus  *)
(* storage, distillation, the memtable and the anchors.  Each part has the inductive invariant of its        *)
(* component, one step per action, and the theorem that the component's    *)
(* specification implies the property its run checks.                      *)
(***************************************************************************)
EXTENDS SnapshotPins, LogSubscription, KeyStore, ColdTier, RaftStorage,
        Distillation, Memtable, Anchoring, NatLemmas

-----------------------------------------------------------------------------
(* The snapshot pins.                                                      *)

SpHolders(t) == {r \in SpReaders : spReader[r].pc = "held" /\ spReader[r].target = t}

SpTyped ==
    /\ spHead \in 0..SpMaxHead /\ spWatermark \in Nat /\ spFloor \in Nat
    /\ spActive \in [0..SpMaxHead -> Int]
    /\ spReader \in [SpReaders -> [pc : {"none", "loaded", "held", "released"},
                                   target : 0..SpMaxHead]]

\* The pin table counts the snapshots held, and the mutex is taken exactly
\* while a begin or a release is under way.
SpTable ==
    /\ \A t \in 0..SpMaxHead : spActive[t] = Cardinality(SpHolders(t))
    /\ \A r \in SpReaders : spReader[r].pc \in {"loaded", "released"} <=> spLock = r

\* The watermark and every floor read from it are below what is held and what
\* is about to be held, and so is the watermark a release is about to store.
SpOrder ==
    /\ spWatermark <= spHead /\ spFloor <= spHead
    /\ \A r \in SpReaders :
         /\ spReader[r].target <= spHead
         /\ spReader[r].pc \in {"loaded", "held"} =>
              spWatermark <= spReader[r].target /\ spFloor <= spReader[r].target
         /\ spReader[r].pc = "released" =>
              \A q \in SpReaders : spReader[q].pc = "held" =>
                  spReader[r].target <= spReader[q].target

SpInv == SpTyped /\ SpTable /\ SpOrder

\* The least pinned target is pinned and below every other; with nothing
\* pinned it is the default.
LEMMA SpLeastPinned ==
  ASSUME NEW act \in [0..SpMaxHead -> Int], NEW d \in 0..SpMaxHead
  PROVE  /\ SpLeast(act, d) \in 0..SpMaxHead
         /\ \A u \in 0..SpMaxHead : act[u] > 0 => SpLeast(act, d) <= u
         /\ (\A u \in 0..SpMaxHead : ~(act[u] > 0)) => SpLeast(act, d) = d
<1> DEFINE pinned == {t \in 0..SpMaxHead : act[t] > 0}
<1>1. CASE pinned = {}
  BY <1>1 DEF SpLeast
<1>2. CASE pinned # {}
  <2>1. pinned \subseteq Nat
    BY SpAssumption
  <2>2. \E t \in pinned : \A u \in pinned : t <= u
    BY <1>2, <2>1, LeastNat
  <2>3. SpLeast(act, d) = CHOOSE t \in pinned : \A u \in pinned : t <= u
    BY <1>2 DEF SpLeast
  <2>4. SpLeast(act, d) \in pinned /\ \A u \in pinned : SpLeast(act, d) <= u
    BY <2>2, <2>3
  <2> QED BY <2>4
<1> QED BY <1>1, <1>2

\* The sets of holders are finite, and a target that is held is counted.
LEMMA SpHoldersCounted ==
  ASSUME SpTyped, SpTable
  PROVE  \A t \in 0..SpMaxHead :
           /\ IsFiniteSet(SpHolders(t)) /\ Cardinality(SpHolders(t)) \in Nat
           /\ \A r \in SpHolders(t) : spActive[t] > 0
<1> TAKE t \in 0..SpMaxHead
<1>1. IsFiniteSet(SpHolders(t))
  BY SpAssumption, FS_Subset DEF SpHolders
<1>2. Cardinality(SpHolders(t)) \in Nat
  BY <1>1, FS_CardinalityType
<1>3. ASSUME NEW r \in SpHolders(t) PROVE spActive[t] > 0
  <2>1. Cardinality(SpHolders(t)) # 0
    BY <1>1, <1>3, FS_EmptySet
  <2> QED BY <2>1, <1>2 DEF SpTable
<1> QED BY <1>1, <1>2, <1>3

LEMMA SpHoldersCountedNext ==
  ASSUME SpTyped', SpTable'
  PROVE  \A t \in 0..SpMaxHead : \A r \in SpHolders(t)' : spActive'[t] > 0
<1> TAKE t \in 0..SpMaxHead
<1>1. IsFiniteSet(SpHolders(t)')
  BY SpAssumption, FS_Subset DEF SpHolders
<1>2. Cardinality(SpHolders(t)') \in Nat
  BY <1>1, FS_CardinalityType
<1> TAKE r \in SpHolders(t)'
<1>3. Cardinality(SpHolders(t)') # 0
  BY <1>1, FS_EmptySet
<1> QED BY <1>2, <1>3 DEF SpTable, SpHolders

LEMMA SpInitInv == SpInit => SpInv
<1> SUFFICES ASSUME SpInit PROVE SpInv
  OBVIOUS
<1>1. SpTyped
  BY SpAssumption DEF SpInit, SpTyped
<1>2. \A t \in 0..SpMaxHead : SpHolders(t) = {}
  BY DEF SpInit, SpHolders
<1>3. SpTable
  BY <1>2, FS_EmptySet, SpAssumption DEF SpInit, SpTable
<1>4. SpOrder
  BY SpAssumption DEF SpInit, SpOrder
<1> QED BY <1>1, <1>3, <1>4 DEF SpInv

\* A pinned target is below the head.
LEMMA SpPinnedBelowHead ==
  ASSUME SpInv
  PROVE  \A u \in 0..SpMaxHead : spActive[u] > 0 => u <= spHead
<1> TAKE u \in 0..SpMaxHead
<1> HAVE spActive[u] > 0
<1>1. Cardinality(SpHolders(u)) # 0
  BY DEF SpInv, SpTable
<1>2. SpHolders(u) # {}
  BY <1>1, FS_EmptySet
<1> QED BY <1>2 DEF SpInv, SpOrder, SpHolders

LEMMA SpBeginInv == ASSUME SpInv, NEW r \in SpReaders, SpBegin(r) PROVE SpInv'
<1> USE SpAssumption DEF SpInv
<1>1. /\ spReader' = [spReader EXCEPT ![r] = [pc |-> "loaded", target |-> spHead]]
      /\ spLock = Nobody /\ spLock' = r /\ spReader[r].pc = "none"
      /\ UNCHANGED <<spHead, spWatermark, spActive, spFloor>>
  BY DEF SpBegin, BeginLock
<1>2. SpTyped'
  BY <1>1 DEF SpTyped
<1>3. \A q \in SpReaders : q # r => spReader'[q] = spReader[q]
  BY <1>1 DEF SpTyped
<1>4. spReader'[r] = [pc |-> "loaded", target |-> spHead]
  BY <1>1 DEF SpTyped
<1>5. \A t \in 0..SpMaxHead : SpHolders(t)' = SpHolders(t)
  BY <1>1, <1>3, <1>4 DEF SpHolders
<1>6. SpTable'
  BY <1>1, <1>3, <1>4, <1>5 DEF SpTable
<1>7. SpOrder'
  <2>1. \A q \in SpReaders : spReader[q].pc # "released"
    BY <1>1 DEF SpTable
  <2> QED BY <1>1, <1>3, <1>4, <2>1 DEF SpOrder, SpTyped
<1> QED BY <1>2, <1>6, <1>7

LEMMA SpPinInv == ASSUME SpInv, NEW r \in SpReaders, SpPin(r) PROVE SpInv'
<1> USE SpAssumption DEF SpInv
<1>0. PICK t \in 0..SpMaxHead : t = spReader[r].target
  BY DEF SpTyped
<1>1. /\ spActive' = [spActive EXCEPT ![t] = @ + 1]
      /\ spWatermark' = SpLeast(spActive', t)
      /\ spReader' = [spReader EXCEPT ![r] = [pc |-> "held", target |-> t]]
      /\ spReader[r].pc = "loaded" /\ spLock = r /\ spLock' = Nobody
      /\ UNCHANGED <<spHead, spFloor>>
  BY <1>0 DEF SpPin, SpTable
<1>2. spActive' \in [0..SpMaxHead -> Int]
  BY <1>1 DEF SpTyped
<1>3. /\ spWatermark' \in 0..SpMaxHead
      /\ \A u \in 0..SpMaxHead : spActive'[u] > 0 => spWatermark' <= u
  BY <1>1, <1>2, SpLeastPinned
<1>4. /\ \A q \in SpReaders : q # r => spReader'[q] = spReader[q]
      /\ spReader'[r] = [pc |-> "held", target |-> t]
  BY <1>1 DEF SpTyped
<1>5. SpTyped'
  BY <1>1, <1>2, <1>3 DEF SpTyped
<1>6. /\ \A u \in 0..SpMaxHead : u # t => SpHolders(u)' = SpHolders(u)
      /\ SpHolders(t)' = SpHolders(t) \cup {r} /\ r \notin SpHolders(t)
  BY <1>0, <1>1, <1>4 DEF SpHolders
<1>7. SpTable'
  <2>1. IsFiniteSet(SpHolders(t)) /\ Cardinality(SpHolders(t)) = spActive[t]
    BY SpHoldersCounted DEF SpTable
  <2>2. Cardinality(SpHolders(t)') = spActive[t] + 1
    BY <2>1, <1>6, FS_AddElement
  <2>3. ASSUME NEW u \in 0..SpMaxHead PROVE spActive'[u] = Cardinality(SpHolders(u)')
    BY <1>1, <1>6, <2>2 DEF SpTyped, SpTable
  <2>4. \A q \in SpReaders : spReader'[q].pc \in {"loaded", "released"} <=> spLock' = q
    BY <1>1, <1>4 DEF SpTable
  <2> QED BY <2>3, <2>4 DEF SpTable
<1>8. ASSUME NEW q \in SpReaders, spReader'[q].pc = "held"
      PROVE  spWatermark' <= spReader'[q].target
  <2>1. PICK u \in 0..SpMaxHead : u = spReader'[q].target
    BY <1>5 DEF SpTyped
  <2>2. q \in SpHolders(u)'
    BY <1>8, <2>1 DEF SpHolders
  <2>3. spActive'[u] > 0
    BY <2>2, <1>5, <1>7, SpHoldersCountedNext
  <2> QED BY <2>1, <2>3, <1>3
<1>9. SpOrder'
  <2>1. \A q \in SpReaders : spReader'[q].pc \notin {"loaded", "released"}
    BY <1>1, <1>4 DEF SpTable
  <2>2. t <= spHead /\ spFloor <= t
    BY <1>0, <1>1 DEF SpOrder
  <2>3. spWatermark' <= t
    BY <1>8, <1>4
  <2>4. \A q \in SpReaders :
          /\ spReader'[q].target <= spHead
          /\ spReader'[q].pc = "held" => spFloor <= spReader'[q].target
    BY <1>4, <2>2 DEF SpOrder
  <2>5. spWatermark' <= spHead
    <3>1. spWatermark' \in Nat /\ t \in Nat /\ spHead \in Nat
      BY <1>3 DEF SpTyped
    <3> QED BY <2>2, <2>3, <3>1
  <2> QED BY <1>1, <1>8, <2>1, <2>4, <2>5 DEF SpOrder
<1> QED BY <1>5, <1>7, <1>9

LEMMA SpReleaseInv == ASSUME SpInv, NEW r \in SpReaders, SpRelease(r) PROVE SpInv'
<1> USE SpAssumption DEF SpInv
<1>0. PICK t \in 0..SpMaxHead : t = spReader[r].target
  BY DEF SpTyped
<1> DEFINE least == SpLeast(spActive', spHead)
<1>1. /\ spActive' = [spActive EXCEPT ![t] = @ - 1]
      /\ spReader' = [spReader EXCEPT ![r] = [pc |-> "released", target |-> least]]
      /\ spReader[r].pc = "held" /\ spLock = Nobody /\ spLock' = r
      /\ UNCHANGED <<spHead, spWatermark, spFloor>>
  BY <1>0 DEF SpRelease
<1>2. spActive' \in [0..SpMaxHead -> Int] /\ spHead \in 0..SpMaxHead
  BY <1>1 DEF SpTyped
<1>3. /\ least \in 0..SpMaxHead
      /\ \A u \in 0..SpMaxHead : spActive'[u] > 0 => least <= u
      /\ (\A u \in 0..SpMaxHead : ~(spActive'[u] > 0)) => least = spHead
  BY <1>2, SpLeastPinned
<1> HIDE DEF least
<1>4. /\ \A q \in SpReaders : q # r => spReader'[q] = spReader[q]
      /\ spReader'[r] = [pc |-> "released", target |-> least]
  BY <1>1 DEF SpTyped
<1>5. SpTyped'
  BY <1>1, <1>2, <1>3 DEF SpTyped
<1>6. /\ \A u \in 0..SpMaxHead : u # t => SpHolders(u)' = SpHolders(u)
      /\ SpHolders(t)' = SpHolders(t) \ {r} /\ r \in SpHolders(t)
  BY <1>0, <1>1, <1>4 DEF SpHolders
<1>7. SpTable'
  <2>1. IsFiniteSet(SpHolders(t)) /\ Cardinality(SpHolders(t)) = spActive[t]
    BY SpHoldersCounted DEF SpTable
  <2>2. Cardinality(SpHolders(t)') = spActive[t] - 1
    BY <2>1, <1>6, FS_RemoveElement, ZenonT(40)
  <2>3. ASSUME NEW u \in 0..SpMaxHead PROVE spActive'[u] = Cardinality(SpHolders(u)')
    BY <1>1, <1>6, <2>2 DEF SpTyped, SpTable
  <2>4. \A q \in SpReaders : spReader'[q].pc \in {"loaded", "released"} <=> spLock' = q
    BY <1>1, <1>4 DEF SpTable
  <2> QED BY <2>3, <2>4 DEF SpTable
<1>8. ASSUME NEW q \in SpReaders, spReader'[q].pc = "held"
      PROVE  least <= spReader'[q].target
  <2>1. PICK u \in 0..SpMaxHead : u = spReader'[q].target
    BY <1>5 DEF SpTyped
  <2>2. q \in SpHolders(u)'
    BY <1>8, <2>1 DEF SpHolders
  <2>3. spActive'[u] > 0
    BY <2>2, <1>5, <1>7, SpHoldersCountedNext
  <2> QED BY <2>1, <2>3, <1>3
<1>9. least <= spHead
  <2>1. CASE \A u \in 0..SpMaxHead : ~(spActive'[u] > 0)
    BY <2>1, <1>2, <1>3
  <2>2. CASE \E u \in 0..SpMaxHead : spActive'[u] > 0
    <3>1. PICK u \in 0..SpMaxHead : spActive'[u] > 0
      BY <2>2
    <3>2. spActive[u] > 0
      BY <3>1, <1>1 DEF SpTyped
    <3>3. u <= spHead
      BY <3>2, SpPinnedBelowHead
    <3> QED BY <3>1, <3>3, <1>2, <1>3
  <2> QED BY <2>1, <2>2
<1>10. SpOrder'
  <2>1. \A q \in SpReaders : q # r => spReader'[q].pc \notin {"loaded", "released"}
    BY <1>1, <1>4 DEF SpTable
  <2> QED BY <1>1, <1>4, <1>8, <1>9, <2>1 DEF SpOrder
<1> QED BY <1>5, <1>7, <1>10

LEMMA SpStoreInv == ASSUME SpInv, NEW r \in SpReaders, SpStore(r) PROVE SpInv'
<1> USE SpAssumption DEF SpInv
<1>1. /\ spReader' = [spReader EXCEPT ![r] = [pc |-> "none", target |-> 0]]
      /\ spReader[r].pc = "released" /\ spLock = r /\ spLock' = Nobody
      /\ spWatermark' = spReader[r].target
      /\ UNCHANGED <<spHead, spActive, spFloor>>
  BY DEF SpStore, SpTable
<1>2. /\ \A q \in SpReaders : q # r => spReader'[q] = spReader[q]
      /\ spReader'[r] = [pc |-> "none", target |-> 0]
  BY <1>1 DEF SpTyped
<1>3. SpTyped'
  BY <1>1 DEF SpTyped
<1>4. \A u \in 0..SpMaxHead : SpHolders(u)' = SpHolders(u)
  BY <1>1, <1>2 DEF SpHolders
<1>5. SpTable'
  BY <1>1, <1>2, <1>4 DEF SpTable
<1>6. SpOrder'
  <2>1. \A q \in SpReaders : q # r => spReader[q].pc \notin {"loaded", "released"}
    BY <1>1 DEF SpTable
  <2> QED BY <1>1, <1>2, <2>1 DEF SpOrder, SpTyped
<1> QED BY <1>3, <1>5, <1>6

\* The head and the readers of the watermark.
LEMMA SpOthersInv == ASSUME SpInv, advance_head \/ sp_watermark PROVE SpInv'
<1> USE SpAssumption DEF SpInv
<1>1. UNCHANGED <<spActive, spReader, spLock>>
  BY DEF advance_head, sp_watermark
<1>2. SpTyped'
  BY <1>1 DEF SpTyped, advance_head, sp_watermark
<1>3. SpTable'
  BY <1>1 DEF SpTable, SpHolders
<1>4. SpOrder'
  BY <1>1 DEF SpOrder, SpTyped, advance_head, sp_watermark
<1> QED BY <1>2, <1>3, <1>4

\* SpInv is an invariant of the snapshot manager.
THEOREM SpInvariant == SpSpec => []SpInv
<1>1. SpInv /\ [SpNext]_spVars => SpInv'
  <2> SUFFICES ASSUME SpInv, [SpNext]_spVars PROVE SpInv'
    OBVIOUS
  <2>1. ASSUME NEW r \in SpReaders, SpBegin(r) PROVE SpInv'
    BY <2>1, SpBeginInv
  <2>2. ASSUME NEW r \in SpReaders, SpPin(r) PROVE SpInv'
    BY <2>2, SpPinInv
  <2>3. ASSUME NEW r \in SpReaders, SpRelease(r) PROVE SpInv'
    BY <2>3, SpReleaseInv
  <2>4. ASSUME NEW r \in SpReaders, SpStore(r) PROVE SpInv'
    BY <2>4, SpStoreInv
  <2>5. CASE advance_head \/ sp_watermark
    BY <2>5, SpOthersInv
  <2>6. CASE UNCHANGED spVars
    BY <2>6 DEF spVars, SpInv, SpTyped, SpTable, SpOrder, SpHolders
  <2> QED BY <2>1, <2>2, <2>3, <2>4, <2>5, <2>6 DEF SpNext
<1> QED BY <1>1, SpInitInv, PTL DEF SpSpec

\* FloorBelowSnapshots for any number of readers and any head: no floor a
\* compaction was given is above the head a held snapshot reads at.
THEOREM SnapshotsProtected == SpSpec => []FloorBelowSnapshots
<1>1. SpInv => FloorBelowSnapshots
  BY DEF SpInv, SpOrder, FloorBelowSnapshots
<1> QED BY <1>1, SpInvariant, PTL
-----------------------------------------------------------------------------
(* The tail of the log.                                                    *)

SbTyped ==
    /\ sbDurable \in Nat /\ sbHead \in Nat /\ sbSent \in Nat
    /\ sbPlace \in [SbReceivers -> Nat \cup {NotAttached}]
    /\ sbLast \in Nat \cup {NoneSeen} /\ sbTold \subseteq Int /\ sbStart \in Nat
    /\ sbStream \in [pc : {"none", "scan", "batch", "live"}, from : Nat, next : Nat,
                     upto : Nat, out : Seq(Nat)]

\* Only what the head makes readable is sent, and only what was sent is received.
SbWindow ==
    /\ sbSent <= sbHead /\ sbHead <= sbDurable
    /\ \A r \in SbReceivers : sbPlace[r] <= sbSent

\* A catch-up of the subscriber begins at or before the first record it has not
\* been given, and everything before its place in the channel was given to it.
SbSubscriber ==
    IF sbPlace["subscriber"] = NotAttached THEN sbLast = NoneSeen
    ELSE /\ sbLast < sbPlace["subscriber"]
         /\ \A n \in Nat : sbStart <= n /\ n < sbPlace["subscriber"] => n \in sbTold

\* The stream has delivered the records from the one asked for to its next.
SbDelivered ==
    /\ sbStream.from <= sbStream.next
    /\ Len(sbStream.out) = sbStream.next - sbStream.from
    /\ \A i \in 1..Len(sbStream.out) : sbStream.out[i] = sbStream.from + i - 1

\* Nothing is delivered before the stream is asked for.
SbUnasked == StreamAt("none") => sbStream.out = <<>>

SbInv == SbTyped /\ SbWindow /\ SbSubscriber /\ SbDelivered /\ SbUnasked

LEMMA SbInitInv == SbInit => SbInv
  BY SbAssumption DEF SbInit, SbInv, SbTyped, SbWindow, SbSubscriber, SbDelivered,
                      SbUnasked, StreamAt, NotAttached, NoneSeen, SbReceivers

\* The three phases of the worker.
LEMMA SbWorkerInv == ASSUME SbInv, SbSync \/ SbPublish \/ SbSend PROVE SbInv'
<1>1. UNCHANGED <<sbPlace, sbLast, sbTold, sbStart, sbStream>>
  BY DEF SbSync, SbPublish, SbSend
<1>2. /\ sbDurable' \in Nat /\ sbHead' \in Nat /\ sbSent' \in Nat
      /\ sbSent <= sbSent' /\ sbSent' <= sbHead' /\ sbHead' <= sbDurable'
  BY SbAssumption, SMTT(30) DEF SbSync, SbPublish, SbSend, SbSendable, SbInv, SbTyped, SbWindow
<1>3. SbTyped' /\ SbSubscriber' /\ SbDelivered' /\ SbUnasked'
  BY <1>1, <1>2 DEF SbInv, SbTyped, SbSubscriber, SbDelivered, SbUnasked, StreamAt
<1>4. SbWindow'
  <2>1. \A r \in SbReceivers : sbPlace[r] \in Int /\ sbPlace[r] <= sbSent
    BY DEF SbInv, SbTyped, SbWindow, NotAttached
  <2>2. sbSent \in Nat
    BY DEF SbInv, SbTyped
  <2> QED BY <1>1, <1>2, <2>1, <2>2 DEF SbWindow
<1> QED BY <1>3, <1>4 DEF SbInv

\* A receiver's place moves to another that was sent.
LEMMA SbPlaceMoves ==
  ASSUME SbInv, NEW r \in SbReceivers, NEW p \in Nat, p <= sbSent,
         sbPlace' = [sbPlace EXCEPT ![r] = p], UNCHANGED <<sbDurable, sbHead, sbSent>>
  PROVE  /\ sbPlace' \in [SbReceivers -> Nat \cup {NotAttached}] /\ SbWindow'
         /\ sbPlace'[r] = p /\ \A q \in SbReceivers : q # r => sbPlace'[q] = sbPlace[q]
  BY DEF SbInv, SbTyped, SbWindow

\* What a receiver takes was sent, and so is what it skips to.
LEMMA SbNextPlace ==
  ASSUME SbInv, NEW r \in SbReceivers
  PROVE  /\ Received(r) => sbPlace[r] \in Nat /\ sbPlace[r] + 1 <= sbSent
         /\ sbPlace[r] \in Int /\ sbPlace[r] >= -1 /\ sbSent \in Nat
         /\ Lagged(r) => /\ sbSent - SbCapacity > sbPlace[r]
                         /\ sbSent - SbCapacity \in Nat
                         /\ sbSent - SbCapacity <= sbSent
<1>1. sbPlace[r] \in Nat \cup {-1} /\ sbSent \in Nat
  BY DEF SbInv, SbTyped, NotAttached
<1>2. SbCapacity \in Nat
  BY SbAssumption
<1> QED BY <1>1, <1>2 DEF Received, Lagged, NotAttached

LEMMA SbAttachInv == ASSUME SbInv, attach_subscriber PROVE SbInv'
<1>1. /\ sbPlace' = [sbPlace EXCEPT !["subscriber"] = sbSent] /\ sbStart' = sbSent
      /\ sbPlace["subscriber"] = NotAttached
      /\ UNCHANGED <<sbDurable, sbHead, sbSent, sbLast, sbTold, sbStream>>
  BY DEF attach_subscriber, tail_subscribe
<1>2. sbSent \in Nat /\ sbSent <= sbSent /\ "subscriber" \in SbReceivers
  BY DEF SbInv, SbTyped, SbReceivers
<1>3. /\ sbPlace' \in [SbReceivers -> Nat \cup {NotAttached}] /\ SbWindow'
      /\ sbPlace'["subscriber"] = sbSent
  BY <1>1, <1>2, SbPlaceMoves
<1>4. SbTyped' /\ SbDelivered' /\ SbUnasked'
  BY <1>1, <1>2, <1>3 DEF SbInv, SbTyped, SbDelivered, SbUnasked, StreamAt
<1>5. SbSubscriber'
  BY <1>1, <1>2, <1>3 DEF SbInv, SbSubscriber, NoneSeen, NotAttached
<1> QED BY <1>3, <1>4, <1>5 DEF SbInv

LEMMA SbAppendInv == ASSUME SbInv, on_append PROVE SbInv'
<1> DEFINE p == sbPlace["subscriber"]
<1>1. /\ sbPlace' = [sbPlace EXCEPT !["subscriber"] = p + 1]
      /\ sbLast' = p /\ sbTold' = sbTold \cup {p} /\ Received("subscriber")
      /\ UNCHANGED <<sbDurable, sbHead, sbSent, sbStart, sbStream>>
  BY DEF on_append, Advance
<1>2. p \in Nat /\ p + 1 \in Nat /\ p + 1 <= sbSent /\ "subscriber" \in SbReceivers
  BY <1>1, SbNextPlace DEF SbReceivers
<1>3. /\ sbPlace' \in [SbReceivers -> Nat \cup {NotAttached}] /\ SbWindow'
      /\ sbPlace'["subscriber"] = p + 1
  <2>1. PICK q \in Nat : q = p + 1
    BY <1>2
  <2> QED BY <2>1, <1>1, <1>2, SbPlaceMoves
<1>4. SbTyped' /\ SbDelivered' /\ SbUnasked'
  <2>1. SbDelivered' /\ SbUnasked'
    BY <1>1 DEF SbInv, SbDelivered, SbUnasked, StreamAt
  <2>2. sbLast' \in Nat /\ sbTold' \subseteq Int
    <3>1. sbTold \subseteq Int /\ p \in Int
      BY <1>2 DEF SbInv, SbTyped
    <3>2. sbTold \cup {p} \subseteq Int
      BY <3>1
    <3> QED BY <1>1, <1>2, <3>2
  <2> QED BY <1>1, <1>3, <2>1, <2>2 DEF SbInv, SbTyped
<1>5. SbSubscriber'
  BY <1>1, <1>2, <1>3, SMTT(30) DEF SbInv, SbSubscriber, NoneSeen, NotAttached, SbTyped
<1> QED BY <1>3, <1>4, <1>5 DEF SbInv

LEMMA SbOverflowInv == ASSUME SbInv, on_buffer_overflow PROVE SbInv'
<1> DEFINE p == sbPlace["subscriber"]
           s == sbSent - SbCapacity
<1>1. /\ sbPlace' = [sbPlace EXCEPT !["subscriber"] = s] /\ p # NotAttached
      /\ sbTold' = sbTold \cup SbExpected..(sbHead - 1) /\ Lagged("subscriber")
      /\ UNCHANGED <<sbDurable, sbHead, sbSent, sbLast, sbStart, sbStream>>
  BY DEF on_buffer_overflow, SkipToOldest
<1>2. s \in Nat /\ s <= sbSent /\ s > p /\ p \in Int /\ "subscriber" \in SbReceivers
  BY <1>1, SbNextPlace DEF SbReceivers
<1>3. /\ sbPlace' \in [SbReceivers -> Nat \cup {NotAttached}] /\ SbWindow'
      /\ sbPlace'["subscriber"] = s
  BY <1>1, <1>2, SbPlaceMoves
<1>4. SbExpected \in Nat /\ SbExpected <= p /\ sbLast < p
  BY <1>1, <1>2 DEF SbInv, SbSubscriber, SbExpected, NoneSeen, NotAttached, SbTyped
<1>5. SbTyped' /\ SbDelivered' /\ SbUnasked'
  BY <1>1, <1>2, <1>3, <1>4 DEF SbInv, SbTyped, SbDelivered, SbUnasked, StreamAt
<1>6. sbSent <= sbHead /\ sbHead \in Nat /\ sbSent \in Nat /\ sbStart \in Nat
  BY DEF SbInv, SbWindow, SbTyped
<1>7. ASSUME NEW n \in Nat, sbStart <= n, n < s PROVE n \in sbTold'
  <2>1. CASE n < p
    BY <2>1, <1>1, <1>7 DEF SbInv, SbSubscriber
  <2>2. CASE p <= n
    <3>1. s <= sbHead
      BY <1>2, <1>6
    <3>2. n \in SbExpected..(sbHead - 1)
      BY <2>2, <1>2, <1>4, <1>6, <1>7, <3>1
    <3> QED BY <3>2, <1>1
  <2> QED BY <2>1, <2>2, <1>2
<1>8. SbSubscriber'
  BY <1>1, <1>2, <1>3, <1>4, <1>7 DEF SbSubscriber, NoneSeen, NotAttached, SbInv, SbTyped
<1> QED BY <1>3, <1>5, <1>8 DEF SbInv

\* What leaves the subscriber alone and moves the stream's place to where it is
\* or to a record that was sent.
LEMMA SbStreamMoves ==
  ASSUME SbInv, UNCHANGED <<sbDurable, sbHead, sbSent, sbLast, sbTold, sbStart>>,
         \/ UNCHANGED sbPlace
         \/ \E p \in Nat : p <= sbSent /\ sbPlace' = [sbPlace EXCEPT !["stream"] = p],
         sbStream' \in [pc : {"none", "scan", "batch", "live"}, from : Nat, next : Nat,
                       upto : Nat, out : Seq(Nat)],
         SbDelivered', SbUnasked'
  PROVE  SbInv'
<1>1. /\ sbPlace' \in [SbReceivers -> Nat \cup {NotAttached}] /\ SbWindow'
      /\ sbPlace'["subscriber"] = sbPlace["subscriber"]
  <2>1. CASE UNCHANGED sbPlace
    BY <2>1 DEF SbInv, SbTyped, SbWindow
  <2>2. CASE ~UNCHANGED sbPlace
    <3>1. PICK p \in Nat : p <= sbSent /\ sbPlace' = [sbPlace EXCEPT !["stream"] = p]
      BY <2>2
    <3>2. "stream" \in SbReceivers /\ "subscriber" \in SbReceivers
      BY DEF SbReceivers
    <3> QED BY <3>1, <3>2, SbPlaceMoves
  <2> QED BY <2>1, <2>2
<1>2. SbSubscriber'
  BY <1>1 DEF SbInv, SbSubscriber
<1>3. SbTyped'
  BY <1>1 DEF SbInv, SbTyped
<1> QED BY <1>1, <1>2, <1>3 DEF SbInv

\* Deliver extends what was delivered by the record it is given, if that is the
\* one the stream waits for.
LEMMA SbDeliverExtends ==
  ASSUME SbInv, ~StreamAt("none"), sbStream' = Deliver(sbStream.next)
  PROVE  /\ sbStream' \in [pc : {"none", "scan", "batch", "live"}, from : Nat, next : Nat,
                          upto : Nat, out : Seq(Nat)]
         /\ SbDelivered' /\ SbUnasked'
<1> DEFINE out == sbStream.out
           next == sbStream.next
<1>1. /\ sbStream \in [pc : {"none", "scan", "batch", "live"}, from : Nat, next : Nat,
                        upto : Nat, out : Seq(Nat)]
      /\ out \in Seq(Nat) /\ next \in Nat /\ sbStream.from \in Nat
  BY DEF SbInv, SbTyped
<1>2. sbStream' = [sbStream EXCEPT !.next = next + 1, !.out = Append(out, next)]
  BY DEF Deliver
<1>3. /\ Append(out, next) \in Seq(Nat) /\ Len(Append(out, next)) = Len(out) + 1
      /\ \A i \in 1..Len(out) : Append(out, next)[i] = out[i]
      /\ Append(out, next)[Len(out) + 1] = next /\ Len(out) \in Nat
  BY <1>1
<1>4. /\ sbStream'.from = sbStream.from /\ sbStream'.next = next + 1
      /\ sbStream'.out = Append(out, next)
  BY <1>1, <1>2
<1>5. sbStream' \in [pc : {"none", "scan", "batch", "live"}, from : Nat, next : Nat,
                    upto : Nat, out : Seq(Nat)]
  <2>1. sbStream' = [pc |-> sbStream.pc, from |-> sbStream.from, next |-> next + 1,
                     upto |-> sbStream.upto, out |-> Append(out, next)]
    BY <1>1, <1>2, Zenon
  <2>2. next + 1 \in Nat /\ sbStream.upto \in Nat
        /\ sbStream.pc \in {"none", "scan", "batch", "live"}
    BY <1>1
  <2> QED BY <1>1, <1>3, <2>1, <2>2
<1>6. /\ sbStream.from <= next /\ Len(out) = next - sbStream.from
      /\ \A i \in 1..Len(out) : out[i] = sbStream.from + i - 1
  BY DEF SbInv, SbDelivered
<1>7. ASSUME NEW i \in 1..(Len(out) + 1)
      PROVE  Append(out, next)[i] = sbStream.from + i - 1
  <2>1. CASE i \in 1..Len(out)
    BY <2>1, <1>3, <1>6
  <2>2. CASE i = Len(out) + 1
    BY <2>2, <1>1, <1>3, <1>6
  <2> QED BY <2>1, <2>2, <1>3, SMTT(30)
<1>8. SbDelivered'
  BY <1>1, <1>3, <1>4, <1>6, <1>7 DEF SbDelivered
<1>9. SbUnasked'
  BY <1>1, <1>2 DEF SbUnasked, StreamAt
<1> QED BY <1>5, <1>8, <1>9

\* A change of phase delivers nothing.
LEMMA SbPhaseOnly ==
  ASSUME SbInv, NEW q \in {"scan", "batch", "live"}, NEW u \in Nat,
         \/ sbStream' = [sbStream EXCEPT !.pc = q]
         \/ sbStream' = [sbStream EXCEPT !.pc = q, !.upto = u]
         \/ sbStream' = sbStream
  PROVE  /\ sbStream' \in [pc : {"none", "scan", "batch", "live"}, from : Nat, next : Nat,
                          upto : Nat, out : Seq(Nat)]
         /\ SbDelivered' /\ SbUnasked'
<1>1. sbStream \in [pc : {"none", "scan", "batch", "live"}, from : Nat, next : Nat,
                    upto : Nat, out : Seq(Nat)]
  BY DEF SbInv, SbTyped
<1>2. /\ sbStream'.from = sbStream.from /\ sbStream'.next = sbStream.next
      /\ sbStream'.out = sbStream.out
  BY <1>1
<1>3. SbDelivered'
  BY <1>2 DEF SbInv, SbDelivered
<1>4. SbUnasked'
  BY <1>1, <1>2 DEF SbInv, SbUnasked, StreamAt
<1> QED BY <1>1, <1>3, <1>4

LEMMA SbSubscribeInv == ASSUME SbInv, sb_subscribe PROVE SbInv'
<1>1. /\ StreamAt("none") /\ sbPlace' = [sbPlace EXCEPT !["stream"] = sbSent]
      /\ UNCHANGED <<sbDurable, sbHead, sbSent, sbLast, sbTold, sbStart>>
  BY DEF sb_subscribe, tail_subscribe
<1>2. PICK from \in SbFrom :
        sbStream' = [sbStream EXCEPT !.pc = "scan", !.from = from, !.next = from]
  BY ZenonT(40) DEF sb_subscribe
<1>3. from \in Nat /\ sbSent \in Nat /\ sbSent <= sbSent
  BY SbAssumption DEF SbInv, SbTyped
<1>4. sbStream \in [pc : {"none", "scan", "batch", "live"}, from : Nat, next : Nat,
                    upto : Nat, out : Seq(Nat)]
  BY DEF SbInv, SbTyped
<1>5. sbStream' = [pc |-> "scan", from |-> from, next |-> from, upto |-> sbStream.upto,
                   out |-> sbStream.out]
  BY <1>2, <1>4, Zenon
<1>6. sbStream.out = <<>>
  BY <1>1 DEF SbInv, SbUnasked, StreamAt
<1>7. SbDelivered' /\ SbUnasked'
  BY <1>3, <1>5, <1>6 DEF SbDelivered, SbUnasked
<1>8. sbStream' \in [pc : {"none", "scan", "batch", "live"}, from : Nat, next : Nat,
                    upto : Nat, out : Seq(Nat)]
  BY <1>3, <1>4, <1>5
<1> QED BY <1>1, <1>3, <1>7, <1>8, SbStreamMoves

\* The four steps of the stream's task.
LEMMA SbStreamInv == ASSUME SbInv, SbStreamStep PROVE SbInv'
<1>1. /\ sbHead \in Nat /\ sbSent \in Nat /\ sbStream.next \in Nat /\ SbScanBatch \in Nat
      /\ "stream" \in SbReceivers
  BY SbAssumption DEF SbInv, SbTyped, SbReceivers
<1>2. CASE StreamScan
  <2>1. ScanEnd \in Nat
    BY <1>1 DEF ScanEnd
  <2>2. \/ sbStream' = [sbStream EXCEPT !.pc = "batch", !.upto = ScanEnd]
        \/ sbStream' = [sbStream EXCEPT !.pc = "live"]
    BY <1>2 DEF StreamScan
  <2>3. UNCHANGED <<sbDurable, sbHead, sbSent, sbPlace, sbLast, sbTold, sbStart>>
    BY <1>2 DEF StreamScan
  <2>4. PICK u \in Nat : u = ScanEnd
    BY <2>1
  <2> QED BY <2>2, <2>3, <2>4, SbPhaseOnly, SbStreamMoves, ZenonT(40)
<1>3. CASE StreamBatch
  <2>1. \/ sbStream' = Deliver(sbStream.next)
        \/ sbStream' = [sbStream EXCEPT !.pc = "scan"]
    BY <1>3 DEF StreamBatch
  <2>2. UNCHANGED <<sbDurable, sbHead, sbSent, sbPlace, sbLast, sbTold, sbStart>>
    BY <1>3 DEF StreamBatch
  <2>3. ~StreamAt("none")
    BY <1>3 DEF StreamBatch, StreamAt
  <2>4. CASE sbStream' = Deliver(sbStream.next)
    BY <2>2, <2>3, <2>4, SbDeliverExtends, SbStreamMoves
  <2>5. CASE sbStream' = [sbStream EXCEPT !.pc = "scan"]
    BY <2>2, <2>5, SbPhaseOnly, SbStreamMoves, ZenonT(40)
  <2> QED BY <2>1, <2>4, <2>5
<1>4. CASE StreamLive
  <2> DEFINE p == sbPlace["stream"]
  <2>1. /\ Received("stream") /\ sbStream' = StreamTakes(p)
        /\ sbPlace' = [sbPlace EXCEPT !["stream"] = p + 1] /\ StreamAt("live")
        /\ UNCHANGED <<sbDurable, sbHead, sbSent, sbLast, sbTold, sbStart>>
    BY <1>4 DEF StreamLive, Advance
  <2>2. p \in Nat /\ p + 1 \in Nat /\ p + 1 <= sbSent
    BY <1>1, <2>1, SbNextPlace
  <2>3. \/ sbStream' = Deliver(sbStream.next)
        \/ sbStream' = [sbStream EXCEPT !.pc = "scan"]
        \/ sbStream' = sbStream
    BY <1>1, <2>1, <2>2 DEF StreamTakes
  <2>4. ~StreamAt("none")
    BY <2>1 DEF StreamAt
  <2>5. PICK q \in Nat : q <= sbSent /\ sbPlace' = [sbPlace EXCEPT !["stream"] = q]
    BY <2>1, <2>2
  <2>6. CASE sbStream' = Deliver(sbStream.next)
    BY <2>1, <2>4, <2>5, <2>6, SbDeliverExtends, SbStreamMoves
  <2>7. CASE \/ sbStream' = [sbStream EXCEPT !.pc = "scan"]
             \/ sbStream' = sbStream
    <3>1. "scan" \in {"scan", "batch", "live"} /\ 0 \in Nat
      OBVIOUS
    <3>2. /\ sbStream' \in [pc : {"none", "scan", "batch", "live"}, from : Nat, next : Nat,
                            upto : Nat, out : Seq(Nat)]
          /\ SbDelivered' /\ SbUnasked'
      BY <2>7, <3>1, SbPhaseOnly, ZenonT(40)
    <3> QED BY <2>1, <2>5, <3>2, SbStreamMoves
  <2> QED BY <2>3, <2>6, <2>7
<1>5. CASE StreamLagged
  <2> DEFINE s == sbSent - SbCapacity
  <2>1. /\ Lagged("stream") /\ sbStream' = [sbStream EXCEPT !.pc = "scan"]
        /\ sbPlace' = [sbPlace EXCEPT !["stream"] = s]
        /\ UNCHANGED <<sbDurable, sbHead, sbSent, sbLast, sbTold, sbStart>>
    BY <1>5 DEF StreamLagged, SkipToOldest
  <2>2. s \in Nat /\ s <= sbSent
    BY <1>1, <2>1, SbNextPlace
  <2> QED BY <2>1, <2>2, SbPhaseOnly, SbStreamMoves, ZenonT(40)
<1> QED BY <1>2, <1>3, <1>4, <1>5 DEF SbStreamStep

\* SbInv is an invariant of the tail.
THEOREM SbInvariant == SbSpec => []SbInv
<1>1. SbInv /\ [SbNext]_sbVars => SbInv'
  <2> SUFFICES ASSUME SbInv, [SbNext]_sbVars PROVE SbInv'
    OBVIOUS
  <2>1. CASE SbSync \/ SbPublish \/ SbSend
    BY <2>1, SbWorkerInv
  <2>2. CASE attach_subscriber
    BY <2>2, SbAttachInv
  <2>3. CASE on_append
    BY <2>3, SbAppendInv
  <2>4. CASE on_buffer_overflow
    BY <2>4, SbOverflowInv
  <2>5. CASE sb_subscribe
    BY <2>5, SbSubscribeInv
  <2>6. CASE SbStreamStep
    BY <2>6, SbStreamInv
  <2>7. CASE UNCHANGED sbVars
    BY <2>7 DEF sbVars, SbInv, SbTyped, SbWindow, SbSubscriber, SbDelivered, SbUnasked, StreamAt
  <2> QED BY <2>1, <2>2, <2>3, <2>4, <2>5, <2>6, <2>7 DEF SbNext
<1> QED BY <1>1, SbInitInv, PTL DEF SbSpec

\* NoEventMissed for every capacity, batch and log: whoever listens is given
\* every record, and the stream each of them once and in LSN order.
THEOREM TailComplete == SbSpec => []NoEventMissed
<1>1. SbInv => NoEventMissed
  <2> SUFFICES ASSUME SbInv PROVE NoEventMissed
    OBVIOUS
  <2>1. sbPlace["subscriber"] # NotAttached =>
            sbStart..(sbPlace["subscriber"] - 1) \subseteq sbTold
    <3> HAVE sbPlace["subscriber"] # NotAttached
    <3>1. sbPlace["subscriber"] \in Nat /\ sbStart \in Nat
      BY DEF SbInv, SbTyped, SbReceivers
    <3> QED BY <3>1 DEF SbInv, SbSubscriber
  <2>2. sbStream.out = [i \in 1..(sbStream.next - sbStream.from) |-> sbStream.from + i - 1]
    <3>1. sbStream.out \in Seq(Nat)
      BY DEF SbInv, SbTyped
    <3>2. sbStream.out = [i \in 1..Len(sbStream.out) |-> sbStream.out[i]]
      BY <3>1
    <3> QED BY <3>2 DEF SbInv, SbDelivered
  <2> QED BY <2>1, <2>2 DEF NoEventMissed
<1> QED BY <1>1, SbInvariant, PTL
-----------------------------------------------------------------------------
(* The key store, while nothing else runs during a shred.                  *)

KsSealPcs == {"idle", "create", "write", "wait", "insert", "seal"}
KsTyped ==
    /\ ksFile \in Nat \cup {NoKey, EmptyKeyFile} /\ ksCache \in Nat \cup {NoKey}
    /\ ksSeal \in [KsSealers -> [pc : KsSealPcs, key : Nat \cup {NoKey}]]
    /\ ksRead \in [KsReaders -> [pc : {"idle", "insert"}, key : Nat \cup {NoKey}, rec : Nat,
                                 result : {"none", "shredded", "plain", "error"}]]
    /\ ksShred \in {"idle", "exists", "remove"}
    /\ ksLog \in Seq([key : Nat, shreds : Nat])
    /\ ksDrawn \in Nat /\ ksShreds \in Nat /\ ksCrashes \in Nat

\* Whatever key is cached or in a caller's hand is the one in the file, and at
\* most one caller has an empty file to fill.
KsOneKey ==
    /\ ksFile <= ksDrawn
    /\ ksCache # NoKey => ksCache = ksFile
    /\ \A s \in KsSealers : ksSeal[s].pc \in {"insert", "seal"} =>
           ksSeal[s].key = ksFile /\ ksFile \in Nat
    /\ \A s \in KsSealers : ksSeal[s].pc = "write" => ksFile = EmptyKeyFile
    /\ \A s, t \in KsSealers : ksSeal[s].pc = "write" /\ ksSeal[t].pc = "write" => s = t
    /\ \A r \in KsReaders : ksRead[r].pc = "insert" =>
           ksRead[r].key = ksFile /\ ksFile \in Nat

\* While a key is shredded nothing is cached and nobody holds a key.
KsAlone == ksShred # "idle" => KsQuiet /\ ksCache = NoKey

\* The records sealed since the last shred have the key of the file; the ones
\* before have another, or the zeros of an interrupted shred.
KsRecords ==
    \A i \in 1..Len(ksLog) :
        /\ ksLog[i].key <= ksDrawn /\ ksLog[i].shreds <= ksShreds
        /\ ksLog[i].shreds = ksShreds => ksShred # "remove" /\ ksFile = ksLog[i].key
        /\ ksLog[i].shreds # ksShreds => ksLog[i].key = ZeroKey \/ ksLog[i].key # ksFile

KsInv == KsTyped /\ KsOneKey /\ KsAlone /\ KsRecords

LEMMA KsInitInv == KsInit => KsInv
  BY DEF KsInit, KsInv, KsTyped, KsOneKey, KsAlone, KsRecords, KsQuiet, KsIdle, KsNoRead,
         NoKey, EmptyKeyFile, KsSealPcs

\* A record of the log.
LEMMA KsRecordType ==
  ASSUME KsTyped
  PROVE  \A i \in 1..Len(ksLog) : ksLog[i].key \in Nat /\ ksLog[i].shreds \in Nat
<1> TAKE i \in 1..Len(ksLog)
<1>1. ksLog[i] \in [key : Nat, shreds : Nat]
  BY ElementOfSeq DEF KsTyped
<1> QED BY <1>1

\* A sealer that only moves on.
LEMMA KsSealMoves ==
  ASSUME KsInv, NEW s \in KsSealers, NEW q \in KsSealPcs, NEW k \in Nat \cup {NoKey},
         ksSeal' = [ksSeal EXCEPT ![s] = [pc |-> q, key |-> k]],
         q \in {"insert", "seal"} => k = ksFile /\ ksFile \in Nat,
         q = "write" => FALSE,
         ksShred = "idle",
         UNCHANGED <<ksFile, ksCache, ksRead, ksShred, ksLog, ksDrawn, ksShreds, ksCrashes>>
  PROVE  KsInv'
<1>1. KsTyped'
  BY DEF KsInv, KsTyped
<1>2. /\ \A t \in KsSealers : t # s => ksSeal'[t] = ksSeal[t]
      /\ ksSeal'[s] = [pc |-> q, key |-> k]
  BY DEF KsInv, KsTyped
<1>3. KsOneKey'
  BY <1>2 DEF KsInv, KsOneKey
<1>4. KsAlone'
  BY DEF KsAlone
<1>5. KsRecords'
  BY DEF KsInv, KsRecords
<1> QED BY <1>1, <1>3, <1>4, <1>5 DEF KsInv

\* A sealer whose phase changes keeps its key.
LEMMA KsSealPc ==
  ASSUME KsTyped, NEW s \in KsSealers, NEW q, ksSeal' = [ksSeal EXCEPT ![s].pc = q]
  PROVE  ksSeal' = [ksSeal EXCEPT ![s] = [pc |-> q, key |-> ksSeal[s].key]]
<1>1. ksSeal[s] \in [pc : KsSealPcs, key : Nat \cup {NoKey}]
  BY DEF KsTyped
<1>2. [ksSeal[s] EXCEPT !.pc = q] = [pc |-> q, key |-> ksSeal[s].key]
  BY <1>1
<1> QED BY <1>2

\* What is on disk when a key can be read.
LEMMA KsReadKey ==
  ASSUME KsTyped, read_key # NoKey
  PROVE  read_key = ksFile /\ ksFile \in Nat
  BY DEF read_key, KsTyped, NoKey, EmptyKeyFile

LEMMA KsGetOrCreateInv ==
  ASSUME KsInv, ~KsOverlap, NEW s \in KsSealers, get_or_create(s) PROVE KsInv'
<1>1. /\ ksShred = "idle"
      /\ UNCHANGED <<ksFile, ksCache, ksRead, ksShred, ksLog, ksDrawn, ksShreds, ksCrashes>>
  BY DEF get_or_create, KsMayCall
<1>2. CASE ksCache # NoKey
  <2>1. ksSeal' = [ksSeal EXCEPT ![s] = [pc |-> "seal", key |-> ksCache]]
    BY <1>2 DEF get_or_create
  <2>2. ksCache \in Nat /\ ksCache = ksFile /\ "seal" \in KsSealPcs
    BY <1>2 DEF KsInv, KsTyped, KsOneKey, KsSealPcs
  <2> QED BY <1>1, <2>1, <2>2, KsSealMoves
<1>3. CASE ksCache = NoKey /\ read_key # NoKey
  <2>1. ksSeal' = [ksSeal EXCEPT ![s] = [pc |-> "insert", key |-> read_key]]
    BY <1>3 DEF get_or_create
  <2>2. read_key = ksFile /\ ksFile \in Nat /\ "insert" \in KsSealPcs
    BY <1>3, KsReadKey DEF KsInv, KsSealPcs
  <2> QED BY <1>1, <2>1, <2>2, KsSealMoves
<1>4. CASE ksCache = NoKey /\ read_key = NoKey
  <2>1. ksSeal' = [ksSeal EXCEPT ![s] = [pc |-> "create", key |-> NoKey]]
    BY <1>4 DEF get_or_create
  <2>2. "create" \in KsSealPcs /\ NoKey \in Nat \cup {NoKey}
    BY DEF KsSealPcs
  <2> QED BY <1>1, <2>1, <2>2, KsSealMoves
<1> QED BY <1>2, <1>3, <1>4

LEMMA KsWaitInv ==
  ASSUME KsInv, NEW s \in KsSealers, KsWait(s) PROVE KsInv'
<1>1. /\ ksShred = "idle"
      /\ UNCHANGED <<ksFile, ksCache, ksRead, ksShred, ksLog, ksDrawn, ksShreds, ksCrashes>>
  BY DEF KsWait, KsInv, KsAlone, KsQuiet
<1>2. CASE read_key # NoKey
  <2>1. ksSeal' = [ksSeal EXCEPT ![s] = [pc |-> "insert", key |-> read_key]]
    BY <1>2 DEF KsWait
  <2>2. read_key = ksFile /\ ksFile \in Nat /\ "insert" \in KsSealPcs
    BY <1>2, KsReadKey DEF KsInv, KsSealPcs
  <2> QED BY <1>1, <2>1, <2>2, KsSealMoves
<1>3. CASE read_key = NoKey
  <2>1. ksSeal' = [ksSeal EXCEPT ![s] = [pc |-> "idle", key |-> NoKey]]
    BY <1>3 DEF KsWait, KsIdle
  <2>2. "idle" \in KsSealPcs /\ NoKey \in Nat \cup {NoKey}
    BY DEF KsSealPcs
  <2> QED BY <1>1, <2>1, <2>2, KsSealMoves
<1> QED BY <1>2, <1>3

\* With no key in the file there is none in the cache, with a caller, or of a
\* record sealed since the last shred.
LEMMA KsNoKeyNoUse ==
  ASSUME KsInv, ksFile \in {NoKey, EmptyKeyFile}
  PROVE  /\ ksCache = NoKey
         /\ \A t \in KsSealers : ksSeal[t].pc \notin {"insert", "seal"}
         /\ ksFile = NoKey => \A t \in KsSealers : ksSeal[t].pc # "write"
         /\ \A r \in KsReaders : ksRead[r].pc # "insert"
         /\ \A i \in 1..Len(ksLog) : ksLog[i].shreds # ksShreds
<1>1. ksFile \notin Nat /\ NoKey # EmptyKeyFile
  BY DEF NoKey, EmptyKeyFile
<1>2. ksCache = NoKey
  BY <1>1 DEF KsInv, KsTyped, KsOneKey
<1>3. /\ \A t \in KsSealers : ksSeal[t].pc \notin {"insert", "seal"}
      /\ ksFile = NoKey => \A t \in KsSealers : ksSeal[t].pc # "write"
  BY <1>1 DEF KsInv, KsOneKey
<1>4. \A r \in KsReaders : ksRead[r].pc # "insert"
  BY <1>1 DEF KsInv, KsOneKey
<1>5. \A i \in 1..Len(ksLog) : ksLog[i].shreds # ksShreds
  <2>1. ASSUME NEW i \in 1..Len(ksLog), ksLog[i].shreds = ksShreds PROVE FALSE
    BY <1>1, <2>1, KsRecordType DEF KsInv, KsRecords
  <2> QED BY <2>1
<1> QED BY <1>2, <1>3, <1>4, <1>5

LEMMA KsCreateInv ==
  ASSUME KsInv, NEW s \in KsSealers, KsCreate(s) PROVE KsInv'
<1>1. /\ ksShred = "idle" /\ ksSeal[s].pc = "create"
      /\ UNCHANGED <<ksCache, ksRead, ksShred, ksLog, ksDrawn, ksShreds, ksCrashes>>
  BY DEF KsCreate, KsInv, KsAlone, KsQuiet
<1>2. PICK k \in Nat \cup {NoKey} : k = ksSeal[s].key
  BY DEF KsInv, KsTyped
<1>3. CASE ksFile = NoKey
  <2>1. ksFile' = EmptyKeyFile /\ ksSeal' = [ksSeal EXCEPT ![s].pc = "write"]
    BY <1>3 DEF KsCreate, create_new
  <2>2. ksSeal' = [ksSeal EXCEPT ![s] = [pc |-> "write", key |-> k]]
    BY <1>2, <2>1, KsSealPc DEF KsInv
  <2>3. /\ \A t \in KsSealers : t # s => ksSeal'[t] = ksSeal[t]
        /\ ksSeal'[s] = [pc |-> "write", key |-> k]
    BY <2>2 DEF KsInv, KsTyped
  <2>4. KsTyped'
    <3>1. "write" \in KsSealPcs
      BY DEF KsSealPcs
    <3>2. ksSeal' \in [KsSealers -> [pc : KsSealPcs, key : Nat \cup {NoKey}]]
      BY <2>2, <3>1 DEF KsInv, KsTyped
    <3> QED BY <1>1, <2>1, <3>2 DEF KsInv, KsTyped
  <2>5. /\ ksCache = NoKey
        /\ \A t \in KsSealers : ksSeal[t].pc \notin {"insert", "seal", "write"}
        /\ \A r \in KsReaders : ksRead[r].pc # "insert"
        /\ \A i \in 1..Len(ksLog) : ksLog[i].shreds # ksShreds
    BY <1>3, KsNoKeyNoUse DEF NoKey, EmptyKeyFile
  <2>6. KsOneKey'
    BY <1>1, <2>1, <2>3, <2>5 DEF KsInv, KsTyped, KsOneKey, EmptyKeyFile
  <2>7. KsRecords'
    BY <1>1, <2>1, <2>5, KsRecordType DEF KsInv, KsRecords, EmptyKeyFile
  <2>8. KsAlone'
    BY <1>1 DEF KsAlone
  <2> QED BY <2>4, <2>6, <2>7, <2>8 DEF KsInv
<1>4. CASE ksFile # NoKey
  <2>1. ksFile' = ksFile /\ ksSeal' = [ksSeal EXCEPT ![s].pc = "wait"]
    BY <1>4 DEF KsCreate, create_new
  <2>2. ksSeal' = [ksSeal EXCEPT ![s] = [pc |-> "wait", key |-> k]]
    BY <1>2, <2>1, KsSealPc DEF KsInv
  <2>3. "wait" \in KsSealPcs
    BY DEF KsSealPcs
  <2> QED BY <1>1, <2>1, <2>2, <2>3, KsSealMoves, ZenonT(60)
<1> QED BY <1>3, <1>4

\* The winner fills the empty file: no record, cache or other caller has a key.
LEMMA KsWriteInv ==
  ASSUME KsInv, NEW s \in KsSealers, KsWrite(s) PROVE KsInv'
<1>1. /\ ksShred = "idle" /\ ksSeal[s].pc = "write" /\ ksFile = EmptyKeyFile
      /\ UNCHANGED <<ksCache, ksRead, ksShred, ksLog, ksShreds, ksCrashes>>
  BY DEF KsWrite, KsInv, KsAlone, KsQuiet, KsOneKey
<1>2. PICK k \in Nat : k = ksDrawn + 1
  BY DEF KsInv, KsTyped
<1>3. /\ ksDrawn' = k /\ ksFile' = k
      /\ ksSeal' = [ksSeal EXCEPT ![s] = [pc |-> "insert", key |-> k]]
  BY <1>1, <1>2 DEF KsWrite, NoKey, EmptyKeyFile
<1>4. /\ \A t \in KsSealers : t # s => ksSeal'[t] = ksSeal[t]
      /\ ksSeal'[s] = [pc |-> "insert", key |-> k]
  BY <1>3 DEF KsInv, KsTyped
<1>5. KsTyped'
  BY <1>1, <1>3 DEF KsInv, KsTyped, KsSealPcs
<1>6. /\ ksCache = NoKey
      /\ \A t \in KsSealers : ksSeal[t].pc \notin {"insert", "seal"}
      /\ \A r \in KsReaders : ksRead[r].pc # "insert"
      /\ \A i \in 1..Len(ksLog) : ksLog[i].shreds # ksShreds
  BY <1>1, KsNoKeyNoUse DEF NoKey, EmptyKeyFile
<1>10. \A t \in KsSealers : t # s => ksSeal[t].pc # "write"
  BY <1>1 DEF KsInv, KsOneKey
<1>7. KsOneKey'
  <2>1. k <= k /\ k \in Nat
    BY <1>2
  <2> QED BY <1>1, <1>3, <1>4, <1>6, <1>10, <2>1 DEF KsOneKey
<1>8. KsRecords'
  <2>1. ASSUME NEW i \in 1..Len(ksLog)
        PROVE ksLog[i].key <= ksDrawn /\ ksLog[i].key \in Nat /\ ksDrawn \in Nat
    BY KsRecordType DEF KsInv, KsRecords, KsTyped
  <2>2. ASSUME NEW i \in 1..Len(ksLog) PROVE ksLog[i].key <= k /\ ksLog[i].key # k
    BY <1>2, <2>1
  <2> QED BY <1>1, <1>3, <1>6, <2>2 DEF KsInv, KsRecords
<1>9. KsAlone'
  BY <1>1 DEF KsAlone
<1> QED BY <1>5, <1>7, <1>8, <1>9 DEF KsInv

LEMMA KsInsertInv ==
  ASSUME KsInv, NEW s \in KsSealers, KsInsert(s) PROVE KsInv'
<1>1. /\ ksShred = "idle" /\ ksSeal[s].pc = "insert" /\ ksCache' = ksSeal[s].key
      /\ ksSeal' = [ksSeal EXCEPT ![s].pc = "seal"]
      /\ ksSeal[s].key = ksFile /\ ksFile \in Nat
      /\ UNCHANGED <<ksFile, ksRead, ksShred, ksLog, ksDrawn, ksShreds, ksCrashes>>
  BY DEF KsInsert, KsInv, KsAlone, KsQuiet, KsOneKey
<1>2. ksSeal' = [ksSeal EXCEPT ![s] = [pc |-> "seal", key |-> ksFile]]
  BY <1>1, KsSealPc DEF KsInv
<1>3. /\ \A t \in KsSealers : t # s => ksSeal'[t] = ksSeal[t]
      /\ ksSeal'[s] = [pc |-> "seal", key |-> ksFile]
  BY <1>2 DEF KsInv, KsTyped
<1>4. KsTyped'
  BY <1>1, <1>2 DEF KsInv, KsTyped, KsSealPcs
<1>5. KsOneKey'
  BY <1>1, <1>3 DEF KsInv, KsOneKey
<1>6. KsAlone' /\ KsRecords'
  BY <1>1 DEF KsInv, KsAlone, KsRecords
<1> QED BY <1>4, <1>5, <1>6 DEF KsInv

\* The record is sealed with the key of the file.
LEMMA KsSealInv ==
  ASSUME KsInv, NEW s \in KsSealers, seal(s) PROVE KsInv'
<1> DEFINE rec == [key |-> ksFile, shreds |-> ksShreds]
<1>1. /\ ksShred = "idle" /\ ksSeal[s].pc = "seal" /\ ksSeal' = [ksSeal EXCEPT ![s] = KsIdle]
      /\ ksSeal[s].key = ksFile /\ ksFile \in Nat
      /\ ksLog' = ksLog \/ ksLog' = Append(ksLog, rec)
      /\ UNCHANGED <<ksFile, ksCache, ksRead, ksShred, ksDrawn, ksShreds, ksCrashes>>
  BY DEF seal, KsInv, KsAlone, KsQuiet, KsOneKey
<1>2. /\ \A t \in KsSealers : t # s => ksSeal'[t] = ksSeal[t]
      /\ ksSeal'[s] = [pc |-> "idle", key |-> NoKey]
  BY <1>1 DEF KsInv, KsTyped, KsIdle
<1>3. rec \in [key : Nat, shreds : Nat] /\ ksLog \in Seq([key : Nat, shreds : Nat])
  BY <1>1 DEF KsInv, KsTyped
<1>4. ksLog' \in Seq([key : Nat, shreds : Nat])
  <2>1. Append(ksLog, rec) \in Seq([key : Nat, shreds : Nat])
    BY <1>3, AppendProperties
  <2> QED BY <1>1, <1>3, <2>1
<1>5. KsTyped'
  <2>1. ksSeal' \in [KsSealers -> [pc : KsSealPcs, key : Nat \cup {NoKey}]]
    BY <1>1 DEF KsInv, KsTyped, KsSealPcs, KsIdle
  <2> QED BY <1>1, <1>4, <2>1 DEF KsInv, KsTyped
<1>6. KsOneKey'
  BY <1>1, <1>2 DEF KsInv, KsOneKey
<1>7. KsAlone'
  BY <1>1 DEF KsAlone
<1>8. KsRecords'
  <2>1. CASE ksLog' = ksLog
    BY <1>1, <2>1 DEF KsInv, KsRecords
  <2>2. CASE ksLog' = Append(ksLog, rec)
    <3>1. /\ Len(ksLog') = Len(ksLog) + 1 /\ Len(ksLog) \in Nat
          /\ \A i \in 1..Len(ksLog) : ksLog'[i] = ksLog[i]
          /\ ksLog'[Len(ksLog) + 1] = rec
      BY <1>3, <2>2
    <3>2. ksFile <= ksDrawn /\ ksShreds <= ksShreds
      BY DEF KsInv, KsOneKey, KsTyped
    <3>3. ASSUME NEW i \in 1..(Len(ksLog) + 1)
          PROVE  /\ ksLog'[i].key <= ksDrawn /\ ksLog'[i].shreds <= ksShreds
                 /\ ksLog'[i].shreds = ksShreds => ksFile = ksLog'[i].key
                 /\ ksLog'[i].shreds # ksShreds =>
                      ksLog'[i].key = ZeroKey \/ ksLog'[i].key # ksFile
      <4>1. CASE i \in 1..Len(ksLog)
        BY <4>1, <3>1 DEF KsInv, KsRecords
      <4>2. CASE i = Len(ksLog) + 1
        BY <4>2, <3>1, <3>2
      <4> QED BY <4>1, <4>2, <3>1
    <3> QED BY <1>1, <3>1, <3>3 DEF KsRecords
  <2> QED BY <1>1, <2>1, <2>2
<1> QED BY <1>5, <1>6, <1>7, <1>8 DEF KsInv

LEMMA KsDecryptType ==
  ASSUME NEW k, NEW i
  PROVE  Decrypt(k, i) \in {"none", "shredded", "plain", "error"}
  BY DEF Decrypt

LEMMA KsReadInv ==
  ASSUME KsInv, ~KsOverlap, NEW r \in KsReaders, KsRead(r) PROVE KsInv'
<1>1. PICK i \in DOMAIN ksLog :
        \/ ksRead' = [ksRead EXCEPT ![r] =
              [pc |-> "idle", key |-> NoKey, rec |-> i, result |-> Decrypt(ksCache, i)]]
        \/ /\ ksRead' = [ksRead EXCEPT ![r] =
                 [pc |-> "insert", key |-> read_key, rec |-> i, result |-> "none"]]
           /\ read_key # NoKey
  BY DEF KsRead
<1>2. /\ ksShred = "idle"
      /\ UNCHANGED <<ksFile, ksCache, ksSeal, ksShred, ksLog, ksDrawn, ksShreds, ksCrashes>>
  BY DEF KsRead, KsMayCall
<1>3. i \in Nat /\ NoKey \in Nat \cup {NoKey}
  <2>1. DOMAIN ksLog = 1..Len(ksLog) /\ Len(ksLog) \in Nat
    BY DEF KsInv, KsTyped
  <2> QED BY <2>1
<1>4. PICK rd \in [pc : {"idle", "insert"}, key : Nat \cup {NoKey}, rec : Nat,
                  result : {"none", "shredded", "plain", "error"}] :
        /\ ksRead' = [ksRead EXCEPT ![r] = rd]
        /\ rd.pc = "insert" => rd.key = ksFile /\ ksFile \in Nat
  <2> DEFINE Reads == [pc : {"idle", "insert"}, key : Nat \cup {NoKey}, rec : Nat,
                       result : {"none", "shredded", "plain", "error"}]
  <2>1. [pc |-> "idle", key |-> NoKey, rec |-> i, result |-> Decrypt(ksCache, i)] \in Reads
    BY <1>3, KsDecryptType
  <2>2. ASSUME read_key # NoKey
        PROVE  /\ [pc |-> "insert", key |-> read_key, rec |-> i, result |-> "none"] \in Reads
               /\ read_key = ksFile /\ ksFile \in Nat
    BY <1>3, <2>2, KsReadKey DEF KsInv
  <2> QED BY <1>1, <2>1, <2>2
<1>5. KsTyped'
  BY <1>2, <1>4 DEF KsInv, KsTyped
<1>6. \A q \in KsReaders : ksRead'[q] = IF q = r THEN rd ELSE ksRead[q]
  BY <1>4 DEF KsInv, KsTyped
<1>7. KsOneKey'
  BY <1>2, <1>4, <1>6 DEF KsInv, KsOneKey
<1>8. KsAlone' /\ KsRecords'
  BY <1>2 DEF KsInv, KsAlone, KsRecords
<1> QED BY <1>5, <1>7, <1>8 DEF KsInv

LEMMA KsReadInsertInv ==
  ASSUME KsInv, NEW r \in KsReaders, KsReadInsert(r) PROVE KsInv'
<1> DEFINE rd == [pc |-> "idle", key |-> ksRead[r].key, rec |-> ksRead[r].rec,
                  result |-> Decrypt(ksRead[r].key, ksRead[r].rec)]
<1>1. /\ ksShred = "idle" /\ ksRead[r].pc = "insert" /\ ksCache' = ksRead[r].key
      /\ ksRead' = [ksRead EXCEPT ![r] = rd]
      /\ ksRead[r].key = ksFile /\ ksFile \in Nat
      /\ UNCHANGED <<ksFile, ksSeal, ksShred, ksLog, ksDrawn, ksShreds, ksCrashes>>
  BY DEF KsReadInsert, KsInv, KsAlone, KsQuiet, KsOneKey
<1>2. ksRead[r] \in [pc : {"idle", "insert"}, key : Nat \cup {NoKey}, rec : Nat,
                     result : {"none", "shredded", "plain", "error"}]
  BY DEF KsInv, KsTyped
<1>3. rd \in [pc : {"idle", "insert"}, key : Nat \cup {NoKey}, rec : Nat,
             result : {"none", "shredded", "plain", "error"}]
  BY <1>2, KsDecryptType
<1>4. rd.pc = "idle" /\ ksRead' = [ksRead EXCEPT ![r] = rd]
  BY <1>1
<1> HIDE DEF rd
<1>5. \A q \in KsReaders : ksRead'[q] = IF q = r THEN rd ELSE ksRead[q]
  BY <1>4 DEF KsInv, KsTyped
<1>6. KsTyped'
  BY <1>1, <1>3, <1>4 DEF KsInv, KsTyped
<1>7. KsOneKey'
  BY <1>1, <1>4, <1>5 DEF KsInv, KsOneKey
<1>8. KsAlone' /\ KsRecords'
  BY <1>1 DEF KsInv, KsAlone, KsRecords
<1> QED BY <1>6, <1>7, <1>8 DEF KsInv

\* The three steps of a shred.
LEMMA KsShredInv ==
  ASSUME KsInv, ~KsOverlap, shred_key \/ KsOverwrite \/ KsRemove PROVE KsInv'
<1>1. UNCHANGED <<ksSeal, ksRead, ksLog, ksDrawn, ksCrashes>>
  BY DEF shred_key, KsOverwrite, KsRemove
<1>2. KsQuiet
  BY DEF shred_key, KsOverwrite, KsRemove, KsInv, KsAlone
<1>3. KsQuiet'
  BY <1>1, <1>2 DEF KsQuiet
<1>4. CASE shred_key
  <2>1. /\ ksCache' = NoKey /\ ksShred' = "exists" /\ ksShred = "idle"
        /\ UNCHANGED <<ksFile, ksShreds>>
    BY <1>4 DEF shred_key
  <2>2. KsTyped'
    BY <1>1, <2>1 DEF KsInv, KsTyped
  <2>3. KsOneKey'
    BY <1>1, <2>1 DEF KsInv, KsOneKey
  <2>4. KsAlone' /\ KsRecords'
    BY <1>1, <1>3, <2>1 DEF KsInv, KsAlone, KsRecords
  <2> QED BY <2>2, <2>3, <2>4 DEF KsInv
<1>5. CASE KsOverwrite /\ ksFile = NoKey
  <2>1. /\ ksShred' = "idle" /\ ksShred = "exists" /\ UNCHANGED <<ksCache, ksFile, ksShreds>>
    BY <1>5 DEF KsOverwrite
  <2>2. KsTyped'
    BY <1>1, <2>1 DEF KsInv, KsTyped
  <2>3. KsOneKey' /\ KsAlone' /\ KsRecords'
    BY <1>1, <2>1 DEF KsInv, KsOneKey, KsAlone, KsRecords
  <2> QED BY <2>2, <2>3 DEF KsInv
<1>6. CASE (KsOverwrite /\ ksFile # NoKey) \/ KsRemove
  <2>1. /\ ksCache' = NoKey /\ ksFile' \in {NoKey, EmptyKeyFile, ZeroKey}
        /\ ksShreds' \in Nat /\ ksShreds <= ksShreds' /\ ksShreds \in Nat
        /\ \A i \in 1..Len(ksLog) : ksLog[i].shreds # ksShreds'
        /\ ksShred' \in {"idle", "remove"}
    <3>1. ksCache = NoKey /\ ksCache' = NoKey /\ ksShreds \in Nat
      BY <1>6 DEF KsOverwrite, KsRemove, KsInv, KsAlone, KsTyped
    <3>2. CASE KsOverwrite /\ ksFile # NoKey
      <4>1. /\ ksFile' \in {EmptyKeyFile, ZeroKey} /\ ksShreds' = ksShreds + 1
            /\ ksShred' = "remove"
        BY <3>2 DEF KsOverwrite
      <4>2. ASSUME NEW i \in 1..Len(ksLog) PROVE ksLog[i].shreds # ksShreds + 1
        <5>1. ksLog[i].shreds \in Nat /\ ksLog[i].shreds <= ksShreds
          BY KsRecordType DEF KsInv, KsRecords
        <5> QED BY <3>1, <5>1
      <4> QED BY <3>1, <4>1, <4>2
    <3>3. CASE KsRemove
      BY <3>1, <3>3 DEF KsRemove, KsInv, KsRecords
    <3> QED BY <1>6, <3>2, <3>3
  <2>2. KsTyped'
    BY <1>1, <2>1 DEF KsInv, KsTyped, ZeroKey
  <2>3. KsOneKey'
    <3>1. ksFile' <= ksDrawn
      BY <2>1 DEF KsInv, KsTyped, NoKey, EmptyKeyFile, ZeroKey
    <3>2. /\ \A s \in KsSealers : ksSeal'[s].pc = "idle"
          /\ \A r \in KsReaders : ksRead'[r].pc = "idle"
      BY <1>3 DEF KsQuiet
    <3> QED BY <1>1, <2>1, <3>1, <3>2 DEF KsOneKey
  <2>4. KsAlone'
    BY <1>3, <2>1 DEF KsAlone
  <2>5. KsRecords'
    <3>1. ASSUME NEW i \in 1..Len(ksLog)
          PROVE  /\ ksLog[i].key <= ksDrawn /\ ksLog[i].shreds <= ksShreds'
                 /\ ksLog[i].key = ZeroKey \/ ksLog[i].key # ksFile'
      <4>1. ksLog[i].key \in Nat /\ ksLog[i].shreds \in Nat
        BY KsRecordType DEF KsInv
      <4>2. ksLog[i].key <= ksDrawn /\ ksLog[i].shreds <= ksShreds
        BY DEF KsInv, KsRecords
      <4> QED BY <2>1, <4>1, <4>2 DEF NoKey, EmptyKeyFile, ZeroKey
    <3> QED BY <1>1, <2>1, <3>1 DEF KsRecords
  <2> QED BY <2>2, <2>3, <2>4, <2>5 DEF KsInv
<1> QED BY <1>4, <1>5, <1>6

LEMMA KsCrashInv == ASSUME KsInv, KsCrash PROVE KsInv'
<1>1. /\ ksCache' = NoKey /\ ksShred' = "idle" /\ ksCrashes' = ksCrashes + 1
      /\ ksSeal' = [s \in KsSealers |-> KsIdle] /\ ksRead' = [r \in KsReaders |-> KsNoRead]
      /\ UNCHANGED <<ksFile, ksLog, ksDrawn, ksShreds>>
  BY DEF KsCrash
<1>2. KsTyped'
  BY <1>1 DEF KsInv, KsTyped, KsIdle, KsNoRead, KsSealPcs
<1>3. KsOneKey'
  BY <1>1 DEF KsInv, KsOneKey, KsIdle, KsNoRead
<1>4. KsAlone' /\ KsRecords'
  BY <1>1 DEF KsInv, KsAlone, KsRecords
<1> QED BY <1>2, <1>3, <1>4 DEF KsInv

\* KsInv is an invariant of the key store when no call overlaps a shred.
THEOREM KsInvariant == ASSUME ~KsOverlap PROVE KsSpec => []KsInv
<1>1. KsInv /\ [KsNext]_ksVars => KsInv'
  <2> SUFFICES ASSUME KsInv, [KsNext]_ksVars PROVE KsInv'
    OBVIOUS
  <2>1. ASSUME NEW s \in KsSealers, get_or_create(s) PROVE KsInv'
    BY <2>1, KsGetOrCreateInv
  <2>2. ASSUME NEW s \in KsSealers, KsCreate(s) PROVE KsInv'
    BY <2>2, KsCreateInv
  <2>3. ASSUME NEW s \in KsSealers, KsWrite(s) PROVE KsInv'
    BY <2>3, KsWriteInv
  <2>4. ASSUME NEW s \in KsSealers, KsWait(s) PROVE KsInv'
    BY <2>4, KsWaitInv
  <2>5. ASSUME NEW s \in KsSealers, KsInsert(s) PROVE KsInv'
    BY <2>5, KsInsertInv
  <2>6. ASSUME NEW s \in KsSealers, seal(s) PROVE KsInv'
    BY <2>6, KsSealInv
  <2>7. ASSUME NEW r \in KsReaders, KsRead(r) PROVE KsInv'
    BY <2>7, KsReadInv
  <2>8. ASSUME NEW r \in KsReaders, KsReadInsert(r) PROVE KsInv'
    BY <2>8, KsReadInsertInv
  <2>9. CASE shred_key \/ KsOverwrite \/ KsRemove
    BY <2>9, KsShredInv
  <2>10. CASE KsCrash
    BY <2>10, KsCrashInv
  <2>11. CASE UNCHANGED ksVars
    BY <2>11 DEF ksVars, KsInv, KsTyped, KsOneKey, KsAlone, KsRecords, KsQuiet
  <2> QED BY <2>1, <2>2, <2>3, <2>4, <2>5, <2>6, <2>7, <2>8, <2>9, <2>10, <2>11 DEF KsNext
<1> QED BY <1>1, KsInitInv, PTL DEF KsSpec

\* KeyMatchesRecords for any number of appending and reading threads, of shreds
\* and of crashes: first appends that race agree on one key, and a shred leaves
\* nothing of a key behind.
THEOREM KeysMatch == ASSUME ~KsOverlap PROVE KsSpec => []KeyMatchesRecords
<1>1. KsInv => KeyMatchesRecords
  <2> SUFFICES ASSUME KsInv, NEW i \in DOMAIN ksLog
               PROVE  IF ksLog[i].shreds = ksShreds
                      THEN ksFile = ksLog[i].key /\ KsEffective = ksLog[i].key
                      ELSE ksLog[i].key # ZeroKey =>
                               ksFile # ksLog[i].key /\ KsEffective # ksLog[i].key
    BY DEF KeyMatchesRecords
  <2>1. i \in 1..Len(ksLog) /\ ksLog[i].key \in Nat
    <3>1. DOMAIN ksLog = 1..Len(ksLog)
      BY DEF KsInv, KsTyped
    <3> QED BY <3>1, KsRecordType DEF KsInv
  <2>2. KsEffective = IF ksFile \in Nat THEN ksFile ELSE NoKey
    BY DEF KsEffective, read_key, KsInv, KsTyped, KsOneKey, NoKey, EmptyKeyFile
  <2>3. NoKey \notin Nat
    BY DEF NoKey
  <2> QED BY <2>1, <2>2, <2>3 DEF KsInv, KsRecords
<1> QED BY <1>1, KsInvariant, PTL
-----------------------------------------------------------------------------
(* The cold tier.                                                          *)

CtReceipts == [gen : Nat, root : SUBSET CtRecords, min : Int, max : Int, dropped : Nat]
CtJobs == [pc : {"idle", "object", "mirror", "append"}, receipt : CtReceipts]
CtTyped ==
    /\ ctObjects \in [CtGenerations -> SUBSET Int] /\ ctMirrors \in [CtGenerations -> SUBSET Int]
    /\ ctReceipts \in Seq(CtReceipts) /\ ctTombstoned \subseteq CtRecords
    /\ ctDemote \in CtJobs /\ ctTick \in CtJobs

\* What a job has put so far is there.
CtHasPut(job) ==
    /\ job.pc \in {"mirror", "append"} => ctObjects[job.receipt.gen] = job.receipt.root
    /\ job.pc = "append" => ctMirrors[job.receipt.gen] = job.receipt.root

\* Demotions write generation 0 and nothing else, with the whole segment.
CtDemotes == ctDemote.receipt = CtReceipt /\ CtHasPut(ctDemote)

\* A compaction writes another generation than the newest receipt names, and
\* drops nothing but tombstoned records.
CtCompacts ==
    ctTick.pc # "idle" =>
        /\ ctReceipts # <<>> /\ ctTick.receipt.gen \in 1..Len(ctReceipts)
        /\ ctTick.receipt.gen # Latest.gen
        /\ CtRecords \ ctTick.receipt.root \subseteq ctTombstoned
        /\ CtHasPut(ctTick)

CtNewest ==
    /\ NewestReceiptWhole /\ Len(ctReceipts) <= CtMaxReceipts
    /\ ctReceipts # <<>> => /\ Latest.gen < Len(ctReceipts)
                            /\ Latest.gen = 0 => Latest.root = CtRecords

CtInv == CtTyped /\ CtDemotes /\ CtCompacts /\ CtNewest

\* Least and greatest LSN of a set of records.
LEMMA CtBounds ==
  ASSUME NEW S \in SUBSET CtRecords, S # {}
  PROVE  Min(S) \in Int /\ Max(S) \in Int
<1>1. S \subseteq Nat /\ IsFiniteSet(S)
  BY CtAssumption, FS_Subset
<1>2. Min(S) \in S
  <2>1. \E x \in S : \A y \in S : x <= y
    BY <1>1, LeastNat
  <2> QED BY <2>1 DEF Min
<1>3. Max(S) \in S
  <2>1. \E x \in S : \A y \in S : x >= y
    <3>1. \E x \in S : \A y \in S : y <= x
      BY <1>1, FiniteMax
    <3>2. \A x, y \in S : y <= x => x >= y
      BY <1>1
    <3> QED BY <3>1, <3>2
  <2> QED BY <2>1 DEF Max
<1>4. \A x \in S : x \in Int
  BY <1>1
<1> QED BY <1>2, <1>3, <1>4, Zenon

LEMMA CtReceiptTyped == CtReceipt \in CtReceipts
<1>1. Min(CtRecords) \in Int /\ Max(CtRecords) \in Int
  BY CtAssumption, CtBounds
<1> QED BY <1>1 DEF CtReceipt, CtReceipts

LEMMA CtInitInv == CtInit => CtInv
<1> SUFFICES ASSUME CtInit PROVE CtInv
  OBVIOUS
<1>1. CtIdle \in CtJobs /\ CtIdle.pc = "idle" /\ CtIdle.receipt = CtReceipt
  BY CtReceiptTyped DEF CtIdle, CtJobs
<1>2. NoObject \in SUBSET Int
  BY DEF NoObject
<1>3. CtTyped
  BY <1>1, <1>2 DEF CtInit, CtTyped
<1>4. CtDemotes /\ CtCompacts
  BY <1>1 DEF CtInit, CtDemotes, CtCompacts, CtHasPut
<1>5. CtNewest
  BY CtAssumption DEF CtInit, CtNewest, NewestReceiptWhole
<1> QED BY <1>3, <1>4, <1>5 DEF CtInv

\* The newest receipt is a receipt.
LEMMA CtLatestType ==
  ASSUME CtTyped, ctReceipts # <<>>
  PROVE  Latest \in CtReceipts /\ Len(ctReceipts) \in Nat \ {0}
<1>1. Len(ctReceipts) \in 1..Len(ctReceipts)
  BY DEF CtTyped
<1>2. ctReceipts[Len(ctReceipts)] \in CtReceipts
  BY <1>1, ElementOfSeq DEF CtTyped
<1> QED BY <1>1, <1>2 DEF Latest

\* A job that goes on to its next step.
LEMMA CtAfterStep ==
  ASSUME NEW job \in CtJobs, job.pc # "idle"
  PROVE  AfterStep(job) = [pc |-> IF job.pc = "object" THEN "mirror"
                                  ELSE IF job.pc = "mirror" THEN "append" ELSE "idle",
                           receipt |-> job.receipt]
<1>1. job = [pc |-> job.pc, receipt |-> job.receipt] /\ job.pc \in {"object", "mirror", "append"}
  BY DEF CtJobs
<1>2. CASE job.pc = "object"
  BY <1>1, <1>2 DEF AfterStep
<1>3. CASE job.pc = "mirror"
  BY <1>1, <1>3 DEF AfterStep
<1>4. CASE job.pc = "append"
  BY <1>1, <1>4 DEF AfterStep
<1> QED BY <1>1, <1>2, <1>3, <1>4

\* A tombstone, and a crash, which leaves no job.
LEMMA CtTombstoneInv == ASSUME CtInv, CtTombstone PROVE CtInv'
<1>1. /\ UNCHANGED <<ctObjects, ctMirrors, ctReceipts, ctDemote, ctTick>>
      /\ ctTombstoned \subseteq ctTombstoned' /\ ctTombstoned' \subseteq CtRecords
  BY DEF CtTombstone, CtInv, CtTyped
<1>2. Latest' = Latest
  BY <1>1 DEF Latest
<1>3. CtTyped'
  BY <1>1 DEF CtInv, CtTyped
<1>4. CtDemotes' /\ CtCompacts'
  BY <1>1, <1>2 DEF CtInv, CtDemotes, CtCompacts, CtHasPut
<1>5. CtNewest'
  BY <1>1, <1>2 DEF CtInv, CtNewest, NewestReceiptWhole, CtVerifies
<1> QED BY <1>3, <1>4, <1>5 DEF CtInv

LEMMA CtCrashInv == ASSUME CtInv, CtCrash PROVE CtInv'
<1>1. /\ UNCHANGED <<ctObjects, ctMirrors, ctReceipts, ctTombstoned>>
      /\ ctDemote' = CtIdle /\ ctTick' = CtIdle
  BY DEF CtCrash
<1>2. CtIdle \in CtJobs /\ CtIdle.pc = "idle" /\ CtIdle.receipt = CtReceipt
  BY CtReceiptTyped DEF CtIdle, CtJobs
<1>3. CtTyped'
  BY <1>1, <1>2 DEF CtInv, CtTyped
<1>4. CtDemotes' /\ CtCompacts'
  BY <1>1, <1>2 DEF CtDemotes, CtCompacts, CtHasPut
<1>5. Latest' = Latest
  BY <1>1 DEF Latest
<1>6. CtNewest'
  BY <1>1, <1>5 DEF CtInv, CtNewest, NewestReceiptWhole, CtVerifies
<1> QED BY <1>3, <1>4, <1>6 DEF CtInv

\* The two jobs begin.
LEMMA CtDemoteBegins == ASSUME CtInv, demote_prepared PROVE CtInv'
<1>1. /\ UNCHANGED <<ctObjects, ctMirrors, ctReceipts, ctTombstoned, ctTick>>
      /\ ctDemote' = [pc |-> "object", receipt |-> CtReceipt]
  BY DEF demote_prepared
<1>2. ctDemote' \in CtJobs
  BY <1>1, CtReceiptTyped DEF CtJobs
<1>3. CtTyped'
  BY <1>1, <1>2 DEF CtInv, CtTyped
<1>4. Latest' = Latest
  BY <1>1 DEF Latest
<1>5. CtDemotes' /\ CtCompacts'
  BY <1>1, <1>4 DEF CtInv, CtDemotes, CtCompacts, CtHasPut
<1>6. CtNewest'
  BY <1>1, <1>4 DEF CtInv, CtNewest, NewestReceiptWhole, CtVerifies
<1> QED BY <1>3, <1>5, <1>6 DEF CtInv

LEMMA CtTickBegins == ASSUME CtInv, tier_compaction_tick PROVE CtInv'
<1> DEFINE new == CtCompacted(Latest)
           kept == ctObjects[Latest.gen] \ ctTombstoned
<1>1. /\ UNCHANGED <<ctObjects, ctMirrors, ctReceipts, ctTombstoned, ctDemote>>
      /\ ctTick' = [pc |-> "object", receipt |-> new] /\ ctReceipts # <<>>
  BY DEF tier_compaction_tick
<1>2. /\ Latest \in CtReceipts /\ Len(ctReceipts) \in Nat \ {0} /\ Latest' = Latest
      /\ Latest.gen \in Nat /\ Latest.root \subseteq CtRecords
      /\ ctObjects[Latest.gen] = Latest.root /\ Latest.gen < Len(ctReceipts)
      /\ CtRecords \ Latest.root \subseteq ctTombstoned
  <2>1. Latest \in CtReceipts /\ Len(ctReceipts) \in Nat \ {0} /\ Latest' = Latest
    BY <1>1, CtLatestType DEF CtInv, Latest
  <2>2. Latest.gen \in Nat /\ Latest.root \subseteq CtRecords
    BY <2>1 DEF CtReceipts
  <2> QED BY <1>1, <2>1, <2>2 DEF CtInv, CtNewest, NewestReceiptWhole, CtVerifies
<1>3. /\ new.gen = Latest.gen + 1 /\ new.root = kept
      /\ new.min = IF kept = {} THEN Latest.min ELSE Min(kept)
      /\ new.max = IF kept = {} THEN Latest.max ELSE Max(kept)
      /\ new.dropped = Cardinality(ctObjects[Latest.gen] \ kept)
      /\ new = [gen |-> new.gen, root |-> new.root, min |-> new.min, max |-> new.max,
                dropped |-> new.dropped]
  BY DEF CtCompacted, CtGeneration
<1> HIDE DEF new
<1>4. new \in CtReceipts
  <2>1. kept \subseteq CtRecords
    BY <1>2
  <2>2. Latest.min \in Int /\ Latest.max \in Int
    BY <1>2 DEF CtReceipts
  <2>3. new.min \in Int /\ new.max \in Int
    BY <1>3, <2>1, <2>2, CtBounds
  <2>4. new.dropped \in Nat
    <3>1. IsFiniteSet(ctObjects[Latest.gen] \ kept)
      BY <1>2, CtAssumption, FS_Subset
    <3> QED BY <1>3, <3>1, FS_CardinalityType
  <2>5. new.gen \in Nat /\ new.root \in SUBSET CtRecords
    BY <1>2, <1>3, <2>1
  <2> QED BY <1>3, <2>3, <2>4, <2>5 DEF CtReceipts
<1>5. ctTick' \in CtJobs
  BY <1>1, <1>4 DEF CtJobs
<1>6. CtTyped'
  BY <1>1, <1>5 DEF CtInv, CtTyped
<1>7. CtDemotes'
  BY <1>1 DEF CtInv, CtDemotes, CtHasPut
<1>8. CtCompacts'
  <2>1. new.gen \in 1..Len(ctReceipts) /\ new.gen # Latest.gen
    BY <1>2, <1>3
  <2>2. CtRecords \ new.root \subseteq ctTombstoned
    BY <1>2, <1>3
  <2> QED BY <1>1, <1>2, <2>1, <2>2 DEF CtCompacts, CtHasPut
<1>9. CtNewest'
  BY <1>1, <1>2 DEF CtInv, CtNewest, NewestReceiptWhole, CtVerifies
<1> QED BY <1>6, <1>7, <1>8, <1>9 DEF CtInv

\* The receipt a job appends becomes the newest.
LEMMA CtAppended ==
  ASSUME CtInv, NEW rc \in CtReceipts, ctReceipts' = Append(ctReceipts, rc)
  PROVE  /\ ctReceipts' \in Seq(CtReceipts) /\ Len(ctReceipts') = Len(ctReceipts) + 1
         /\ ctReceipts' # <<>> /\ Latest' = rc /\ Len(ctReceipts) \in Nat
<1>1. ctReceipts \in Seq(CtReceipts) /\ Len(ctReceipts) \in Nat
  BY DEF CtInv, CtTyped
<1>2. /\ ctReceipts' \in Seq(CtReceipts) /\ Len(ctReceipts') = Len(ctReceipts) + 1
      /\ ctReceipts' # <<>> /\ ctReceipts'[Len(ctReceipts) + 1] = rc
  BY <1>1, AppendProperties
<1> QED BY <1>1, <1>2 DEF Latest

\* What the invariant says of the newest receipt.
LEMMA CtNewestFacts ==
  ASSUME CtInv, ctReceipts # <<>>
  PROVE  /\ Latest.gen \in CtGenerations
         /\ ctObjects[Latest.gen] = Latest.root /\ ctMirrors[Latest.gen] = Latest.root
         /\ Latest.gen = 0 => Latest.root = CtRecords
<1>1. Latest.gen \in Nat /\ Len(ctReceipts) \in Nat
  BY CtLatestType DEF CtInv, CtReceipts
<1>2. Latest.gen < Len(ctReceipts) /\ Len(ctReceipts) <= CtMaxReceipts
  BY DEF CtInv, CtNewest
<1>3. Latest.gen \in CtGenerations
  BY <1>1, <1>2, CtAssumption DEF CtGenerations
<1> QED BY <1>3 DEF CtInv, CtNewest, NewestReceiptWhole, CtVerifies

\* The generation a compaction writes.
LEMMA CtTickGeneration ==
  ASSUME CtInv
  PROVE  ctTick.pc # "idle" => ctTick.receipt.gen \in CtGenerations \ {0}
<1> HAVE ctTick.pc # "idle"
<1>1. ctTick.receipt.gen \in 1..Len(ctReceipts) /\ Len(ctReceipts) \in Nat
  BY DEF CtInv, CtTyped, CtCompacts
<1>2. Len(ctReceipts) <= CtMaxReceipts
  BY DEF CtInv, CtNewest
<1> QED BY <1>1, <1>2, CtAssumption DEF CtGenerations

\* One step of a demotion.
LEMMA CtDemoteSteps == ASSUME CtInv, demote_segment PROVE CtInv'
<1>1. /\ CtStep(ctDemote) /\ ctDemote' = AfterStep(ctDemote)
      /\ UNCHANGED <<ctTombstoned, ctTick>> /\ ctDemote \in CtJobs /\ ctDemote.pc # "idle"
  BY DEF demote_segment, CtStep, CtPutObject, CtPutMirror, CtAppendReceipt, CtInv, CtTyped
<1>2. /\ ctDemote' = [pc |-> IF ctDemote.pc = "object" THEN "mirror"
                            ELSE IF ctDemote.pc = "mirror" THEN "append" ELSE "idle",
                     receipt |-> CtReceipt]
      /\ ctDemote.receipt = CtReceipt
  BY <1>1, CtAfterStep DEF CtInv, CtDemotes
<1>3. ctDemote' \in CtJobs
  BY <1>2, CtReceiptTyped DEF CtJobs
<1>4. /\ CtReceipt.gen = 0 /\ CtReceipt.root = CtRecords /\ 0 \in CtGenerations
      /\ CtRecords \in SUBSET Int
  BY CtAssumption DEF CtReceipt, CtGenerations
<1>5. CASE CtPutObject(ctDemote)
  <2>1. /\ ctObjects' = [ctObjects EXCEPT ![0] = CtRecords] /\ ctDemote'.pc = "mirror"
        /\ UNCHANGED <<ctMirrors, ctReceipts>> /\ Latest' = Latest
    BY <1>2, <1>4, <1>5 DEF CtPutObject, Latest
  <2>2. /\ ctObjects' \in [CtGenerations -> SUBSET Int] /\ ctObjects'[0] = CtRecords
        /\ \A g \in CtGenerations : g # 0 => ctObjects'[g] = ctObjects[g]
    BY <1>4, <2>1 DEF CtInv, CtTyped
  <2>3. CtTyped'
    BY <1>1, <1>3, <2>1, <2>2 DEF CtInv, CtTyped
  <2>4. CtDemotes'
    BY <1>2, <1>4, <2>1, <2>2 DEF CtDemotes, CtHasPut
  <2>5. CtCompacts'
    <3>1. ctTick.pc # "idle" => ctTick.receipt.gen \in CtGenerations \ {0}
      BY CtTickGeneration
    <3> QED BY <1>1, <2>1, <2>2, <3>1 DEF CtInv, CtCompacts, CtHasPut
  <2>6. CtNewest'
    BY <1>1, <2>1, <2>2, CtNewestFacts DEF CtInv, CtNewest, NewestReceiptWhole, CtVerifies
  <2> QED BY <2>3, <2>4, <2>5, <2>6 DEF CtInv
<1>6. CASE CtPutMirror(ctDemote)
  <2>1. /\ ctMirrors' = [ctMirrors EXCEPT ![0] = CtRecords] /\ ctDemote'.pc = "append"
        /\ UNCHANGED <<ctObjects, ctReceipts>> /\ Latest' = Latest /\ ctDemote.pc = "mirror"
    BY <1>2, <1>4, <1>6 DEF CtPutMirror, Latest
  <2>2. /\ ctMirrors' \in [CtGenerations -> SUBSET Int] /\ ctMirrors'[0] = CtRecords
        /\ \A g \in CtGenerations : g # 0 => ctMirrors'[g] = ctMirrors[g]
    BY <1>4, <2>1 DEF CtInv, CtTyped
  <2>3. CtTyped'
    BY <1>1, <1>3, <2>1, <2>2 DEF CtInv, CtTyped
  <2>4. CtDemotes'
    <3>1. ctObjects[0] = CtRecords
      BY <1>2, <1>4, <2>1 DEF CtInv, CtDemotes, CtHasPut
    <3> QED BY <1>2, <1>4, <2>1, <2>2, <3>1 DEF CtDemotes, CtHasPut
  <2>5. CtCompacts'
    <3>1. ctTick.pc # "idle" => ctTick.receipt.gen \in CtGenerations \ {0}
      BY CtTickGeneration
    <3> QED BY <1>1, <2>1, <2>2, <3>1 DEF CtInv, CtCompacts, CtHasPut
  <2>6. CtNewest'
    BY <1>1, <2>1, <2>2, CtNewestFacts DEF CtInv, CtNewest, NewestReceiptWhole, CtVerifies
  <2> QED BY <2>3, <2>4, <2>5, <2>6 DEF CtInv
<1>7. CASE CtAppendReceipt(ctDemote)
  <2>1. /\ ctReceipts' = Append(ctReceipts, CtReceipt) /\ Len(ctReceipts) < CtMaxReceipts
        /\ UNCHANGED <<ctObjects, ctMirrors>> /\ ctDemote'.pc = "idle" /\ ctDemote.pc = "append"
    BY <1>2, <1>7 DEF CtAppendReceipt
  <2>2. /\ ctReceipts' \in Seq(CtReceipts) /\ Len(ctReceipts') = Len(ctReceipts) + 1
        /\ ctReceipts' # <<>> /\ Latest' = CtReceipt /\ Len(ctReceipts) \in Nat
    BY <2>1, CtReceiptTyped, CtAppended
  <2>3. CtTyped'
    BY <1>1, <1>3, <2>1, <2>2 DEF CtInv, CtTyped
  <2>4. CtDemotes'
    BY <1>2, <2>1 DEF CtDemotes, CtHasPut
  <2>5. CtCompacts'
    <3>1. ASSUME ctTick.pc # "idle"
          PROVE  /\ ctTick.receipt.gen \in 1..Len(ctReceipts') /\ ctTick.receipt.gen # CtReceipt.gen
                 /\ CtRecords \ ctTick.receipt.root \subseteq ctTombstoned
                 /\ CtHasPut(ctTick)
      <4>1. /\ ctTick.receipt.gen \in 1..Len(ctReceipts)
            /\ CtRecords \ ctTick.receipt.root \subseteq ctTombstoned /\ CtHasPut(ctTick)
        BY <3>1 DEF CtInv, CtCompacts
      <4> QED BY <1>4, <2>2, <4>1
    <3> QED BY <1>1, <2>1, <2>2, <3>1 DEF CtCompacts, CtHasPut
  <2>6. CtNewest'
    <3>1. ctObjects[0] = CtRecords /\ ctMirrors[0] = CtRecords
      BY <1>2, <1>4, <2>1 DEF CtInv, CtDemotes, CtHasPut
    <3>2. Len(ctReceipts') <= CtMaxReceipts /\ 0 < Len(ctReceipts')
      BY <2>1, <2>2, CtAssumption
    <3> QED BY <1>1, <1>4, <2>1, <2>2, <3>1, <3>2 DEF CtNewest, NewestReceiptWhole, CtVerifies
  <2> QED BY <2>3, <2>4, <2>5, <2>6 DEF CtInv
<1> QED BY <1>1, <1>5, <1>6, <1>7 DEF CtStep

\* One step of a compaction.
LEMMA CtCompactSteps == ASSUME CtInv, compact_cold_prepared PROVE CtInv'
<1>1. /\ CtStep(ctTick) /\ ctTick' = AfterStep(ctTick)
      /\ UNCHANGED <<ctTombstoned, ctDemote>> /\ ctTick \in CtJobs /\ ctTick.pc # "idle"
  BY DEF compact_cold_prepared, CtStep, CtPutObject, CtPutMirror, CtAppendReceipt, CtInv, CtTyped
<1>2. PICK rc \in CtReceipts : rc = ctTick.receipt
  BY <1>1 DEF CtJobs
<1>3. ctTick' = [pc |-> IF ctTick.pc = "object" THEN "mirror"
                         ELSE IF ctTick.pc = "mirror" THEN "append" ELSE "idle",
                  receipt |-> rc]
  BY <1>1, <1>2, CtAfterStep
<1>4. ctTick' \in CtJobs
  BY <1>3 DEF CtJobs
<1>5. PICK g \in CtGenerations \ {0} : g = rc.gen
  BY <1>1, <1>2, CtTickGeneration
<1>6. /\ ctReceipts # <<>> /\ g \in 1..Len(ctReceipts) /\ g # Latest.gen
      /\ CtRecords \ rc.root \subseteq ctTombstoned
      /\ rc.root \in SUBSET Int /\ Len(ctReceipts) \in Nat
  <2>1. ctReceipts # <<>> /\ rc.gen \in 1..Len(ctReceipts) /\ rc.gen # Latest.gen
        /\ CtRecords \ rc.root \subseteq ctTombstoned
    BY <1>1, <1>2 DEF CtInv, CtCompacts
  <2>2. rc.root \in SUBSET CtRecords
    BY DEF CtReceipts
  <2>3. rc.root \in SUBSET Int
    <3>1. \A lsn \in CtRecords : lsn \in Int
      BY CtAssumption
    <3> QED BY <2>2, <3>1
  <2>4. Len(ctReceipts) \in Nat
    BY DEF CtInv, CtTyped
  <2> QED BY <1>5, <2>1, <2>3, <2>4
<1>7. ctDemote.receipt.gen = 0 /\ ctDemote.receipt = CtReceipt
  BY DEF CtInv, CtDemotes, CtReceipt
<1>8. CASE CtPutObject(ctTick)
  <2>1. /\ ctObjects' = [ctObjects EXCEPT ![g] = rc.root] /\ ctTick'.pc = "mirror"
        /\ UNCHANGED <<ctMirrors, ctReceipts>> /\ Latest' = Latest
    BY <1>2, <1>3, <1>5, <1>8 DEF CtPutObject, Latest
  <2>2. /\ ctObjects' \in [CtGenerations -> SUBSET Int] /\ ctObjects'[g] = rc.root
        /\ \A h \in CtGenerations : h # g => ctObjects'[h] = ctObjects[h]
    BY <1>5, <1>6, <2>1 DEF CtInv, CtTyped
  <2>3. CtTyped'
    BY <1>1, <1>4, <2>1, <2>2 DEF CtInv, CtTyped
  <2>4. CtDemotes'
    BY <1>1, <1>5, <1>7, <2>1, <2>2, CtAssumption DEF CtInv, CtDemotes, CtHasPut, CtGenerations
  <2>5. CtCompacts'
    BY <1>1, <1>3, <1>5, <1>6, <2>1, <2>2 DEF CtCompacts, CtHasPut
  <2>6. CtNewest'
    BY <1>1, <1>6, <2>1, <2>2, CtNewestFacts DEF CtInv, CtNewest, NewestReceiptWhole, CtVerifies
  <2> QED BY <2>3, <2>4, <2>5, <2>6 DEF CtInv
<1>9. CASE CtPutMirror(ctTick)
  <2>1. /\ ctMirrors' = [ctMirrors EXCEPT ![g] = rc.root] /\ ctTick'.pc = "append"
        /\ UNCHANGED <<ctObjects, ctReceipts>> /\ Latest' = Latest
        /\ ctObjects[g] = rc.root
    BY <1>2, <1>3, <1>5, <1>9 DEF CtPutMirror, Latest, CtInv, CtCompacts, CtHasPut
  <2>2. /\ ctMirrors' \in [CtGenerations -> SUBSET Int] /\ ctMirrors'[g] = rc.root
        /\ \A h \in CtGenerations : h # g => ctMirrors'[h] = ctMirrors[h]
    BY <1>5, <1>6, <2>1 DEF CtInv, CtTyped
  <2>3. CtTyped'
    BY <1>1, <1>4, <2>1, <2>2 DEF CtInv, CtTyped
  <2>4. CtDemotes'
    BY <1>1, <1>5, <1>7, <2>1, <2>2, CtAssumption DEF CtInv, CtDemotes, CtHasPut, CtGenerations
  <2>5. CtCompacts'
    BY <1>1, <1>3, <1>5, <1>6, <2>1, <2>2 DEF CtCompacts, CtHasPut
  <2>6. CtNewest'
    BY <1>1, <1>6, <2>1, <2>2, CtNewestFacts DEF CtInv, CtNewest, NewestReceiptWhole, CtVerifies
  <2> QED BY <2>3, <2>4, <2>5, <2>6 DEF CtInv
<1>10. CASE CtAppendReceipt(ctTick)
  <2>1. /\ ctReceipts' = Append(ctReceipts, rc) /\ Len(ctReceipts) < CtMaxReceipts
        /\ UNCHANGED <<ctObjects, ctMirrors>> /\ ctTick'.pc = "idle"
        /\ ctObjects[g] = rc.root /\ ctMirrors[g] = rc.root
    BY <1>2, <1>3, <1>5, <1>10 DEF CtAppendReceipt, CtInv, CtCompacts, CtHasPut
  <2>2. /\ ctReceipts' \in Seq(CtReceipts) /\ Len(ctReceipts') = Len(ctReceipts) + 1
        /\ ctReceipts' # <<>> /\ Latest' = rc
    BY <2>1, CtAppended
  <2>3. CtTyped'
    BY <1>1, <1>4, <2>1, <2>2 DEF CtInv, CtTyped
  <2>4. CtDemotes'
    BY <1>1, <2>1 DEF CtInv, CtDemotes, CtHasPut
  <2>5. CtCompacts'
    BY <2>1 DEF CtCompacts
  <2>6. CtNewest'
    <3>1. Len(ctReceipts') <= CtMaxReceipts /\ g < Len(ctReceipts') /\ g # 0
      BY <1>5, <1>6, <2>1, <2>2, CtAssumption
    <3> QED BY <1>1, <1>5, <1>6, <2>1, <2>2, <3>1 DEF CtNewest, NewestReceiptWhole, CtVerifies
  <2> QED BY <2>3, <2>4, <2>5, <2>6 DEF CtInv
<1> QED BY <1>1, <1>8, <1>9, <1>10 DEF CtStep

\* CtInv is an invariant of the cold tier.
THEOREM CtInvariant == CtSpec => []CtInv
<1>1. CtInv /\ [CtNext]_ctVars => CtInv'
  <2> SUFFICES ASSUME CtInv, [CtNext]_ctVars PROVE CtInv'
    OBVIOUS
  <2>1. CASE CtTombstone
    BY <2>1, CtTombstoneInv
  <2>2. CASE demote_prepared
    BY <2>2, CtDemoteBegins
  <2>3. CASE demote_segment
    BY <2>3, CtDemoteSteps
  <2>4. CASE tier_compaction_tick
    BY <2>4, CtTickBegins
  <2>5. CASE compact_cold_prepared
    BY <2>5, CtCompactSteps
  <2>6. CASE CtCrash
    BY <2>6, CtCrashInv
  <2>7. CASE UNCHANGED ctVars
    BY <2>7 DEF ctVars, CtInv, CtTyped, CtDemotes, CtCompacts, CtHasPut, CtNewest,
                NewestReceiptWhole, CtVerifies, Latest
  <2> QED BY <2>1, <2>2, <2>3, <2>4, <2>5, <2>6, <2>7 DEF CtNext
<1> QED BY <1>1, CtInitInv, PTL DEF CtSpec

\* NewestReceiptWhole for any segment, any policy and any number of demotions,
\* compactions and crashes.
THEOREM ColdSegmentWhole == CtSpec => []NewestReceiptWhole
<1>1. CtInv => NewestReceiptWhole
  BY DEF CtInv, CtNewest
<1> QED BY <1>1, CtInvariant, PTL
-----------------------------------------------------------------------------
(* The consensus storage.                                                  *)

\* A sequence, whatever its elements are.
IsSequence(s) == s \in Seq({s[i] : i \in DOMAIN s})

\* What the calls of openraft's core leave to do.
NoGrant(s) == \A k \in DOMAIN s : s[k].do # "grant"
-----------------------------------------------------------------------------
(* Sequences.                                                              *)

LEMMA SeqIsSequence ==
  ASSUME NEW S, NEW s \in Seq(S)
  PROVE  IsSequence(s)
<1>1. \A i \in DOMAIN s : s[i] \in {s[j] : j \in DOMAIN s}
  OBVIOUS
<1> QED BY <1>1 DEF IsSequence

LEMMA AppendIsSequence ==
  ASSUME NEW s, IsSequence(s), NEW e
  PROVE  IsSequence(Append(s, e)) /\ Len(Append(s, e)) = Len(s) + 1 /\ Len(s) \in Nat
<1> DEFINE S == {s[i] : i \in DOMAIN s} \cup {e}
<1>1. s \in Seq(S) /\ e \in S
  BY DEF IsSequence
<1>2. Append(s, e) \in Seq(S) /\ Len(Append(s, e)) = Len(s) + 1 /\ Len(s) \in Nat
  BY <1>1
<1>3. IsSequence(Append(s, e))
  BY <1>2, SeqIsSequence
<1> QED BY <1>2, <1>3

LEMMA PrefixIsSequence ==
  ASSUME NEW s, IsSequence(s), NEW n \in 0..Len(s)
  PROVE  IsSequence(SubSeq(s, 1, n)) /\ Len(SubSeq(s, 1, n)) = n
<1> DEFINE S == {s[i] : i \in DOMAIN s}
<1>1. s \in Seq(S) /\ n \in Nat /\ \A i \in 1..n : s[i] \in S
  BY DEF IsSequence
<1> HIDE DEF S
<1>2. SubSeq(s, 1, n) \in Seq(S) /\ Len(SubSeq(s, 1, n)) = n
  BY <1>1, SubSeqProperties
<1>3. IsSequence(SubSeq(s, 1, n))
  BY <1>2, SeqIsSequence
<1> QED BY <1>2, <1>3

LEMMA TailIsSequence ==
  ASSUME NEW s, IsSequence(s), s # <<>>
  PROVE  /\ Head(s) = s[1] /\ 1 \in DOMAIN s
         /\ IsSequence(Tail(s)) /\ \A k \in DOMAIN Tail(s) : k + 1 \in DOMAIN s /\ Tail(s)[k] = s[k + 1]
<1> DEFINE S == {s[i] : i \in DOMAIN s}
<1>1. s \in Seq(S)
  BY DEF IsSequence
<1> HIDE DEF S
<1>2. Tail(s) \in Seq(S) /\ \A k \in DOMAIN Tail(s) : k + 1 \in DOMAIN s /\ Tail(s)[k] = s[k + 1]
  BY <1>1
<1>3. IsSequence(Tail(s))
  BY <1>2, SeqIsSequence
<1>4. Head(s) = s[1] /\ 1 \in DOMAIN s
  BY <1>1
<1> QED BY <1>2, <1>3, <1>4

LEMMA DoIsSequence ==
  ASSUME NEW d, NEW r, d # "grant"
  PROVE  IsSequence(Do(d, r)) /\ NoGrant(Do(d, r))
BY DEF Do, IsSequence, NoGrant

LEMMA PairIsSequence ==
  ASSUME NEW a, NEW b
  PROVE  <<a>> \o <<b>> = <<a, b>> /\ IsSequence(<<a, b>>)
<1>1. <<a, b>> \in Seq({a, b})
  OBVIOUS
<1>2. <<a>> \o <<b>> = <<a, b>>
  <2>1. <<a>> \in Seq({a, b}) /\ <<b>> \in Seq({a, b})
    OBVIOUS
  <2>2. <<a>> \o <<b>> \in Seq({a, b}) /\ Len(<<a>> \o <<b>>) = 2
    BY <2>1
  <2>3. (<<a>> \o <<b>>)[1] = a /\ (<<a>> \o <<b>>)[2] = b
    BY <2>1
  <2>4. Len(<<a, b>>) = 2 /\ \A i \in 1..2 : (<<a>> \o <<b>>)[i] = <<a, b>>[i]
    BY <2>3
  <2> DEFINE ab == <<a>> \o <<b>>
             pair == <<a, b>>
             S == {a, b}
  <2>5. ab \in Seq(S) /\ pair \in Seq(S) /\ Len(ab) = Len(pair)
        /\ \A i \in 1..Len(ab) : ab[i] = pair[i]
    BY <1>1, <2>2, <2>4
  <2> HIDE DEF ab, pair, S
  <2>6. ab = pair
    BY <2>5, SeqEqual
  <2> QED BY <2>6 DEF ab, pair
<1>3. IsSequence(<<a, b>>)
  BY <1>1, SeqIsSequence
<1> QED BY <1>2, <1>3

LEMMA ConcatIsSequence ==
  ASSUME NEW s, NEW t, IsSequence(s), IsSequence(t), NoGrant(s), NoGrant(t)
  PROVE  IsSequence(s \o t) /\ NoGrant(s \o t)
<1> DEFINE S == {s[i] : i \in DOMAIN s} \cup {t[i] : i \in DOMAIN t}
<1>1. s \in Seq(S) /\ t \in Seq(S)
  BY DEF IsSequence
<1> HIDE DEF S
<1>2. s \o t \in Seq(S)
  BY <1>1
<1>3. \A k \in DOMAIN (s \o t) :
        \/ k \in DOMAIN s /\ (s \o t)[k] = s[k]
        \/ k - Len(s) \in DOMAIN t /\ (s \o t)[k] = t[k - Len(s)]
  BY <1>1
<1>4. IsSequence(s \o t)
  BY <1>2, SeqIsSequence
<1>5. NoGrant(s \o t)
  BY <1>3 DEF NoGrant
<1> QED BY <1>4, <1>5
-----------------------------------------------------------------------------
(* Under "always" the log is never behind what sm_meta.bin says of it.     *)

\* The counters of the state machine are numbers.
CountersTyped ==
  /\ IsSequence(log) /\ synced \in 0..Len(log)
  /\ sm_file = Persisted(sm_file) /\ sm_file.normals \in Nat
  /\ st = [applied |-> st.applied, membership |-> st.membership,
           normals |-> st.normals, skip |-> st.skip]
  /\ st.normals \in Nat /\ st.skip \in Nat

\* What is counted or still to be skipped is in the log; under "always" all
\* of the log is on disk, and so is what sm_meta.bin counts.
CountedInLog ==
  /\ st.normals + st.skip <= Len(log)
  /\ scenario.policy = "always" =>
       synced = Len(log) /\ sm_file.normals <= Len(log) /\ mode # "refused"

OpenInv == CountersTyped /\ CountedInLog

LEMMA InitOpen == Init => OpenInv
BY DEF Init, OpenInv, CountersTyped, CountedInLog, IsSequence, Persisted, EmptySm, EmptyState, Nothing

\* append_replicated at the head keeps the counters where they are.
LEMMA AppendOpen ==
  ASSUME OpenInv, NEW i, AppendReplicated(i), UNCHANGED <<scenario, mode, sm_file>>
  PROVE  /\ IsSequence(log') /\ Len(log') = Len(log) + 1 /\ synced' \in 0..Len(log')
         /\ scenario.policy = "always" => synced' = Len(log')
<1>1. IsSequence(log') /\ Len(log') = Len(log) + 1 /\ Len(log) \in Nat
  BY AppendIsSequence DEF OpenInv, CountersTyped, AppendReplicated
<1> QED BY <1>1 DEF OpenInv, CountersTyped, AppendReplicated

LEMMA NextOpen == OpenInv /\ [Next]_vars => OpenInv'
<1> SUFFICES ASSUME OpenInv, [Next]_vars PROVE OpenInv'
  OBVIOUS
<1> USE DEF OpenInv
<1>0. Len(log) \in Nat
  BY DEF CountersTyped, IsSequence
<1>1. CASE UNCHANGED <<log, synced, sm_file, st, mode, scenario>>
  BY <1>1 DEF CountersTyped, CountedInLog, Persisted
<1>2. CASE append_sync \/ truncate \/ purge \/ save_vote \/ save_committed
  BY <1>1, <1>2 DEF append_sync, truncate, purge, save_vote, save_committed, MachineSame, machine, env
<1>3. CASE append_record \/ remember \/ rewrite_wal \/ write_meta \/ grant \/ submit
  BY <1>1, <1>3 DEF append_record, remember, rewrite_wal, write_meta, grant, submit, MachineSame, machine, env
<1>4. CASE receive_snapshot \/ build_snapshot \/ reapply \/ purge_covered
  BY <1>1, <1>4, ZenonT(40) DEF receive_snapshot, build_snapshot, reapply, purge_covered, machine, env
<1>5. CASE apply_normal
  <2>1. CASE st.skip > 0
    <3>1. UNCHANGED <<log, synced, sm_file, mode, scenario>>
          /\ st' = [st EXCEPT !.normals = @ + 1, !.skip = @ - 1]
      BY <1>5, <2>1 DEF apply_normal, ApplyNormal, env
    <3>2. st' = [applied |-> st.applied, membership |-> st.membership,
                normals |-> st.normals + 1, skip |-> st.skip - 1]
      BY <3>1 DEF CountersTyped
    <3>3. st'.normals + st'.skip = st.normals + st.skip /\ st'.normals \in Nat /\ st'.skip \in Nat
      BY <2>1, <3>2 DEF CountersTyped
    <3>4. CountersTyped'
      BY <3>1, <3>2, <3>3 DEF CountersTyped, Persisted
    <3>5. CountedInLog'
      BY <3>1, <3>3 DEF CountedInLog
    <3> QED BY <3>4, <3>5
  <2>2. CASE ~(st.skip > 0)
    <3>1. AppendReplicated(work.next) /\ UNCHANGED <<sm_file, mode, scenario>>
          /\ st' = [st EXCEPT !.normals = @ + 1, !.skip = 0]
      BY <1>5, <2>2 DEF apply_normal, ApplyNormal, env
    <3>2. /\ IsSequence(log') /\ Len(log') = Len(log) + 1 /\ synced' \in 0..Len(log')
          /\ scenario.policy = "always" => synced' = Len(log')
      BY <3>1, AppendOpen
    <3>3. st' = [applied |-> st.applied, membership |-> st.membership,
                normals |-> st.normals + 1, skip |-> 0]
      BY <3>1 DEF CountersTyped
    <3>4. st'.normals = st.normals + 1 /\ st'.skip = 0 /\ st.skip = 0 /\ st.normals \in Nat
      BY <2>2, <3>3 DEF CountersTyped
    <3>5. st' = [applied |-> st'.applied, membership |-> st'.membership,
                normals |-> st'.normals, skip |-> st'.skip]
      BY <3>3
    <3>6. sm_file' = Persisted(sm_file)' /\ sm_file'.normals \in Nat
      BY <3>1 DEF CountersTyped, Persisted
    <3>7. CountersTyped'
      BY <3>2, <3>4, <3>5, <3>6 DEF CountersTyped
    <3>8. CountedInLog'
      BY <1>0, <3>1, <3>2, <3>4 DEF CountersTyped, CountedInLog
    <3> QED BY <3>7, <3>8
  <2> QED BY <2>1, <2>2
<1>6. CASE apply
  <2>1. UNCHANGED <<log, synced, sm_file, mode, scenario>>
        /\ st' = [applied |-> st'.applied, membership |-> st'.membership,
                  normals |-> st.normals, skip |-> st.skip]
    BY <1>6 DEF apply, CountersTyped, env
  <2> QED BY <2>1 DEF CountersTyped, CountedInLog, Persisted
<1>7. CASE persist_sm_meta
  <2>1. UNCHANGED <<log, synced, st, mode, scenario>> /\ sm_file' = Persisted(st)
    BY <1>7 DEF persist_sm_meta, env
  <2> QED BY <1>0, <2>1 DEF CountersTyped, CountedInLog, Persisted
<1>8. CASE install_episode
  <2>1. AppendReplicated(work.snap.payload[Len(log) + 1]) /\ UNCHANGED <<sm_file, st, mode, scenario>>
    BY <1>8 DEF install_episode, env
  <2>2. /\ IsSequence(log') /\ Len(log') = Len(log) + 1 /\ synced' \in 0..Len(log')
        /\ scenario.policy = "always" => synced' = Len(log')
    BY <2>1, AppendOpen
  <2> QED BY <1>0, <2>1, <2>2 DEF CountersTyped, CountedInLog, Persisted
<1>9. CASE install_snapshot
  <2>1. UNCHANGED <<log, synced, mode, scenario>>
        /\ st' = Installed(work.snap) /\ sm_file' = Persisted(st')
    BY <1>9 DEF install_snapshot, env
  <2> QED BY <1>0, <2>1 DEF CountersTyped, CountedInLog, Persisted, Installed
<1>10. CASE log_fsync
  <2>1. UNCHANGED <<log, sm_file, st, mode, scenario>> /\ synced' = Len(log)
    BY <1>10 DEF log_fsync, env
  <2> QED BY <1>0, <2>1 DEF CountersTyped, CountedInLog, Persisted
<1>11. CASE crash
  <2>1. PICK n \in synced..Len(log) : log' = SubSeq(log, 1, n) /\ synced' = n
    BY <1>11 DEF crash
  <2>2. IsSequence(log') /\ Len(log') = n /\ n \in Nat
    BY <1>0, <2>1, PrefixIsSequence DEF CountersTyped
  <2>3. st' = EmptyState /\ mode' = "down" /\ UNCHANGED <<sm_file, scenario>>
    BY <1>11 DEF crash, env
  <2> QED BY <1>0, <2>1, <2>2, <2>3 DEF CountersTyped, CountedInLog, Persisted, EmptyState
<1>12. CASE open
  <2>1. UNCHANGED <<log, synced, sm_file, scenario>> /\ open_durable
    BY <1>12 DEF open
  <2>2. CASE Len(log) < sm_file.normals
    BY <1>0, <2>1, <2>2 DEF open_durable, CountersTyped, CountedInLog, Persisted
  <2>3. CASE ~(Len(log) < sm_file.normals)
    BY <1>0, <2>1, <2>3 DEF open_durable, Skip, CountersTyped, CountedInLog, Persisted
  <2> QED BY <2>2, <2>3
<1>13. CASE serve
  BY <1>13 DEF serve, CountersTyped, CountedInLog, Persisted, machine, env
<1>14. CASE UNCHANGED vars
  BY <1>1, <1>14 DEF vars, machine, env
<1> QED BY <1>2, <1>3, <1>4, <1>5, <1>6, <1>7, <1>8, <1>9, <1>10, <1>11, <1>12, <1>13, <1>14
           DEF Next, Core, Worker

\* A replica whose log syncs every append always starts again: open_durable
\* (consensus.rs) refuses only what group commit can lose.
THEOREM AlwaysOpens == Spec => []OpensAgain
<1>1. OpenInv => OpensAgain
  BY DEF OpenInv, CountedInLog, OpensAgain
<1> QED BY <1>1, InitOpen, NextOpen, PTL DEF Spec
-----------------------------------------------------------------------------
(* A vote is answered after it is on disk.                                 *)

IsMeta(m) == m = [vote |-> m.vote, committed |-> m.committed] /\ m.vote \in Nat

VotesTyped == IsMeta(meta) /\ IsMeta(meta_file) /\ granted \in Nat /\ IsSequence(core)

\* A call is only going on while the process runs.
CoreRuns ==
  /\ mode \in {"down", "starting", "up", "refused"}
  /\ ~Running => core = <<>>

\* Memory, disk and answers never fall behind each other.
VotesOrdered == granted <= meta_file.vote /\ (Running => meta_file.vote <= meta.vote)

\* The answer to a vote comes right after the write of the meta file.
GrantsWritten ==
  \A k \in DOMAIN core : core[k].do = "grant" =>
    \/ k = 1 /\ meta_file.vote = meta.vote
    \/ k = 2 /\ core[1].do = "meta"

VoteInv == VotesTyped /\ CoreRuns /\ VotesOrdered /\ GrantsWritten

LEMMA InitVote == Init => VoteInv
BY DEF Init, VoteInv, VotesTyped, IsMeta, IsSequence, CoreRuns, VotesOrdered, GrantsWritten,
       EmptyMeta, Running

\* The steps that leave votes and calls alone, and no process without memory.
LEMMA SameVote ==
  ASSUME VoteInv, UNCHANGED <<meta, meta_file, granted>>, mode' = mode \/ (mode' = "up" /\ Running),
         IsSequence(core'), core' = core \/ (NoGrant(core') /\ Running)
  PROVE  VoteInv'
BY DEF VoteInv, VotesTyped, IsMeta, CoreRuns, VotesOrdered, GrantsWritten, NoGrant, Running

LEMMA PurgeHasNoGrant ==
  ASSUME NEW i
  PROVE  IsSequence(PurgeSteps(i)) /\ NoGrant(PurgeSteps(i))
BY DoIsSequence, ConcatIsSequence DEF PurgeSteps, Record

LEMMA RecordHasNoGrant ==
  ASSUME NEW r
  PROVE  IsSequence(Record(r)) /\ NoGrant(Record(r))
BY DoIsSequence, ConcatIsSequence DEF Record

\* The calls that begin.
LEMMA CallVote ==
  ASSUME VoteInv, append_sync \/ truncate \/ purge \/ save_vote \/ save_committed
  PROVE  VoteInv'
<1> USE DEF VoteInv
<1>0. IsSequence(<<>>) /\ NoGrant(<<>>)
  BY DEF IsSequence, NoGrant
<1>1. core = <<>> /\ mode = "up" /\ Running /\ UNCHANGED <<mode, meta_file, granted>>
  BY DEF append_sync, truncate, purge, save_vote, save_committed, Free, Running, MachineSame, disk
<1>2. CASE append_sync
  <2>1. IsSequence(core') /\ NoGrant(core') /\ meta' = meta
    BY <1>0, <1>2, RecordHasNoGrant, ConcatIsSequence DEF append_sync
  <2> QED BY <1>1, <2>1, SameVote
<1>3. CASE truncate
  <2>1. IsSequence(core') /\ NoGrant(core') /\ meta' = meta
    BY <1>3, RecordHasNoGrant DEF truncate
  <2> QED BY <1>1, <2>1, SameVote
<1>4. CASE purge
  <2>1. IsSequence(core') /\ NoGrant(core') /\ meta' = meta
    BY <1>4, PurgeHasNoGrant DEF purge
  <2> QED BY <1>1, <2>1, SameVote
<1>5. CASE save_vote
  <2>1. core' = <<[do |-> "meta", rec |-> Nothing], [do |-> "grant", rec |-> Nothing]>>
        /\ meta' = [meta EXCEPT !.vote = @ + 1]
    BY <1>5, PairIsSequence DEF save_vote, Do
  <2>2. IsMeta(meta') /\ meta'.vote = meta.vote + 1
    BY <2>1 DEF VotesTyped, IsMeta
  <2>3. IsSequence(core')
    BY <2>1, PairIsSequence
  <2>4. GrantsWritten'
    BY <2>1 DEF GrantsWritten
  <2>5. VotesOrdered'
    BY <1>1, <2>2 DEF VotesTyped, IsMeta, VotesOrdered, Running
  <2>6. CoreRuns' /\ VotesTyped'
    BY <1>1, <2>2, <2>3 DEF VotesTyped, CoreRuns, IsMeta, Running
  <2> QED BY <2>4, <2>5, <2>6
<1>6. CASE save_committed
  <2>1. IsSequence(core') /\ NoGrant(core')
    BY <1>6, DoIsSequence, ConcatIsSequence DEF save_committed
  <2>2. IsMeta(meta') /\ meta'.vote = meta.vote
    BY <1>6 DEF save_committed, VotesTyped, IsMeta
  <2> QED BY <1>1, <2>1, <2>2 DEF VotesTyped, CoreRuns, IsMeta, VotesOrdered, GrantsWritten, NoGrant, Running
<1> QED BY <1>2, <1>3, <1>4, <1>5, <1>6

\* The first step of a call is taken.
LEMMA TakeVote ==
  ASSUME VoteInv, NEW d, Take(d),
         \/ d \notin {"meta", "grant"} /\ UNCHANGED <<mode, meta, meta_file, granted>>
         \/ d = "meta" /\ meta_file' = meta /\ UNCHANGED <<mode, meta, granted>>
         \/ d = "grant" /\ granted' = meta.vote /\ UNCHANGED <<mode, meta, meta_file>>
  PROVE  VoteInv'
<1> USE DEF VoteInv
<1>1. /\ Head(core) = core[1] /\ 1 \in DOMAIN core /\ core[1].do = d /\ core' = Tail(core)
      /\ IsSequence(core') /\ \A k \in DOMAIN core' : k + 1 \in DOMAIN core /\ core'[k] = core[k + 1]
  BY TailIsSequence DEF VotesTyped, Take
<1>2. \A k \in DOMAIN core' : k \in Nat /\ k >= 1
  BY <1>1 DEF IsSequence
<1>3. Running /\ Running' /\ mode' = mode
  <2>1. core # <<>>
    BY DEF Take
  <2> QED BY <2>1 DEF CoreRuns, Running
<1>4. \A k \in DOMAIN core' : core'[k].do = "grant" => k = 1 /\ d = "meta"
  BY <1>1, <1>2 DEF GrantsWritten
<1>5. VotesOrdered'
  BY <1>1, <1>3 DEF VotesTyped, IsMeta, VotesOrdered, GrantsWritten
<1>6. VotesTyped' /\ GrantsWritten'
  BY <1>1, <1>4 DEF VotesTyped, IsMeta, GrantsWritten
<1> QED BY <1>3, <1>5, <1>6 DEF CoreRuns, Running

LEMMA NextVote == VoteInv /\ [Next]_vars => VoteInv'
<1> SUFFICES ASSUME VoteInv, [Next]_vars PROVE VoteInv'
  OBVIOUS
<1> USE DEF VoteInv
<1>1. CASE append_sync \/ truncate \/ purge \/ save_vote \/ save_committed
  BY <1>1, CallVote
<1>2. CASE append_record
  BY <1>2, TakeVote DEF append_record, MachineSame
<1>3. CASE remember
  BY <1>3, TakeVote DEF remember, MachineSame
<1>4. CASE rewrite_wal
  BY <1>4, TakeVote DEF rewrite_wal, MachineSame
<1>5. CASE write_meta
  BY <1>5, TakeVote DEF write_meta, MachineSame
<1>6. CASE grant
  BY <1>6, TakeVote DEF grant, MachineSame, disk
<1>7. CASE submit
  BY <1>7, TakeVote DEF submit, disk, env
<1>8. CASE UNCHANGED <<meta, meta_file, granted, core, mode>>
  BY <1>8 DEF VotesTyped, IsMeta, CoreRuns, VotesOrdered, GrantsWritten, Running
<1>9. CASE Worker \/ build_snapshot \/ log_fsync \/ reapply
  BY <1>8, <1>9, ZenonT(40) DEF Worker, apply_normal, apply, persist_sm_meta, receive_snapshot,
     install_episode, install_snapshot, build_snapshot, log_fsync, reapply, disk, env
<1>10. CASE crash
  <2>1. meta' = EmptyMeta /\ core' = <<>> /\ mode' = "down" /\ UNCHANGED <<meta_file, granted>>
    BY <1>10 DEF crash, env
  <2>2. IsSequence(core')
    BY <2>1 DEF IsSequence
  <2> QED BY <2>1, <2>2
          DEF VotesTyped, IsMeta, EmptyMeta, CoreRuns, VotesOrdered, GrantsWritten, Running
<1>11. CASE open
  <2>1. meta' = meta_file /\ mode' \in {"starting", "refused"}
        /\ mode = "down" /\ UNCHANGED <<core, meta_file, granted>>
    BY <1>11 DEF open, open_log, open_durable
  <2>2. core = <<>>
    BY <2>1 DEF CoreRuns, Running
  <2> QED BY <2>1, <2>2 DEF VotesTyped, IsMeta, CoreRuns, VotesOrdered, GrantsWritten, Running
<1>12. CASE purge_covered
  <2>1. IsSequence(core') /\ NoGrant(core') /\ Running
        /\ UNCHANGED <<meta, meta_file, granted, mode>>
    BY <1>12, PurgeHasNoGrant DEF purge_covered, Starting, Running, disk, env
  <2> QED BY <2>1, SameVote
<1>13. CASE serve
  <2>1. Running /\ mode' = "up" /\ UNCHANGED <<meta, meta_file, granted, core>>
    BY <1>13 DEF serve, Starting, Running, disk, env
  <2> QED BY <2>1, SameVote DEF VotesTyped
<1>14. CASE UNCHANGED vars
  BY <1>8, <1>14 DEF vars, disk, env
<1> QED BY <1>1, <1>2, <1>3, <1>4, <1>5, <1>6, <1>7, <1>9, <1>10, <1>11, <1>12, <1>13, <1>14
           DEF Next, Core

\* A vote that save_vote (durable.rs) has answered is in meta.bin, and in
\* memory while the process runs, after any crash and whatever is saved in the
\* same file afterwards.
THEOREM VotesKept == Spec => []VoteKept
<1>1. VoteInv => VoteKept
  BY DEF VoteInv, VotesTyped, IsMeta, VotesOrdered, VoteKept
<1> QED BY <1>1, InitVote, NextVote, PTL DEF Spec

-----------------------------------------------------------------------------
(* Distillation: what a window gives, and that nothing below a cursor is    *)
(* left out.                                                               *)

DsRecord == [id : Nat, topic : DsTopics \cup {Fact}, members : SUBSET Nat]
DsWindows == [from : Nat, next : Nat]
DsTickRec == [pc : {"idle", "append", "save"}, facts : Seq(SUBSET Nat), window : DsWindows]

DsTyped ==
  /\ dsLog \in Seq(DsRecord) /\ dsIds \in Nat
  /\ dsSynced = Len(dsLog)
  /\ dsCursor \in 0..Len(dsLog) /\ dsFile \in 0..Len(dsLog)
  /\ dsTick \in [DsTickers -> DsTickRec]
  /\ \A t \in DsTickers : dsTick[t].window.next \in 0..Len(dsLog)

\* The LSNs below n have been read, and what a window owes is in the log or to
\* come: a tick starts where others have read, and moves the cursor when it
\* has nothing left to append.
DsRead(n) == \A lsn \in Nat : lsn < n => lsn \in dsSeen
DsToCome(t, members) == \E k \in DOMAIN dsTick[t].facts : dsTick[t].facts[k] = members
DsPending ==
  \A t \in DsTickers, w \in DsWindows : dsTick[t].window = w =>
    /\ dsTick[t].pc = "append" =>
         /\ DsRead(w.from)
         /\ \A members \in Owed(w) : Emitted(members) \/ DsToCome(t, members)
    /\ dsTick[t].pc = "save" => DsRead(w.next)
DsPassed ==
  /\ \A n \in Nat : n = dsCursor \/ n = dsFile => DsRead(n)
  /\ \A members \in dsOwed : Emitted(members)

DsInv == DsTyped /\ DsPending /\ DsPassed

LEMMA DsHolds == ASSUME DsInv PROVE NothingSkipped
<1>1. /\ Len(dsLog) \in Nat /\ \A lsn \in 0..(Len(dsLog) - 1) : lsn \in Nat
      /\ dsCursor \in Nat /\ dsFile \in Nat
  BY LenProperties DEF DsInv, DsTyped
<1> QED BY <1>1 DEF DsInv, DsPassed, DsRead, NothingSkipped

\* The facts of a window have all that it owes: the clusters that are emitted
\* are the first of those that are large enough.
LEMMA DsFactsCover ==
  ASSUME DsTyped, NEW w, w = NextWindow
  PROVE  /\ w \in DsWindows /\ w.from = dsCursor /\ w.next \in 0..Len(dsLog) /\ w.from <= w.next
         /\ distill_episodes(w) \in Seq(SUBSET Nat)
         /\ \A members \in Owed(w) : \E k \in DOMAIN distill_episodes(w) :
                                       distill_episodes(w)[k] = members
<1>1. /\ Len(dsLog) \in Nat /\ dsCursor \in Nat /\ dsCursor <= Len(dsLog) /\ DsWindow \in Nat
      /\ DsMaxFacts \in Nat /\ DsMinCluster \in Nat /\ \A i \in 1..Len(dsLog) : dsLog[i] \in DsRecord
  BY DsAssumption, LenProperties DEF DsTyped
<1>2. w \in DsWindows /\ w.from = dsCursor /\ w.next \in 0..Len(dsLog) /\ w.from <= w.next
  BY <1>1 DEF NextWindow, DsWindows
<1> DEFINE n == w.next - w.from
           topics == [i \in 1..n |-> dsLog[w.from + i].topic]
           firsts == {i \in DOMAIN topics :
                       topics[i] # Fact /\ \A j \in 1..(i - 1) : topics[j] # topics[i]}
           clusters == [i \in DOMAIN topics |-> provenance(w, topics[i])]
           K == {i \in firsts : Large(w, topics[i])}
           large == SelectAt(clusters, K)
           m == IF Len(large) < DsMaxFacts THEN Len(large) ELSE DsMaxFacts
<1>3. distill_episodes(w) = SubSeq(large, 1, m)
  BY DEF distill_episodes
<1>4. /\ n \in Nat /\ w.from \in Nat /\ w.next \in Nat /\ w.from + n = w.next
      /\ \A i \in 1..n : w.from + i \in 1..Len(dsLog)
      /\ \A lsn \in lsns(w) : /\ lsn \in Nat /\ lsn + 1 \in 1..Len(dsLog)
                              /\ lsn + 1 - w.from \in 1..n /\ lsn + 1 - w.from \in Nat
                              /\ w.from + (lsn + 1 - w.from) = lsn + 1
      /\ \A i \in 1..n : /\ w.from + i - 1 \in lsns(w) /\ w.from + i - 1 + 1 = w.from + i
                         /\ w.from + i - 1 + 1 - w.from = i /\ i \in Nat
  BY <1>1, <1>2 DEF lsns
<1> HIDE DEF n
<1>5. \A topic : provenance(w, topic) \in SUBSET Nat
  BY <1>1, <1>4 DEF provenance, cluster, DsRecord
<1>6. /\ DOMAIN topics = 1..n
      /\ \A i \in 1..n : topics[i] = dsLog[w.from + i].topic /\ topics[i] \in DsTopics \cup {Fact}
  BY <1>1, <1>4 DEF DsRecord
<1>7. \A topic : cluster(w, topic) = {lsn \in lsns(w) : topics[lsn + 1 - w.from] = topic}
  BY <1>4, <1>6 DEF cluster
<1> HIDE DEF topics
<1>8. clusters \in Seq(SUBSET Nat) /\ DOMAIN clusters = 1..n
  <2>1. DOMAIN clusters = 1..n /\ \A i \in 1..n : clusters[i] \in SUBSET Nat
    BY <1>5, <1>6
  <2>2. clusters = [i \in 1..n |-> clusters[i]]
    BY <1>6
  <2> HIDE DEF clusters
  <2> QED BY <2>1, <2>2, <1>4
<1>9. K \subseteq 1..n /\ K \cap DOMAIN clusters = K /\ K \subseteq Nat
  BY <1>6, <1>8, <1>4
<1>10. /\ large \in Seq(SUBSET Nat)
       /\ \A j \in K : Cardinality(K \cap (1..j)) \in DOMAIN large
                       /\ large[Cardinality(K \cap (1..j))] = provenance(w, topics[j])
  <2>1. Selected(large, SUBSET Nat, clusters, K) /\ AtRank(large, clusters, K)
    <3> HIDE DEF clusters, K
    <3> QED BY <1>8, SelectAtFacts, Zenon
  <2>2. \A j \in K : clusters[j] = provenance(w, topics[j])
    BY <1>6, <1>9
  <2> HIDE DEF clusters, K, large
  <2> QED BY <2>1, <2>2, <1>9 DEF Selected, AtRank
<1> HIDE DEF clusters, large
<1>11. Len(large) \in Nat /\ DOMAIN large = 1..Len(large) /\ m \in 0..Len(large)
       /\ m \in Nat /\ m <= Len(large) /\ (m = DsMaxFacts \/ m = Len(large))
  BY <1>1, <1>10, LenProperties
<1>12. distill_episodes(w) \in Seq(SUBSET Nat)
       /\ DOMAIN distill_episodes(w) = 1..m /\ \A k \in 1..m : distill_episodes(w)[k] = large[k]
  <2> HIDE DEF m
  <2>1. m \in Nat /\ Len(large) \in Nat /\ m <= Len(large)
    BY <1>11
  <2>2. \A i \in 1..m : large[i] \in SUBSET Nat
    <3>1. \A i \in 1..m : i \in 1..Len(large)
      BY <2>1
    <3> QED BY <3>1, <1>10, ElementOfSeq
  <2>3. /\ SubSeq(large, 1, m) \in Seq(SUBSET Nat)
        /\ Len(SubSeq(large, 1, m)) = IF 1 <= m THEN m - 1 + 1 ELSE 0
        /\ \A i \in 1..(m - 1 + 1) : SubSeq(large, 1, m)[i] = large[1 + i - 1]
    <3>1. 1 \in Int
      OBVIOUS
    <3>2. m \in Int
      BY <2>1
    <3> QED BY <3>1, <3>2, <2>2, SubSeqProperties
  <2>4. Len(SubSeq(large, 1, m)) = m /\ \A i \in 1..m : SubSeq(large, 1, m)[i] = large[i]
    BY <2>3, <2>1
  <2> QED BY <2>3, <2>4, <1>3, LenProperties
<1>13. ASSUME NEW topic \in DsTopics, cluster(w, topic) # {}, Large(w, topic),
              Cardinality(Sooner(w, topic)) < DsMaxFacts
       PROVE  \E k \in 1..m : large[k] = provenance(w, topic)
  <2> DEFINE same == {i \in 1..n : topics[i] = topic}
  <2>1. PICK j \in same : \A i \in same : j <= i
    <3>1. PICK lsn \in cluster(w, topic) : TRUE
      BY <1>13
    <3>2. lsn + 1 - w.from \in same
      <4>1. lsn \in lsns(w) /\ topics[lsn + 1 - w.from] = topic
        BY <3>1, <1>7
      <4> QED BY <4>1, <1>4
    <3>3. same \subseteq Nat
      BY <1>4
    <3> HIDE DEF same
    <3> QED BY <3>2, <3>3, LeastNat
  <2>2. j \in K /\ topics[j] = topic /\ j \in 1..n
    <3>1. ASSUME NEW i \in 1..(j - 1) PROVE topics[i] # topics[j]
      <4>1. i \in 1..n /\ ~(j <= i)
        BY <1>4, <2>1
      <4> QED BY <4>1, <2>1
    <3>2. topic # Fact
      BY DsAssumption DEF Fact
    <3> QED BY <3>1, <3>2, <2>1, <1>6, <1>13
  <2> DEFINE A == K \cap (1..(j - 1))
             S == Sooner(w, topic)
             f == [i \in A |-> topics[i]]
  <2>3. ASSUME NEW i \in A PROVE topics[i] \in S
    <3>1. i \in K /\ i \in 1..n /\ i < j /\ topics[i] # Fact /\ Large(w, topics[i])
      BY <1>6, <1>4, <2>2
    <3>2. topics[i] \in DsTopics
      BY <3>1, <1>6
    <3>3. w.from + i - 1 \in lsns(w) /\ w.from + i - 1 + 1 - w.from = i /\ i \in Nat /\ j \in Nat
      BY <3>1, <2>2, <1>4
    <3>4. w.from + i - 1 \in cluster(w, topics[i])
      BY <3>3, <1>7
    <3>5. ASSUME NEW mine \in cluster(w, topic) PROVE w.from + i - 1 < mine
      <4>1. mine \in lsns(w) /\ topics[mine + 1 - w.from] = topic
        BY <3>5, <1>7
      <4>2. mine \in Nat /\ mine + 1 - w.from \in same
        BY <4>1, <1>4
      <4>3. j <= mine + 1 - w.from
        BY <4>2, <2>1
      <4> HIDE DEF same
      <4> QED BY <4>2, <4>3, <3>1, <3>3, <1>4
    <3> QED BY <3>1, <3>2, <3>4, <3>5 DEF Sooner
  <2>4. \A i, k \in A : topics[i] = topics[k] => i = k
    <3>1. ASSUME NEW i \in A, NEW k \in A, i < k PROVE topics[i] # topics[k]
      <4>1. i \in 1..(k - 1) /\ k \in firsts
        BY <3>1, <1>4, <1>9
      <4> QED BY <4>1
    <3>2. A \subseteq Nat
      BY <1>9
    <3> HIDE DEF A
    <3>3. \A i, k \in A : i < k \/ k < i \/ i = k
      BY <3>2
    <3> QED BY <3>1, <3>3
  <2>5. f \in Injection(A, S)
    <3> HIDE DEF A, S
    <3>1. f \in [A -> S] /\ \A i \in A : f[i] = topics[i]
      BY <2>3
    <3> HIDE DEF f
    <3> QED BY <3>1, <2>4 DEF Injection, IsInjective
  <2>6. Cardinality(A) <= Cardinality(S) /\ IsFiniteSet(A) /\ IsFiniteSet(S)
    <3>1. IsFiniteSet(S)
      BY DsAssumption, FS_Subset DEF Sooner
    <3>2. IsFiniteSet(A)
      <4>1. IsFiniteSet(1..n)
        BY <1>4, IntervalCardinality
      <4> QED BY <4>1, <1>9, FS_Subset
    <3> HIDE DEF A, S, f
    <3> QED BY <3>1, <3>2, <2>5, FS_Injection
  <2>7. Cardinality(A) \in Nat /\ Cardinality(A) + 1 <= DsMaxFacts
    <3>1. Cardinality(S) < DsMaxFacts
      BY <1>13
    <3> HIDE DEF A, S
    <3> QED BY <3>1, <2>6, <1>1, FS_CardinalityType
  <2>8. Cardinality(K \cap (1..j)) = Cardinality(A) + 1
    <3>1. K \cap (1..j) = A \cup {j} /\ j \notin A
      <4>1. j \in Nat /\ K \subseteq Nat /\ j \in K
        BY <2>2, <1>9
      <4> HIDE DEF K
      <4> QED BY <4>1
    <3> HIDE DEF A
    <3> QED BY <3>1, <2>6, FS_AddElement
  <2>9. Cardinality(K \cap (1..j)) \in 1..m
    <3>1. Cardinality(K \cap (1..j)) \in 1..Len(large)
      BY <2>2, <1>10, <1>11
    <3>2. PICK c : c = Cardinality(K \cap (1..j))
      OBVIOUS
    <3>3. c \in 1..Len(large) /\ c <= DsMaxFacts
      BY <3>1, <3>2, <2>7, <2>8
    <3>4. c \in 1..m
      BY <3>3, <1>1, <1>11
    <3> QED BY <3>2, <3>4
  <2> QED BY <2>2, <2>9, <1>10
<1>14. ASSUME NEW members \in Owed(w)
       PROVE  \E k \in DOMAIN distill_episodes(w) : distill_episodes(w)[k] = members
  <2>1. PICK topic \in DsTopics :
          /\ members = provenance(w, topic) /\ cluster(w, topic) # {} /\ Large(w, topic)
          /\ Cardinality(Sooner(w, topic)) < DsMaxFacts
    BY <1>14 DEF Owed
  <2>2. PICK k \in 1..m : large[k] = provenance(w, topic)
    BY <2>1, <1>13
  <2> HIDE DEF m
  <2> QED BY <2>1, <2>2, <1>12
<1> QED BY <1>2, <1>12, <1>14

LEMMA DsIdleType == DsIdle \in DsTickRec /\ DsIdle.pc = "idle" /\ DsIdle.window.next = 0
  BY DEF DsIdle, DsTickRec, DsWindows

LEMMA DsInitInv == ASSUME DsInit PROVE DsInv
<1>1. Len(dsLog) = 0 /\ dsLog \in Seq(DsRecord)
  BY DEF DsInit
<1>2. DsTyped
  BY <1>1, DsIdleType DEF DsInit, DsTyped
<1>3. DsPending /\ DsPassed
  BY DsIdleType DEF DsInit, DsPending, DsPassed, DsRead
<1> QED BY <1>2, <1>3 DEF DsInv

\* An append keeps what the log has, what it tells and what windows owe.
LEMMA DsGrows ==
  ASSUME DsTyped, DsSyncs, NEW topic \in DsTopics \cup {Fact}, NEW members \in SUBSET Nat,
         DsAppended(topic, members)
  PROVE  /\ dsLog' \in Seq(DsRecord) /\ Len(dsLog') = Len(dsLog) + 1 /\ Len(dsLog) \in Nat
         /\ dsIds' \in Nat /\ dsSynced' = Len(dsLog')
         /\ topic = Fact => Emitted(members)'
         /\ \A other : Emitted(other) => Emitted(other)'
         /\ \A w \in DsWindows : w.next <= Len(dsLog) => Owed(w)' = Owed(w)
<1> DEFINE r == [id |-> dsIds', topic |-> topic, members |-> members]
<1>1. dsLog \in Seq(DsRecord) /\ Len(dsLog) \in Nat /\ DOMAIN dsLog = 1..Len(dsLog)
  BY LenProperties DEF DsTyped
<1>2. dsIds' \in Nat /\ dsLog' = Append(dsLog, r) /\ r \in DsRecord /\ r.members = members
      /\ r.topic = topic
  BY DEF DsAppended, DsTyped, DsRecord
<1>3. dsSynced' = Len(dsLog')
  BY DEF DsAppended
<1> HIDE DEF r
<1>4. /\ dsLog' \in Seq(DsRecord) /\ Len(dsLog') = Len(dsLog) + 1
      /\ dsLog'[Len(dsLog) + 1] = r /\ DOMAIN dsLog' = 1..(Len(dsLog) + 1)
      /\ \A i \in 1..Len(dsLog) : dsLog'[i] = dsLog[i]
  BY <1>1, <1>2
<1>5. topic = Fact => Emitted(members)'
  BY <1>1, <1>2, <1>4 DEF Emitted
<1>6. ASSUME NEW other, Emitted(other) PROVE Emitted(other)'
  <2>1. PICK i \in 1..Len(dsLog) : dsLog[i].topic = Fact /\ dsLog[i].members = other
    BY <1>1, <1>6 DEF Emitted
  <2>2. i \in DOMAIN dsLog' /\ dsLog'[i] = dsLog[i]
    BY <1>1, <1>4
  <2> QED BY <2>1, <2>2 DEF Emitted
<1>7. ASSUME NEW w \in DsWindows, w.next <= Len(dsLog) PROVE Owed(w)' = Owed(w)
  <2>1. \A lsn \in lsns(w) : dsLog'[lsn + 1] = dsLog[lsn + 1]
    <3>1. \A lsn \in lsns(w) : lsn + 1 \in 1..Len(dsLog)
      BY <1>1, <1>7 DEF lsns, DsWindows
    <3> QED BY <3>1, <1>4
  <2>2. \A of : cluster(w, of)' = cluster(w, of)
    BY <2>1 DEF cluster, lsns
  <2>3. \A of : provenance(w, of)' = provenance(w, of)
    <3>1. \A of : cluster(w, of) \subseteq lsns(w)
      BY DEF cluster
    <3> QED BY <3>1, <2>1, <2>2 DEF provenance
  <2>4. \A of : Large(w, of)' = Large(w, of)
    BY <2>2 DEF Large
  <2>5. \A of : Sooner(w, of)' = Sooner(w, of)
    BY <2>2, <2>4 DEF Sooner
  <2> QED BY <2>2, <2>3, <2>4, <2>5 DEF Owed
<1> QED BY <1>1, <1>2, <1>3, <1>4, <1>5, <1>6, <1>7

LEMMA DsObserveInv == ASSUME DsInv, DsSyncs, DsObserve PROVE DsInv'
<1>1. PICK topic \in DsTopics : DsAppended(topic, {})
  BY DEF DsObserve
<1>2. /\ dsLog' \in Seq(DsRecord) /\ Len(dsLog') = Len(dsLog) + 1 /\ Len(dsLog) \in Nat
      /\ dsIds' \in Nat /\ dsSynced' = Len(dsLog')
      /\ \A other : Emitted(other) => Emitted(other)'
      /\ \A w \in DsWindows : w.next <= Len(dsLog) => Owed(w)' = Owed(w)
  BY <1>1, DsGrows DEF DsInv
<1>3. UNCHANGED <<dsCursor, dsFile, dsTick, dsSeen, dsOwed>>
  BY DEF DsObserve, dsPassed
<1>4. DsTyped'
  BY <1>2, <1>3 DEF DsInv, DsTyped
<1>5. /\ \A t \in DsTickers, w \in DsWindows : dsTick[t].window = w => Owed(w)' = Owed(w)
      /\ \A n : DsRead(n)' = DsRead(n)
      /\ \A t, members : DsToCome(t, members)' = DsToCome(t, members)
  <2>1. \A t \in DsTickers : dsTick[t].window.next <= Len(dsLog)
    BY <1>2 DEF DsInv, DsTyped
  <2> QED BY <2>1, <1>2, <1>3 DEF DsRead, DsToCome
<1>6. DsPending'
  BY <1>2, <1>3, <1>5 DEF DsInv, DsPending
<1>7. DsPassed'
  BY <1>2, <1>3, <1>5 DEF DsInv, DsPassed
<1> QED BY <1>4, <1>6, <1>7 DEF DsInv

LEMMA DsTickInv == ASSUME DsInv, NEW t \in DsTickers, distill_tick(t) PROVE DsInv'
<1> DEFINE w == NextWindow
           k == [pc |-> "append", facts |-> distill_episodes(w), window |-> w]
<1>1. /\ w \in DsWindows /\ w.from = dsCursor /\ w.next \in 0..Len(dsLog)
      /\ distill_episodes(w) \in Seq(SUBSET Nat)
      /\ \A members \in Owed(w) : \E i \in DOMAIN distill_episodes(w) :
                                    distill_episodes(w)[i] = members
  BY DsFactsCover DEF DsInv
<1>2. dsTick' = [dsTick EXCEPT ![t] = k]
      /\ UNCHANGED <<dsLog, dsIds, dsSynced, dsCursor, dsFile, dsSeen, dsOwed>>
  BY DEF distill_tick, dsPassed
<1> HIDE DEF w
<1>3. k \in DsTickRec /\ k.window = w /\ k.pc = "append" /\ k.facts = distill_episodes(w)
  BY <1>1 DEF DsTickRec
<1> HIDE DEF k
<1>4. /\ dsTick' \in [DsTickers -> DsTickRec] /\ dsTick'[t] = k
      /\ \A u \in DsTickers \ {t} : dsTick'[u] = dsTick[u]
  BY <1>2, <1>3 DEF DsInv, DsTyped
<1>5. DsTyped'
  BY <1>1, <1>2, <1>3, <1>4 DEF DsInv, DsTyped
<1>6. /\ \A other : Emitted(other)' = Emitted(other) /\ \A n : DsRead(n)' = DsRead(n)
      /\ \A v : Owed(v)' = Owed(v)
  BY <1>2 DEF Emitted, DsRead, Owed, Sooner, Large, provenance, cluster, lsns
<1>7. DsPending'
  <2>1. DsRead(w.from) /\ \A members \in Owed(w) : DsToCome(t, members)'
    <3>1. DsRead(w.from)
      BY <1>1 DEF DsInv, DsPassed, DsWindows
    <3> QED BY <3>1, <1>1, <1>3, <1>4 DEF DsToCome
  <2>2. \A u \in DsTickers \ {t} : \A members : DsToCome(u, members)' = DsToCome(u, members)
    BY <1>4 DEF DsToCome
  <2>3. ASSUME NEW u \in DsTickers, NEW v \in DsWindows, dsTick'[u].window = v
        PROVE  /\ dsTick'[u].pc = "append" =>
                    /\ DsRead(v.from)'
                    /\ \A members \in Owed(v)' : Emitted(members)' \/ DsToCome(u, members)'
               /\ dsTick'[u].pc = "save" => DsRead(v.next)'
    <3>1. CASE u = t
      BY <2>1, <2>3, <3>1, <1>3, <1>4, <1>6
    <3>2. CASE u # t
      <4>1. dsTick'[u] = dsTick[u] /\ \A members : DsToCome(u, members)' = DsToCome(u, members)
        BY <3>2, <1>4, <2>2
      <4> QED BY <4>1, <2>3, <1>6 DEF DsInv, DsPending
    <3> QED BY <3>1, <3>2
  <2> QED BY <2>3 DEF DsPending
<1>8. DsPassed'
  BY <1>2, <1>6 DEF DsInv, DsPassed
<1> QED BY <1>5, <1>7, <1>8 DEF DsInv

LEMMA DsAppendFactInv == ASSUME DsInv, DsSyncs, NEW t \in DsTickers, DsAppendFact(t) PROVE DsInv'
<1>1. /\ dsTick[t] \in DsTickRec /\ dsTick[t].pc = "append" /\ dsTick[t].facts # <<>>
      /\ dsTick[t].facts \in Seq(SUBSET Nat)
      /\ \A u \in DsTickers : dsTick[u].window \in DsWindows /\ dsTick[u].window.next <= Len(dsLog)
  BY DEF DsAppendFact, DsInv, DsTyped, DsTickRec
<1>2. UNCHANGED <<dsCursor, dsFile, dsSeen, dsOwed>> /\ \A n : DsRead(n)' = DsRead(n)
  BY DEF DsAppendFact, dsPassed, DsRead
<1>3. CASE dsTick' = [dsTick EXCEPT ![t] = DsIdle] /\ UNCHANGED <<dsLog, dsIds, dsSynced>>
  <2>1. /\ dsTick' \in [DsTickers -> DsTickRec] /\ dsTick'[t] = DsIdle
        /\ \A u \in DsTickers \ {t} : dsTick'[u] = dsTick[u]
    BY <1>3, DsIdleType DEF DsInv, DsTyped
  <2>2. DsTyped'
    <3>1. 0 \in 0..Len(dsLog)
      BY LenProperties DEF DsInv, DsTyped
    <3> QED BY <3>1, <1>2, <1>3, <2>1, DsIdleType DEF DsInv, DsTyped
  <2>3. /\ \A other : Emitted(other)' = Emitted(other)
        /\ \A v : Owed(v)' = Owed(v)
        /\ \A u \in DsTickers \ {t} : \A members : DsToCome(u, members)' = DsToCome(u, members)
    BY <1>3, <2>1 DEF Emitted, Owed, Sooner, Large, provenance, cluster, lsns, DsToCome
  <2>4. DsPending'
    BY <1>2, <2>1, <2>3, DsIdleType DEF DsPending, DsInv
  <2>5. DsPassed'
    BY <1>2, <2>3 DEF DsPassed, DsInv
  <2> QED BY <2>2, <2>4, <2>5 DEF DsInv
<1>4. CASE /\ DsAppended(Fact, Head(dsTick[t].facts))
           /\ dsTick' = [dsTick EXCEPT ![t].facts = Tail(@)]
  <2> DEFINE fs == dsTick[t].facts
  <2>1. /\ Head(fs) \in SUBSET Nat /\ Tail(fs) \in Seq(SUBSET Nat) /\ Head(fs) = fs[1]
        /\ \A k \in DOMAIN fs : k = 1 \/ (k - 1 \in DOMAIN Tail(fs) /\ Tail(fs)[k - 1] = fs[k])
    <3>1. fs \in Seq(SUBSET Nat) /\ fs # <<>>
      BY <1>1
    <3> HIDE DEF fs
    <3>2. /\ Head(fs) \in SUBSET Nat /\ Tail(fs) \in Seq(SUBSET Nat)
          /\ Len(Tail(fs)) = Len(fs) - 1
          /\ \A i \in 1..Len(Tail(fs)) : Tail(fs)[i] = fs[i + 1]
      BY <3>1, HeadTailProperties
    <3>3. /\ Head(fs) = fs[1] /\ DOMAIN fs = 1..Len(fs) /\ Len(fs) \in Nat
          /\ DOMAIN Tail(fs) = 1..Len(Tail(fs))
      BY <3>1, <3>2, LenProperties
    <3>4. \A k \in 1..Len(fs) : k = 1 \/ (k - 1 \in 1..(Len(fs) - 1) /\ k - 1 + 1 = k)
      BY <3>3
    <3> QED BY <3>2, <3>3, <3>4
  <2>2. /\ dsLog' \in Seq(DsRecord) /\ Len(dsLog') = Len(dsLog) + 1 /\ Len(dsLog) \in Nat
        /\ dsIds' \in Nat /\ dsSynced' = Len(dsLog')
        /\ \A first : first = Head(fs) => Emitted(first)'
        /\ \A other : Emitted(other) => Emitted(other)'
        /\ \A w \in DsWindows : w.next <= Len(dsLog) => Owed(w)' = Owed(w)
    <3>1. PICK first \in SUBSET Nat : first = Head(fs)
      BY <2>1
    <3>2. DsAppended(Fact, first)
      BY <3>1, <1>4
    <3> HIDE DEF fs
    <3> QED BY <3>1, <3>2, DsGrows DEF DsInv
  <2>3. /\ dsTick' \in [DsTickers -> DsTickRec]
        /\ dsTick'[t].facts = Tail(fs) /\ dsTick'[t].window = dsTick[t].window
        /\ dsTick'[t].pc = "append"
        /\ \A u \in DsTickers \ {t} : dsTick'[u] = dsTick[u]
    BY <1>1, <1>4, <2>1 DEF DsInv, DsTyped, DsTickRec
  <2>4. DsTyped'
    <3>1. \A u \in DsTickers : dsTick'[u].window.next = dsTick[u].window.next
      BY <2>3
    <3>2. \A u \in DsTickers : dsTick'[u].window.next \in 0..Len(dsLog')
      BY <3>1, <2>2 DEF DsInv, DsTyped
    <3> QED BY <3>2, <1>2, <2>2, <2>3 DEF DsInv, DsTyped
  <2>5. ASSUME NEW u \in DsTickers, NEW w \in DsWindows, dsTick[u].window = w,
               dsTick[u].pc = "append", NEW members \in Owed(w)
        PROVE  Emitted(members)' \/ DsToCome(u, members)'
    <3>1. Emitted(members) \/ DsToCome(u, members)
      BY <2>5 DEF DsPending, DsInv
    <3>2. CASE Emitted(members)
      BY <3>2, <2>2
    <3>3. CASE DsToCome(u, members) /\ u # t
      BY <3>3, <2>3 DEF DsToCome
    <3>4. CASE DsToCome(u, members) /\ u = t
      <4>1. PICK k \in DOMAIN fs : fs[k] = members
        BY <3>4 DEF DsToCome
      <4>2. CASE k = 1
        BY <4>1, <4>2, <2>1, <2>2
      <4>3. CASE k # 1
        <5>1. k - 1 \in DOMAIN Tail(fs) /\ Tail(fs)[k - 1] = members
          BY <4>1, <4>3, <2>1
        <5> QED BY <5>1, <2>3, <3>4 DEF DsToCome
      <4> QED BY <4>2, <4>3
    <3> QED BY <3>1, <3>2, <3>3, <3>4
  <2>6. \A u \in DsTickers : dsTick'[u].pc = dsTick[u].pc /\ dsTick'[u].window = dsTick[u].window
    BY <2>3, <1>1
  <2>7. \A u \in DsTickers, w \in DsWindows : dsTick[u].window = w => Owed(w)' = Owed(w)
    BY <2>2, <1>1
  <2>8. DsPending'
    BY <1>2, <2>5, <2>6, <2>7 DEF DsPending, DsInv
  <2>9. DsPassed'
    BY <1>2, <2>2 DEF DsPassed, DsInv
  <2> QED BY <2>4, <2>8, <2>9 DEF DsInv
<1> QED BY <1>3, <1>4 DEF DsAppendFact

\* The cursor moves when every fact of the tick is in the log.
LEMMA DsCursorInv ==
  ASSUME DsInv, NEW t \in DsTickers, DsStoreCursor(t) \/ DsSaveCursor(t)
  PROVE  DsInv'
<1> DEFINE w == dsTick[t].window
           saving == [dsTick[t] EXCEPT !.pc = "save"]
<1>1. dsTick[t] \in DsTickRec /\ w \in DsWindows /\ w.next \in 0..Len(dsLog) /\ Len(dsLog) \in Nat
  BY LenProperties DEF DsInv, DsTyped, DsTickRec
<1>2. UNCHANGED <<dsLog, dsIds, dsSynced>>
  BY DEF DsStoreCursor, DsSaveCursor
<1>3. (\A other : Emitted(other)' = Emitted(other)) /\ \A v : Owed(v)' = Owed(v)
  BY <1>2 DEF Emitted, Owed, Sooner, Large, provenance, cluster, lsns
<1>4. /\ saving \in DsTickRec /\ saving.window = w /\ saving.pc = "save"
      /\ dsTick' = [dsTick EXCEPT ![t] = DsIdle] \/ dsTick' = [dsTick EXCEPT ![t] = saving]
  <2>1. saving \in DsTickRec /\ saving.window = w /\ saving.pc = "save"
    BY <1>1 DEF DsTickRec
  <2>2. dsTick' = [dsTick EXCEPT ![t] = DsIdle] \/ dsTick' = [dsTick EXCEPT ![t] = saving]
    BY DEF DsStoreCursor, DsSaveCursor
  <2> QED BY <2>1, <2>2
<1> HIDE DEF saving
<1>5. /\ dsTick' \in [DsTickers -> DsTickRec]
      /\ \A u \in DsTickers \ {t} : dsTick'[u] = dsTick[u]
      /\ dsTick'[t].window.next \in 0..Len(dsLog)
      /\ dsTick'[t].pc # "append" /\ (dsTick'[t].pc = "save" => dsTick'[t].window = w)
  BY <1>1, <1>4, DsIdleType DEF DsInv, DsTyped
<1>6. /\ \A n \in Nat : n = w.next => DsRead(n)'
      /\ \A n : DsRead(n) => DsRead(n)'
      /\ \A members \in dsOwed' : Emitted(members)
  <2>1. CASE DsStoreCursor(t)
    <3>1. /\ dsTick[t].pc = "append" /\ dsTick[t].facts = <<>>
          /\ dsSeen' = dsSeen \cup lsns(w) /\ dsOwed' = dsOwed \cup Owed(w)
      BY <2>1 DEF DsStoreCursor, FactsDone
    <3>2. DsRead(w.from) /\ \A members \in Owed(w) : Emitted(members)
      BY <3>1, <1>1 DEF DsInv, DsPending, DsToCome
    <3>3. \A n : DsRead(n) => DsRead(n)'
      BY <3>1 DEF DsRead
    <3>4. ASSUME NEW lsn \in Nat, lsn < w.next PROVE lsn \in dsSeen'
      <4>1. lsn < w.from \/ lsn \in lsns(w)
        BY <3>4, <1>1 DEF lsns, DsWindows
      <4> QED BY <4>1, <3>1, <3>2 DEF DsRead
    <3>5. \A n \in Nat : n = w.next => DsRead(n)'
      BY <3>4 DEF DsRead
    <3> QED BY <3>1, <3>2, <3>3, <3>5 DEF DsInv, DsPassed
  <2>2. CASE DsSaveCursor(t)
    <3>1. dsTick[t].pc = "save" /\ UNCHANGED <<dsSeen, dsOwed>>
      BY <2>2 DEF DsSaveCursor, dsPassed
    <3>2. /\ \A n \in Nat : n = w.next => DsRead(n)
          /\ \A n : DsRead(n)' = DsRead(n)
      BY <3>1, <1>1 DEF DsInv, DsPending, DsRead
    <3> QED BY <3>1, <3>2 DEF DsInv, DsPassed
  <2> QED BY <2>1, <2>2
<1>7. dsCursor' \in {dsCursor, w.next} /\ dsFile' \in {dsFile, w.next}
  BY DEF DsStoreCursor, DsSaveCursor
<1>8. DsTyped'
  BY <1>1, <1>2, <1>5, <1>7 DEF DsInv, DsTyped
<1>9. DsPending'
  <2>1. \A u \in DsTickers \ {t} : \A members : DsToCome(u, members)' = DsToCome(u, members)
    BY <1>5 DEF DsToCome
  <2> QED BY <2>1, <1>3, <1>5, <1>6 DEF DsPending, DsInv
<1>10. DsPassed'
  BY <1>3, <1>6, <1>7 DEF DsInv, DsPassed
<1> QED BY <1>8, <1>9, <1>10 DEF DsInv

LEMMA DsSame == ASSUME DsInv, UNCHANGED <<dsLog, dsIds, dsSynced, dsCursor, dsFile, dsTick, dsSeen, dsOwed>>
                PROVE  DsInv'
<1>1. /\ \A other : Emitted(other)' = Emitted(other)
      /\ \A v : Owed(v)' = Owed(v)
      /\ \A n : DsRead(n)' = DsRead(n)
      /\ \A u, members : DsToCome(u, members)' = DsToCome(u, members)
  BY DEF Emitted, DsRead, DsToCome, Owed, Sooner, Large, provenance, cluster, lsns
<1>2. DsTyped' /\ DsPending' /\ DsPassed'
  BY <1>1 DEF DsInv, DsTyped, DsPending, DsPassed
<1> QED BY <1>2 DEF DsInv

LEMMA DsCrashInv == ASSUME DsInv, DsCrash PROVE DsInv'
<1>1. Len(dsLog) \in Nat /\ dsLog \in Seq(DsRecord) /\ dsSynced = Len(dsLog)
  BY LenProperties DEF DsInv, DsTyped
<1>2. dsLog' = dsLog
  <2>1. dsLog' = SubSeq(dsLog, 1, Len(dsLog))
    BY <1>1 DEF DsCrash
  <2> QED BY <2>1, <1>1
<1>3. /\ dsSynced' = Len(dsLog) /\ dsCursor' = dsFile /\ UNCHANGED <<dsIds, dsFile, dsSeen, dsOwed>>
      /\ dsTick' = [t \in DsTickers |-> DsIdle]
  BY <1>2 DEF DsCrash, dsPassed
<1>4. DsTyped'
  BY <1>1, <1>2, <1>3, DsIdleType DEF DsInv, DsTyped
<1>5. DsPending'
  BY <1>3, DsIdleType DEF DsPending
<1>6. DsPassed'
  BY <1>2, <1>3 DEF DsInv, DsPassed, DsRead, Emitted
<1> QED BY <1>4, <1>5, <1>6 DEF DsInv

\* The cursor, in RAM or saved, passes nothing unread and no fact that a window
\* owes, for any number of tickers, any least size of a cluster, any limit of
\* facts per run, failed appends and crashes, where an append returns after its
\* fsync (Engine::distill_tick).
THEOREM NothingIsSkipped == ASSUME DsSyncs PROVE DsSpec => []NothingSkipped
<1>1. DsInit => DsInv
  BY DsInitInv
<1>2. DsInv /\ [DsNext]_dsVars => DsInv'
  <2>1. SUFFICES ASSUME DsInv, [DsNext]_dsVars PROVE DsInv'
    OBVIOUS
  <2>2. CASE DsObserve
    BY <2>1, <2>2, DsObserveInv
  <2>3. CASE DsSync
    <3>1. dsSynced' = dsSynced /\ UNCHANGED <<dsLog, dsIds, dsCursor, dsFile, dsTick, dsSeen, dsOwed>>
      BY <2>1, <2>3 DEF DsSync, DsInv, DsTyped, dsPassed
    <3> QED BY <2>1, <3>1, DsSame
  <2>4. CASE DsCrash
    BY <2>1, <2>4, DsCrashInv
  <2>5. ASSUME NEW t \in DsTickers, distill_tick(t) PROVE DsInv'
    BY <2>1, <2>5, DsTickInv
  <2>6. ASSUME NEW t \in DsTickers, DsAppendFact(t) PROVE DsInv'
    BY <2>1, <2>6, DsAppendFactInv
  <2>7. ASSUME NEW t \in DsTickers, DsStoreCursor(t) \/ DsSaveCursor(t) PROVE DsInv'
    BY <2>1, <2>7, DsCursorInv
  <2>8. CASE UNCHANGED dsVars
    BY <2>1, <2>8, DsSame DEF dsVars, dsPassed
  <2> QED BY <2>1, <2>2, <2>3, <2>4, <2>5, <2>6, <2>7, <2>8 DEF DsNext
<1>3. DsInv => NothingSkipped
  BY DsHolds
<1> QED BY <1>1, <1>2, <1>3, PTL DEF DsSpec

-----------------------------------------------------------------------------
(* Memtable: the overlay has the edges of the tail.                         *)

\* A row that has the elements of T, each once.
Lists(row, T) ==
  /\ row \in Seq(Nat) /\ IsFiniteSet(T) /\ Range(row) = T /\ Len(row) = Cardinality(T)

LEMMA ListsOnce ==
  ASSUME NEW row, NEW T, Lists(row, T)
  PROVE  \A i, j \in DOMAIN row : row[i] = row[j] => i = j
<1>1. /\ row \in Seq(Nat) /\ Len(row) \in Nat /\ DOMAIN row = 1..Len(row)
      /\ T = {row[i] : i \in DOMAIN row} /\ Len(row) = Cardinality(T)
  BY LenProperties DEF Lists, Range
<1>2. IsFiniteSet(1..Len(row)) /\ Cardinality(1..Len(row)) = Len(row)
  BY <1>1, IntervalCardinality, ZenonT(40)
<1>3. row \in Surjection(1..Len(row), T)
  <2>1. row \in [1..Len(row) -> T]
    <3>1. row \in [1..Len(row) -> Nat]
      BY <1>1, LenProperties, ZenonT(40)
    <3>2. \A i \in 1..Len(row) : row[i] \in T
      BY <1>1, ZenonT(40)
    <3> QED BY <3>1, <3>2
  <2> QED BY <2>1, <1>1, ZenonT(40) DEF Surjection
<1>4. row \in Injection(1..Len(row), T)
  BY <1>1, <1>2, <1>3, FS_Surjection, ZenonT(40)
<1> QED BY <1>1, <1>4, ZenonT(40) DEF Injection, IsInjective

LEMMA ListsAppend ==
  ASSUME NEW row, NEW T, Lists(row, T), NEW x \in Nat, x \notin T
  PROVE  Lists(Append(row, x), T \cup {x})
<1>1. T = {row[i] : i \in 1..Len(row)} /\ Len(row) = Cardinality(T) /\ IsFiniteSet(T)
  BY LenProperties DEF Lists, Range
<1>5. row \in Seq(Nat) /\ Len(row) \in Nat
  BY LenProperties DEF Lists
<1>2. /\ Append(row, x) \in Seq(Nat) /\ Len(Append(row, x)) = Len(row) + 1
      /\ DOMAIN Append(row, x) = 1..(Len(row) + 1) /\ Append(row, x)[Len(row) + 1] = x
      /\ \A i \in 1..Len(row) : Append(row, x)[i] = row[i]
  <2>1. row \in Seq(Nat)
    BY <1>5
  <2> QED BY <2>1
<1>3. IsFiniteSet(T \cup {x}) /\ Cardinality(T \cup {x}) = Cardinality(T) + 1
  BY <1>1, FS_AddElement
<1> DEFINE r == Append(row, x)
<1> HIDE DEF r
<1>0. /\ DOMAIN r = 1..(Len(row) + 1) /\ r[Len(row) + 1] = x
      /\ \A i \in 1..Len(row) : i \in DOMAIN r /\ r[i] = row[i]
  BY <1>5, <1>2 DEF r
<1>4. {r[i] : i \in DOMAIN r} = T \cup {x}
  <2>1. ASSUME NEW i \in DOMAIN r PROVE r[i] \in T \cup {x}
    <3>1. i \in 1..Len(row) \/ i = Len(row) + 1
      BY <1>0, <1>5
    <3> QED BY <3>1, <1>1, <1>0
  <2>2. x \in {r[i] : i \in DOMAIN r}
    <3>1. Len(row) + 1 \in DOMAIN r
      BY <1>5, <1>0
    <3> QED BY <3>1, <1>0
  <2>3. ASSUME NEW y \in T PROVE y \in {r[i] : i \in DOMAIN r}
    <3>1. PICK i \in 1..Len(row) : y = row[i]
      BY <1>1
    <3>2. i \in DOMAIN r /\ r[i] = y
      BY <3>1, <1>0
    <3> QED BY <3>2
  <2> QED BY <2>1, <2>2, <2>3
<1> QED BY <1>1, <1>2, <1>3, <1>4, ZenonT(40) DEF Lists, Range, r

LEMMA ListsRemove ==
  ASSUME NEW row, NEW T, Lists(row, T), NEW x
  PROVE  Lists(SelectAt(row, {i \in DOMAIN row : row[i] # x}), T \ {x})
<1> DEFINE K == {i \in DOMAIN row : row[i] # x}
           r == SelectAt(row, K)
<1>1. /\ row \in Seq(Nat) /\ Len(row) \in Nat /\ DOMAIN row = 1..Len(row)
      /\ T = {row[i] : i \in DOMAIN row} /\ IsFiniteSet(T)
  BY LenProperties DEF Lists, Range
<1>2. \A i, j \in DOMAIN row : row[i] = row[j] => i = j
  BY ListsOnce
<1>3. K \cap DOMAIN row = K /\ K \subseteq 1..Len(row) /\ \A i \in K : row[i] \in T \ {x}
  BY <1>1
<1>4. \A y \in T \ {x} : \E i \in K : row[i] = y
  BY <1>1
<1> HIDE DEF K
<1>5. Selected(r, Nat, row, K)
  BY <1>1, SelectAtFacts
<1> HIDE DEF r
<1>6. /\ r \in Seq(Nat) /\ Len(r) = Cardinality(K)
      /\ \A i \in DOMAIN r : \E j \in K : r[i] = row[j]
      /\ \A j \in K : \E i \in DOMAIN r : r[i] = row[j]
  BY <1>5, <1>3 DEF Selected
<1>7. IsFiniteSet(K)
  BY <1>1, <1>3, IntervalCardinality, FS_Subset
<1>8. IsFiniteSet(T \ {x}) /\ Cardinality(T \ {x}) = Cardinality(K)
  <2> DEFINE f == [i \in K |-> row[i]]
  <2>1. f \in [K -> T \ {x}] /\ \A i \in K : f[i] = row[i]
    BY <1>3
  <2> HIDE DEF f
  <2>2. \A i, j \in K : f[i] = f[j] => i = j
    BY <2>1, <1>1, <1>2, <1>3
  <2>3. \A y \in T \ {x} : \E i \in K : f[i] = y
    BY <2>1, <1>4
  <2>4. f \in Bijection(K, T \ {x})
    BY <2>1, <2>2, <2>3 DEF Bijection, Injection, Surjection, IsInjective
  <2>5. ExistsBijection(K, T \ {x})
    BY <2>4 DEF ExistsBijection
  <2> QED BY <2>5, <1>7, FS_Bijection
<1>9. {r[i] : i \in DOMAIN r} = T \ {x}
  BY <1>3, <1>4, <1>6
<1>10. Lists(r, T \ {x})
  BY <1>6, <1>8, <1>9 DEF Lists, Range
<1> QED BY <1>10 DEF r, K

MtCallRec == [pc : {"none", "memtable", "views"}, lsn : Nat]
MtTyped ==
  /\ mtLog \in Seq(Seq(Nat)) /\ mtEntries \in Seq(Nat)
  /\ mtAdjacency \in [1..2 -> Seq(Nat)]
  /\ mtCall \in [MtAppenders -> MtCallRec]
  /\ \A a \in MtAppenders : mtCall[a].pc # "none" => mtCall[a].lsn \in DOMAIN mtLog
  /\ mtReturned \subseteq DOMAIN mtLog /\ mtReturned \subseteq mtViews

\* An episode enters the tail once.
MtOnce ==
  /\ \A i \in DOMAIN mtEntries : mtEntries[i] \in DOMAIN mtLog
  /\ \A i, j \in DOMAIN mtEntries : mtEntries[i] = mtEntries[j] => i = j
  /\ \A a \in MtAppenders : mtCall[a].pc = "memtable" =>
       /\ \A i \in DOMAIN mtEntries : mtEntries[i] # mtCall[a].lsn
       /\ \A b \in MtAppenders \ {a} : mtCall[b].pc = "memtable" => mtCall[b].lsn # mtCall[a].lsn

\* Between the two halves of clear the tail is empty and the overlay is not.
MtRows ==
  /\ mtClear = "adjacency" => mtEntries = <<>>
  /\ mtClear # "adjacency" => \A p \in 1..2 : Lists(mtAdjacency[p], TailChildren(p))

MtInv == MtTyped /\ MtOnce /\ MtRows

LEMMA MtInitInv == MtInit => MtInv
<1> SUFFICES ASSUME MtInit PROVE MtInv
  OBVIOUS
<1>1. MtTyped /\ MtOnce
  BY DEF MtInit, MtTyped, MtOnce, MtNoEdges, MtNone, MtCallRec
<1>2. ASSUME NEW p \in 1..2 PROVE Lists(mtAdjacency[p], TailChildren(p))
  <2>1. mtAdjacency[p] = <<>> /\ TailChildren(p) = {}
    BY DEF MtInit, MtNoEdges, TailChildren, Range
  <2> QED BY <2>1, FS_EmptySet DEF Lists, Range
<1>3. mtClear # "adjacency"
  BY DEF MtInit
<1> QED BY <1>1, <1>2, <1>3 DEF MtInv, MtRows

\* The parents of an episode are what they were.
LEMMA MtParentsStay ==
  ASSUME MtTyped, NEW parents \in Seq(Nat), mtLog' = Append(mtLog, parents)
  PROVE  /\ mtLog' \in Seq(Seq(Nat)) /\ Len(mtLog) \in Nat /\ DOMAIN mtLog = 1..Len(mtLog)
         /\ DOMAIN mtLog' = 1..(Len(mtLog) + 1)
         /\ \A lsn \in DOMAIN mtLog : \A p : HasParent(lsn, p)' = HasParent(lsn, p)
<1>1. mtLog \in Seq(Seq(Nat)) /\ Len(mtLog) \in Nat /\ DOMAIN mtLog = 1..Len(mtLog)
  BY LenProperties DEF MtTyped
<1>2. /\ mtLog' \in Seq(Seq(Nat)) /\ DOMAIN mtLog' = 1..(Len(mtLog) + 1)
      /\ \A i \in 1..Len(mtLog) : mtLog'[i] = mtLog[i]
  BY <1>1
<1>3. \A lsn \in DOMAIN mtLog : \A p : HasParent(lsn, p)' = HasParent(lsn, p)
  BY <1>1, <1>2 DEF HasParent
<1> QED BY <1>1, <1>2, <1>3

LEMMA MtAppendInv == ASSUME MtInv, NEW a \in MtAppenders, MtAppend(a) PROVE MtInv'
<1>1. PICK parents \in MtParents : mtLog' = Append(mtLog, parents)
  BY DEF MtAppend
<1>2. parents \in Seq(Nat)
  <2>1. <<>> \in Seq(Nat) /\ <<1>> \in Seq(Nat) /\ <<1, 2>> \in Seq(Nat)
    OBVIOUS
  <2> QED BY <2>1 DEF MtParents
<1>3. /\ mtLog' \in Seq(Seq(Nat)) /\ Len(mtLog) \in Nat /\ DOMAIN mtLog = 1..Len(mtLog)
      /\ DOMAIN mtLog' = 1..(Len(mtLog) + 1)
      /\ \A lsn \in DOMAIN mtLog : \A p : HasParent(lsn, p)' = HasParent(lsn, p)
  BY <1>1, <1>2, MtParentsStay DEF MtInv
<1> DEFINE lsn == Len(mtLog) + 1
           call == [pc |-> "memtable", lsn |-> lsn]
<1>4. /\ mtCall' = [mtCall EXCEPT ![a] = call] /\ mtCall[a].pc = "none"
      /\ UNCHANGED <<mtEntries, mtAdjacency, mtViews, mtReturned, mtClear>>
  BY DEF MtAppend
<1>5. call \in MtCallRec /\ call.pc = "memtable" /\ call.lsn = lsn /\ lsn \in Nat
      /\ lsn \notin DOMAIN mtLog /\ lsn \in DOMAIN mtLog' /\ DOMAIN mtLog \subseteq DOMAIN mtLog'
  BY <1>3 DEF MtCallRec
<1> HIDE DEF call, lsn
<1>6. /\ mtCall' \in [MtAppenders -> MtCallRec] /\ mtCall'[a] = call
      /\ \A b \in MtAppenders \ {a} : mtCall'[b] = mtCall[b]
  BY <1>4, <1>5 DEF MtInv, MtTyped
<1>7. MtTyped'
  BY <1>3, <1>4, <1>5, <1>6 DEF MtInv, MtTyped
<1>8. MtOnce'
  <2>1. \A i \in DOMAIN mtEntries : mtEntries[i] \in DOMAIN mtLog /\ mtEntries[i] # lsn
    BY <1>5 DEF MtInv, MtOnce
  <2>2. \A b \in MtAppenders \ {a} : mtCall[b].pc = "memtable" => mtCall[b].lsn # lsn
    BY <1>5 DEF MtInv, MtTyped
  <2>3. mtEntries' = mtEntries
    BY <1>4
  <2>4. \A b \in MtAppenders : mtCall'[b].pc = "memtable" =>
          /\ \A i \in DOMAIN mtEntries : mtEntries[i] # mtCall'[b].lsn
          /\ \A c \in MtAppenders \ {b} : mtCall'[c].pc = "memtable" => mtCall'[c].lsn # mtCall'[b].lsn
    BY <2>1, <2>2, <1>5, <1>6 DEF MtInv, MtOnce
  <2> QED BY <2>1, <2>3, <2>4, <1>5 DEF MtInv, MtOnce
<1>9. MtRows'
  <2>1. \A p : TailChildren(p)' = TailChildren(p)
    <3>1. \A x \in Range(mtEntries) : x \in DOMAIN mtLog
      BY DEF MtInv, MtOnce, Range
    <3>2. Range(mtEntries)' = Range(mtEntries)
      BY <1>4
    <3> QED BY <3>1, <3>2, <1>3 DEF TailChildren
  <2> QED BY <2>1, <1>4 DEF MtInv, MtRows
<1> QED BY <1>7, <1>8, <1>9 DEF MtInv

\* The tail without its first entry.
LEMMA MtTailRange ==
  ASSUME NEW s \in Seq(Nat), s # <<>>, \A i, j \in DOMAIN s : s[i] = s[j] => i = j
  PROVE  /\ Tail(s) \in Seq(Nat) /\ Head(s) \in Nat /\ Head(s) \in Range(s)
         /\ Range(Tail(s)) = Range(s) \ {Head(s)}
         /\ \A i, j \in DOMAIN Tail(s) : Tail(s)[i] = Tail(s)[j] => i = j
<1>1. /\ Len(s) \in Nat /\ Len(s) >= 1 /\ DOMAIN s = 1..Len(s) /\ Head(s) = s[1] /\ 1 \in DOMAIN s
      /\ \A i \in DOMAIN s : s[i] \in Nat
  OBVIOUS
<1> DEFINE t == Tail(s)
<1>2. t \in Seq(Nat) /\ DOMAIN t = 1..(Len(s) - 1) /\ \A i \in 1..(Len(s) - 1) : t[i] = s[i + 1]
  OBVIOUS
<1> HIDE DEF t
<1>3. \A i \in DOMAIN t : i + 1 \in DOMAIN s /\ t[i] = s[i + 1] /\ i + 1 # 1 /\ i \in Nat
  BY <1>1, <1>2
<1>4. \A i, j \in DOMAIN t : t[i] = t[j] => i = j
  <2>1. SUFFICES ASSUME NEW i \in DOMAIN t, NEW j \in DOMAIN t, t[i] = t[j] PROVE i = j
    OBVIOUS
  <2>2. i + 1 = j + 1
    BY <1>3, <2>1
  <2> QED BY <1>3, <2>2
<1>5. \A x : (\E i \in DOMAIN t : x = t[i]) <=> (\E i \in DOMAIN s : x = s[i]) /\ x # s[1]
  <2>1. SUFFICES ASSUME NEW x
                 PROVE (\E i \in DOMAIN t : x = t[i]) <=> (\E i \in DOMAIN s : x = s[i]) /\ x # s[1]
    OBVIOUS
  <2>2. ASSUME NEW i \in DOMAIN t, x = t[i] PROVE (\E k \in DOMAIN s : x = s[k]) /\ x # s[1]
    BY <2>2, <1>1, <1>3
  <2>3. ASSUME NEW i \in DOMAIN s, x = s[i], x # s[1] PROVE \E k \in DOMAIN t : x = t[k]
    <3>1. i # 1 /\ i - 1 \in DOMAIN t /\ i - 1 + 1 = i
      BY <2>3, <1>1, <1>2
    <3>2. t[i - 1] = s[i]
      BY <3>1, <1>3
    <3> QED BY <3>1, <3>2, <2>3
  <2> QED BY <2>2, <2>3
<1>6. Range(t) = Range(s) \ {s[1]} /\ s[1] \in Range(s)
  <2>1. \A x : x \in Range(t) <=> \E i \in DOMAIN t : x = t[i]
    BY DEF Range
  <2>2. \A x : x \in Range(s) <=> \E i \in DOMAIN s : x = s[i]
    BY DEF Range
  <2> QED BY <2>1, <2>2, <1>1, <1>5
<1>7. s[1] \in Nat /\ Head(s) = s[1]
  BY <1>1
<1> QED BY <1>2, <1>4, <1>6, <1>7 DEF t

LEMMA MtApplyInv == ASSUME MtInv, ~MtClearRaces, NEW a \in MtAppenders, mt_apply(a) PROVE MtInv'
<1> DEFINE lsn == mtCall[a].lsn
           entries == Append(mtEntries, lsn)
           added == [p \in DOMAIN mtAdjacency |->
                       IF HasParent(lsn, p) THEN Append(mtAdjacency[p], lsn) ELSE mtAdjacency[p]]
           new(p) == {l \in Range(entries) : HasParent(l, p)}
<1>1. /\ mtCall[a].pc = "memtable" /\ mtClear # "adjacency" /\ mtClear' = mtClear
      /\ UNCHANGED <<mtLog, mtViews, mtReturned>>
      /\ mtCall' = [mtCall EXCEPT ![a].pc = "views"]
  BY DEF mt_apply
<1>2. /\ mtEntries \in Seq(Nat) /\ Len(mtEntries) \in Nat /\ DOMAIN mtEntries = 1..Len(mtEntries)
      /\ lsn \in Nat /\ lsn \in DOMAIN mtLog
      /\ \A i \in DOMAIN mtEntries : mtEntries[i] # lsn
  BY <1>1, LenProperties DEF MtInv, MtTyped, MtOnce, MtCallRec
<1>3. mtAdjacency \in [1..2 -> Seq(Nat)] /\ DOMAIN mtAdjacency = 1..2
  BY DEF MtInv, MtTyped
<1>4. /\ entries \in Seq(Nat) /\ Len(entries) = Len(mtEntries) + 1
      /\ DOMAIN entries = 1..(Len(mtEntries) + 1) /\ entries[Len(mtEntries) + 1] = lsn
      /\ \A i \in 1..Len(mtEntries) : entries[i] = mtEntries[i]
  <2> HIDE DEF lsn
  <2> QED BY <1>2
<1>5. /\ added \in [1..2 -> Seq(Nat)]
      /\ \A p \in 1..2 : added[p] = IF HasParent(lsn, p) THEN Append(mtAdjacency[p], lsn)
                                    ELSE mtAdjacency[p]
  <2> HIDE DEF lsn
  <2> QED BY <1>2, <1>3
<1>6. \/ mtEntries' = entries /\ mtAdjacency' = added
      \/ mtEntries' = Tail(entries) /\ mtAdjacency' = forget_adjacency(added, Head(entries))
  BY DEF mt_apply
<1> HIDE DEF entries, added
<1>7. Range(entries) = Range(mtEntries) \cup {lsn} /\ lsn \notin Range(mtEntries)
  <2>1. lsn \in Range(entries)
    BY <1>2, <1>4 DEF Range
  <2>2. \A x \in Range(mtEntries) : x \in Range(entries)
    BY <1>2, <1>4 DEF Range
  <2>3. \A x \in Range(entries) : x \in Range(mtEntries) \/ x = lsn
    <3>1. \A i \in DOMAIN entries : i \in DOMAIN mtEntries \/ i = Len(mtEntries) + 1
      BY <1>2, <1>4
    <3> QED BY <3>1, <1>2, <1>4 DEF Range
  <2>4. lsn \notin Range(mtEntries)
    BY <1>2 DEF Range
  <2> QED BY <2>1, <2>2, <2>3, <2>4
<1>8. \A i, j \in DOMAIN entries : entries[i] = entries[j] => i = j
  <2>1. \A i \in DOMAIN entries :
          \/ i \in DOMAIN mtEntries /\ entries[i] = mtEntries[i] /\ entries[i] # lsn
          \/ i = Len(mtEntries) + 1 /\ entries[i] = lsn
    BY <1>2, <1>4
  <2>2. \A i, j \in DOMAIN mtEntries : mtEntries[i] = mtEntries[j] => i = j
    BY DEF MtInv, MtOnce
  <2> QED BY <2>1, <2>2
<1>9. \A p \in 1..2 : Lists(added[p], new(p))
  <2>1. SUFFICES ASSUME NEW p \in 1..2 PROVE Lists(added[p], new(p))
    OBVIOUS
  <2>2. Lists(mtAdjacency[p], TailChildren(p)) /\ lsn \notin TailChildren(p)
    BY <1>1, <1>7 DEF MtInv, MtRows, TailChildren
  <2>3. new(p) = IF HasParent(lsn, p) THEN TailChildren(p) \cup {lsn} ELSE TailChildren(p)
    BY <1>7 DEF TailChildren
  <2> HIDE DEF lsn, new
  <2>4. CASE HasParent(lsn, p)
    <3>1. Lists(Append(mtAdjacency[p], lsn), TailChildren(p) \cup {lsn})
      BY <2>2, <1>2, ListsAppend
    <3> QED BY <3>1, <2>3, <2>4, <1>5
  <2>5. CASE ~HasParent(lsn, p)
    BY <2>2, <2>3, <2>5, <1>5
  <2> QED BY <2>4, <2>5
<1>10. /\ mtEntries' \in Seq(Nat) /\ mtAdjacency' \in [1..2 -> Seq(Nat)]
       /\ \A i, j \in DOMAIN mtEntries' : mtEntries'[i] = mtEntries'[j] => i = j
       /\ Range(mtEntries') \subseteq Range(entries)
       /\ \A p \in 1..2 : Lists(mtAdjacency'[p], {l \in Range(mtEntries') : HasParent(l, p)})
  <2>1. CASE mtEntries' = entries /\ mtAdjacency' = added
    BY <2>1, <1>4, <1>5, <1>8, <1>9
  <2>2. CASE mtEntries' = Tail(entries) /\ mtAdjacency' = forget_adjacency(added, Head(entries))
    <3> DEFINE gone == Head(entries)
               adj == forget_adjacency(added, gone)
               left(p) == {l \in Range(Tail(entries)) : HasParent(l, p)}
    <3>1. entries # <<>>
      BY <1>2, <1>4
    <3>2. /\ Tail(entries) \in Seq(Nat) /\ gone \in Nat /\ gone \in Range(entries)
          /\ Range(Tail(entries)) = Range(entries) \ {gone}
          /\ \A i, j \in DOMAIN Tail(entries) : Tail(entries)[i] = Tail(entries)[j] => i = j
      BY <3>1, <1>4, <1>8, MtTailRange
    <3> HIDE DEF gone
    <3>3. DOMAIN adj = 1..2 /\ adj = [p \in 1..2 |-> adj[p]]
      BY <1>5 DEF forget_adjacency
    <3>4. ASSUME NEW p \in 1..2 PROVE Lists(adj[p], left(p))
      <4>1. adj[p] = IF HasParent(gone, p)
                     THEN SelectAt(added[p], {i \in DOMAIN added[p] : added[p][i] # gone})
                     ELSE added[p]
        BY <1>5 DEF forget_adjacency
      <4>2. left(p) = IF HasParent(gone, p) THEN new(p) \ {gone} ELSE new(p)
        BY <3>2
      <4>3. Lists(added[p], new(p))
        BY <1>9
      <4> HIDE DEF left, new, adj
      <4>4. Lists(SelectAt(added[p], {i \in DOMAIN added[p] : added[p][i] # gone}), new(p) \ {gone})
        BY <4>3, ListsRemove
      <4> QED BY <4>1, <4>2, <4>3, <4>4
    <3>5. adj \in [1..2 -> Seq(Nat)]
      <4> HIDE DEF adj
      <4>1. \A p \in 1..2 : adj[p] \in Seq(Nat)
        BY <3>4 DEF Lists
      <4> QED BY <4>1, <3>3
    <3>6. mtEntries' = Tail(entries) /\ mtAdjacency' = adj
      BY <2>2 DEF gone
    <3> HIDE DEF adj
    <3> QED BY <3>2, <3>4, <3>5, <3>6
  <2> QED BY <2>1, <2>2, <1>6
<1>11. \A l \in Range(entries) : l \in DOMAIN mtLog
  BY <1>2, <1>7 DEF MtInv, MtOnce, Range
<1>12. /\ mtCall' \in [MtAppenders -> MtCallRec] /\ mtCall'[a].pc = "views" /\ mtCall'[a].lsn = lsn
       /\ \A b \in MtAppenders \ {a} : mtCall'[b] = mtCall[b]
  BY <1>1 DEF MtInv, MtTyped, MtCallRec
<1>13. MtTyped'
  BY <1>1, <1>2, <1>10, <1>12 DEF MtInv, MtTyped
<1>14. MtOnce'
  <2>1. ASSUME NEW b \in MtAppenders, mtCall'[b].pc = "memtable"
        PROVE  /\ \A l \in Range(entries) : l # mtCall'[b].lsn
               /\ \A c \in MtAppenders \ {b} : mtCall'[c].pc = "memtable" => mtCall'[c].lsn # mtCall'[b].lsn
    <3>1. b # a /\ mtCall'[b] = mtCall[b]
      BY <2>1, <1>12
    <3>2. mtCall[b].lsn # lsn /\ \A l \in Range(mtEntries) : l # mtCall[b].lsn
      BY <2>1, <3>1, <1>1 DEF MtInv, MtOnce, Range
    <3>3. \A c \in MtAppenders \ {b} : mtCall'[c].pc = "memtable" => mtCall'[c].lsn # mtCall'[b].lsn
      BY <2>1, <3>1, <1>12 DEF MtInv, MtOnce
    <3> QED BY <3>1, <3>2, <3>3, <1>7
  <2>2. \A i \in DOMAIN mtEntries' : mtEntries'[i] \in Range(entries)
    BY <1>10 DEF Range
  <2> QED BY <2>1, <2>2, <1>1, <1>10, <1>11 DEF MtOnce
<1>15. MtRows'
  <2>1. \A p : TailChildren(p)' = {l \in Range(mtEntries') : HasParent(l, p)}
    BY <1>1 DEF TailChildren, HasParent
  <2> QED BY <2>1, <1>1, <1>10 DEF MtRows
<1> QED BY <1>13, <1>14, <1>15 DEF MtInv

LEMMA MtViewsInv == ASSUME MtInv, NEW a \in MtAppenders, MtViewsApply(a) PROVE MtInv'
<1>1. /\ UNCHANGED <<mtLog, mtEntries, mtAdjacency, mtClear>> /\ mtCall[a].pc = "views"
      /\ mtViews' = mtViews \cup {mtCall[a].lsn} /\ mtReturned' = mtReturned \cup {mtCall[a].lsn}
      /\ mtCall' = [mtCall EXCEPT ![a] = MtNone]
  BY DEF MtViewsApply
<1>2. /\ mtCall' \in [MtAppenders -> MtCallRec] /\ mtCall'[a].pc = "none"
      /\ \A b \in MtAppenders \ {a} : mtCall'[b] = mtCall[b]
  BY <1>1 DEF MtInv, MtTyped, MtCallRec, MtNone
<1>3. MtTyped'
  BY <1>1, <1>2 DEF MtInv, MtTyped
<1>4. MtOnce'
  BY <1>1, <1>2 DEF MtInv, MtOnce
<1>5. MtRows'
  BY <1>1 DEF MtInv, MtRows, TailChildren, HasParent, Range
<1> QED BY <1>3, <1>4, <1>5 DEF MtInv

LEMMA MtClearInv == ASSUME MtInv, mt_clear \/ MtClearOverlay \/ MtRebuild PROVE MtInv'
<1>1. UNCHANGED <<mtLog, mtCall, mtReturned>>
  BY DEF mt_clear, MtClearOverlay, MtRebuild
<1>2. mtEntries' = <<>> \/ mtEntries' = mtEntries
  BY DEF mt_clear, MtClearOverlay, MtRebuild
<1>3. mtAdjacency' = mtAdjacency \/ mtAdjacency' = MtNoEdges
  BY DEF mt_clear, MtClearOverlay, MtRebuild
<1>4. mtViews' = mtViews \/ mtViews' = DOMAIN mtLog
  BY DEF mt_clear, MtClearOverlay, MtRebuild
<1>5. MtTyped'
  <2>1. MtNoEdges \in [1..2 -> Seq(Nat)] /\ <<>> \in Seq(Nat)
    BY DEF MtNoEdges
  <2> QED BY <2>1, <1>1, <1>2, <1>3, <1>4 DEF MtInv, MtTyped
<1>6. MtOnce'
  BY <1>1, <1>2 DEF MtInv, MtOnce
<1>7. MtRows'
  <2>1. CASE mt_clear
    BY <2>1 DEF mt_clear, MtRows
  <2>2. CASE MtClearOverlay
    <3>1. mtEntries' = <<>> /\ mtAdjacency' = MtNoEdges /\ mtClear' = "rebuild"
      BY <2>2 DEF MtClearOverlay, MtInv, MtRows
    <3>2. ASSUME NEW p \in 1..2 PROVE Lists(mtAdjacency'[p], TailChildren(p)')
      <4>1. mtAdjacency'[p] = <<>> /\ TailChildren(p)' = {}
        BY <3>1 DEF MtNoEdges, TailChildren, Range
      <4> QED BY <4>1, FS_EmptySet DEF Lists, Range
    <3> QED BY <3>1, <3>2 DEF MtRows
  <2>3. CASE MtRebuild
    BY <2>3 DEF MtRebuild, MtInv, MtRows, TailChildren, HasParent, Range
  <2> QED BY <2>1, <2>2, <2>3
<1> QED BY <1>5, <1>6, <1>7 DEF MtInv

\* The overlay has exactly the edges of the tail, each once, and a returned
\* append is found, for any number of appenders, any capacity and any order
\* of the applies (Memtable::apply, forget_adjacency, clear).
THEOREM OverlayMatchesTail == ASSUME ~MtClearRaces PROVE MtSpec => []OverlayExact
<1>1. MtInit => MtInv
  BY MtInitInv
<1>2. MtInv /\ [MtNext]_mtVars => MtInv'
  <2>1. SUFFICES ASSUME MtInv, [MtNext]_mtVars PROVE MtInv'
    OBVIOUS
  <2>2. ASSUME NEW a \in MtAppenders, MtAppend(a) PROVE MtInv'
    BY <2>1, <2>2, MtAppendInv
  <2>3. ASSUME NEW a \in MtAppenders, mt_apply(a) PROVE MtInv'
    BY <2>1, <2>3, MtApplyInv
  <2>4. ASSUME NEW a \in MtAppenders, MtViewsApply(a) PROVE MtInv'
    BY <2>1, <2>4, MtViewsInv
  <2>5. CASE mt_clear \/ MtClearOverlay \/ MtRebuild
    BY <2>1, <2>5, MtClearInv
  <2>6. CASE UNCHANGED mtVars
    BY <2>1, <2>6 DEF mtVars, MtInv, MtTyped, MtOnce, MtRows, TailChildren, HasParent, Range
  <2> QED BY <2>1, <2>2, <2>3, <2>4, <2>5, <2>6 DEF MtNext
<1>3. MtInv => OverlayExact
  <2>1. SUFFICES ASSUME MtInv PROVE OverlayExact
    OBVIOUS
  <2>2. DOMAIN mtAdjacency = 1..2 /\ mtReturned \subseteq mtViews
    BY <2>1 DEF MtInv, MtTyped
  <2> QED BY <2>1, <2>2 DEF MtInv, MtRows, Lists, OverlayExact
<1> QED BY <1>1, <1>2, <1>3, PTL DEF MtSpec

-----------------------------------------------------------------------------
(* Anchoring: the sealed segments partition the LSNs below the active one,  *)
(* and a commitment is a prefix of them.                                    *)

AnSegment == [base : Nat, max : Nat]
AnJobRec == [pc : {"idle", "commit", "token", "manifest"}, lsn : Nat, root : Seq(AnSegment)]
\* The commitment of the first k segments.
AnPrefix(k) == SubSeq(anSealed, 1, k)

AnTyped ==
  /\ anHead \in 0..AnMaxLsn /\ anActive \in 0..anHead
  /\ anSealed \in Seq(AnSegment) /\ anLast \in Nat /\ anJob \in AnJobRec
  /\ anTokens \in [0..AnMaxLsn -> {NoToken} \cup (Nat \X Seq(AnSegment))]
  /\ anManifest \in Seq([lsn : Nat, imprint : Nat \X Seq(AnSegment)])

AnChain ==
  /\ \A i \in DOMAIN anSealed : anSealed[i].base <= anSealed[i].max /\ anSealed[i].max < anActive
  /\ \A i, j \in DOMAIN anSealed : i < j => anSealed[i].max < anSealed[j].base
  /\ \A k \in DOMAIN anSealed :
       UNION {anSealed[i].base..anSealed[i].max : i \in 1..k} = 0..anSealed[k].max
  /\ anActive = IF anSealed = <<>> THEN 0 ELSE anSealed[Len(anSealed)].max + 1

\* The worker's commitment and the receipts are of a prefix each.
AnOfPrefix(lsn, root) ==
  \E k \in DOMAIN anSealed : anSealed[k].max = lsn /\ root = AnPrefix(k)
AnWorker ==
  anJob.pc # "idle" =>
    /\ \E k \in DOMAIN anSealed : anSealed[k].max = anJob.lsn
    /\ anJob.pc # "commit" => AnOfPrefix(anJob.lsn, anJob.root)
    /\ anJob.pc = "manifest" => anTokens[anJob.lsn] = Imprint(anJob.lsn, anJob.root)
AnReceipts ==
  \A n \in DOMAIN anManifest :
    LET r == anManifest[n]
    IN  /\ r.imprint = Imprint(r.lsn, r.imprint[2]) /\ AnOfPrefix(r.lsn, r.imprint[2])
        /\ anTokens[r.lsn] = r.imprint

AnInv == AnTyped /\ AnChain /\ AnWorker /\ AnReceipts

LEMMA AnSealedFacts ==
  ASSUME AnTyped
  PROVE  /\ Len(anSealed) \in Nat /\ DOMAIN anSealed = 1..Len(anSealed)
         /\ \A i \in DOMAIN anSealed : anSealed[i].base \in Nat /\ anSealed[i].max \in Nat
         /\ \A k \in 0..Len(anSealed) :
              /\ AnPrefix(k) \in Seq(AnSegment) /\ Len(AnPrefix(k)) = k
              /\ \A i \in 1..k : AnPrefix(k)[i] = anSealed[i]
<1>1. anSealed \in Seq(AnSegment)
  BY DEF AnTyped
<1>2. Len(anSealed) \in Nat /\ DOMAIN anSealed = 1..Len(anSealed)
      /\ \A i \in DOMAIN anSealed : anSealed[i] \in AnSegment
  BY <1>1, LenProperties
<1>3. \A k \in 0..Len(anSealed) :
        /\ AnPrefix(k) \in Seq(AnSegment) /\ Len(AnPrefix(k)) = k
        /\ \A i \in 1..k : AnPrefix(k)[i] = anSealed[i]
  BY <1>1, PrefixType DEF AnPrefix
<1> QED BY <1>2, <1>3 DEF AnSegment

\* The greatest LSN of a segment tells which one it is.
LEMMA AnMaxGrows ==
  ASSUME AnTyped, AnChain
  PROVE  /\ \A i, j \in DOMAIN anSealed : anSealed[i].max <= anSealed[j].max <=> i <= j
         /\ \A i, j \in DOMAIN anSealed : anSealed[i].max = anSealed[j].max => i = j
<1>1. /\ Len(anSealed) \in Nat /\ DOMAIN anSealed = 1..Len(anSealed)
      /\ \A i \in DOMAIN anSealed : anSealed[i].base \in Nat /\ anSealed[i].max \in Nat
  BY AnSealedFacts
<1>2. \A i, j \in DOMAIN anSealed : i < j => anSealed[i].max < anSealed[j].max
  <2>1. /\ \A i \in DOMAIN anSealed : anSealed[i].base <= anSealed[i].max
        /\ \A i, j \in DOMAIN anSealed : i < j => anSealed[i].max < anSealed[j].base
    BY DEF AnChain
  <2> QED BY <2>1, <1>1
<1> QED BY <1>1, <1>2, SMTT(30)

\* commit_at at a watermark is the segments up to it.
LEMMA AnCommits ==
  ASSUME AnTyped, AnChain, NEW k \in DOMAIN anSealed
  PROVE  commit_at(anSealed[k].max) = AnPrefix(k)
<1> DEFINE K == {i \in DOMAIN anSealed : anSealed[i].max <= anSealed[k].max}
<1>1. anSealed \in Seq(AnSegment) /\ Len(anSealed) \in Nat /\ DOMAIN anSealed = 1..Len(anSealed)
  BY AnSealedFacts DEF AnTyped
<1>2. K \cap DOMAIN anSealed = 1..k /\ k \in 0..Len(anSealed)
  <2>1. \A i \in DOMAIN anSealed : i \in K <=> i <= k
    BY AnMaxGrows
  <2> HIDE DEF K
  <2> QED BY <2>1, <1>1
<1> HIDE DEF K
<1>3. SelectAt(anSealed, K) = SubSeq(anSealed, 1, k)
  BY <1>1, <1>2, SelectAtPrefix
<1> QED BY <1>3 DEF K, commit_at, AnPrefix

\* The watermark is the end of the last segment.
LEMMA AnWatermark ==
  ASSUME AnTyped, AnChain, current_watermark > 0
  PROVE  \E k \in DOMAIN anSealed : anSealed[k].max = current_watermark
<1>1. anSealed # <<>>
  BY DEF current_watermark
<1>2. Len(anSealed) \in Nat /\ DOMAIN anSealed = 1..Len(anSealed) /\ Len(anSealed) \in DOMAIN anSealed
      /\ \A i \in DOMAIN anSealed : anSealed[i].max \in Nat
  <2>1. anSealed \in Seq(AnSegment)
    BY DEF AnTyped
  <2> QED BY <1>1, <2>1, AnSealedFacts
<1> DEFINE S == {anSealed[i].max : i \in DOMAIN anSealed}
<1>3. \E x \in S : \A y \in S : x >= y
  <2>1. \A i \in DOMAIN anSealed : anSealed[i].max <= anSealed[Len(anSealed)].max
    BY <1>2, AnMaxGrows
  <2> QED BY <2>1, <1>2
<1>4. current_watermark = Max(S)
  BY <1>1 DEF current_watermark
<1> HIDE DEF S
<1>5. Max(S) \in S
  BY <1>3 DEF Max
<1> QED BY <1>4, <1>5 DEF S

LEMMA AnInitInv == AnInit => AnInv
<1> SUFFICES ASSUME AnInit PROVE AnInv
  OBVIOUS
<1>1. AnTyped
  BY AnAssumption DEF AnInit, AnTyped, AnIdle, AnJobRec
<1> QED BY <1>1 DEF AnInit, AnInv, AnChain, AnWorker, AnReceipts, AnIdle

\* The log alone moves: what was sealed stays.
LEMMA AnKeptWhole ==
  ASSUME AnTyped, NEW m \in AnSegment, anSealed' = Append(anSealed, m)
  PROVE  /\ anSealed' \in Seq(AnSegment) /\ Len(anSealed') = Len(anSealed) + 1
         /\ anSealed'[Len(anSealed) + 1] = m
         /\ \A i \in DOMAIN anSealed : i \in DOMAIN anSealed' /\ anSealed'[i] = anSealed[i]
         /\ \A k \in DOMAIN anSealed : AnPrefix(k)' = AnPrefix(k)
<1>1. anSealed \in Seq(AnSegment) /\ Len(anSealed) \in Nat /\ DOMAIN anSealed = 1..Len(anSealed)
  BY AnSealedFacts DEF AnTyped
<1>2. /\ anSealed' \in Seq(AnSegment) /\ Len(anSealed') = Len(anSealed) + 1
      /\ anSealed'[Len(anSealed) + 1] = m
      /\ \A i \in DOMAIN anSealed : i \in DOMAIN anSealed' /\ anSealed'[i] = anSealed[i]
  BY <1>1
<1>3. ASSUME NEW k \in DOMAIN anSealed PROVE AnPrefix(k)' = AnPrefix(k)
  <2>1. k \in 0..Len(anSealed) /\ k \in 0..Len(anSealed')
    BY <1>1, <1>2
  <2>2. /\ AnPrefix(k) \in Seq(AnSegment) /\ Len(AnPrefix(k)) = k
        /\ \A i \in 1..k : AnPrefix(k)[i] = anSealed[i]
    BY <2>1, <1>1, PrefixType DEF AnPrefix
  <2>3. /\ AnPrefix(k)' \in Seq(AnSegment) /\ Len(AnPrefix(k)') = k
        /\ \A i \in 1..k : AnPrefix(k)'[i] = anSealed'[i]
    BY <2>1, <1>2, PrefixType DEF AnPrefix
  <2>4. \A i \in 1..k : AnPrefix(k)'[i] = AnPrefix(k)[i]
    BY <2>1, <2>2, <2>3, <1>1, <1>2
  <2> QED BY <2>2, <2>3, <2>4, SeqEqual
<1> QED BY <1>2, <1>3

LEMMA AnLogInv == ASSUME AnInv, AnAppend \/ an_crash PROVE AnInv'
<1>1. UNCHANGED <<anActive, anSealed, anTokens, anManifest>>
  BY DEF AnAppend, an_crash
<1>2. anHead' \in 0..AnMaxLsn /\ anActive \in 0..anHead'
  BY AnAssumption DEF AnAppend, an_crash, AnInv, AnTyped
<1>3. \/ anJob' = anJob /\ anLast' = anLast
      \/ anJob' = AnIdle /\ anLast' = 0
  BY DEF AnAppend, an_crash
<1>4. AnIdle \in AnJobRec /\ AnIdle.pc = "idle"
  BY DEF AnIdle, AnJobRec
<1>5. AnTyped'
  BY <1>1, <1>2, <1>3, <1>4 DEF AnInv, AnTyped
<1>6. AnChain'
  BY <1>1 DEF AnInv, AnChain
<1>7. AnReceipts'
  BY <1>1 DEF AnInv, AnReceipts, AnOfPrefix, AnPrefix, Imprint
<1>8. AnWorker'
  BY <1>1, <1>3, <1>4 DEF AnInv, AnWorker, AnOfPrefix, AnPrefix, Imprint
<1> QED BY <1>5, <1>6, <1>7, <1>8 DEF AnInv

LEMMA AnRollInv == ASSUME AnInv, ~AnEmptyRolls, roll_segment PROVE AnInv'
<1> DEFINE m == [base |-> anActive, max |-> anHead - 1]
           n == Len(anSealed) + 1
<1>1. /\ anHead > anActive /\ anSealed' = Append(anSealed, m) /\ anActive' = anHead
      /\ UNCHANGED <<anHead, anLast, anJob, anTokens, anManifest>>
  BY DEF roll_segment
<1>2. anHead \in Nat /\ anActive \in Nat /\ AnTyped /\ AnChain
  BY DEF AnInv, AnTyped
<1>3. m \in AnSegment /\ m.base = anActive /\ m.max = anHead - 1
  BY <1>1, <1>2 DEF AnSegment
<1> HIDE DEF m
<1>4. /\ anSealed' \in Seq(AnSegment) /\ Len(anSealed') = n /\ anSealed'[n] = m
      /\ \A i \in DOMAIN anSealed : i \in DOMAIN anSealed' /\ anSealed'[i] = anSealed[i]
      /\ \A k \in DOMAIN anSealed : AnPrefix(k)' = AnPrefix(k)
  BY <1>1, <1>2, <1>3, AnKeptWhole
<1>5. /\ Len(anSealed) \in Nat /\ DOMAIN anSealed = 1..Len(anSealed) /\ DOMAIN anSealed' = 1..n
      /\ \A i \in DOMAIN anSealed : anSealed[i].base \in Nat /\ anSealed[i].max \in Nat
  <2>1. Len(anSealed) \in Nat /\ DOMAIN anSealed = 1..Len(anSealed)
        /\ \A i \in DOMAIN anSealed : anSealed[i].base \in Nat /\ anSealed[i].max \in Nat
    BY <1>2, AnSealedFacts
  <2>2. DOMAIN anSealed' = 1..Len(anSealed')
    BY <1>4, LenProperties
  <2> QED BY <2>1, <2>2, <1>4
<1>6. AnTyped'
  <2>1. anHead \in 0..AnMaxLsn /\ anHead \in 0..anHead
    BY <1>2 DEF AnTyped
  <2> QED BY <2>1, <1>1, <1>4, <1>2 DEF AnTyped
<1>7. AnChain'
  <2>1. \A i \in DOMAIN anSealed' : (i \in DOMAIN anSealed /\ anSealed'[i] = anSealed[i]) \/ i = n
    BY <1>4, <1>5
  <2>2. \A i \in DOMAIN anSealed' :
          anSealed'[i].base <= anSealed'[i].max /\ anSealed'[i].max < anActive'
    <3>1. SUFFICES ASSUME NEW i \in DOMAIN anSealed'
                   PROVE anSealed'[i].base <= anSealed'[i].max /\ anSealed'[i].max < anActive'
      OBVIOUS
    <3>2. CASE i = n
      BY <3>2, <1>1, <1>2, <1>3, <1>4
    <3>3. CASE i \in DOMAIN anSealed /\ anSealed'[i] = anSealed[i]
      <4>1. anSealed[i].base <= anSealed[i].max /\ anSealed[i].max < anActive
        BY <3>3, <1>2 DEF AnChain
      <4> QED BY <4>1, <3>3, <1>1, <1>2, <1>5
    <3> QED BY <3>2, <3>3, <2>1
  <2>3. ASSUME NEW i \in DOMAIN anSealed', NEW j \in DOMAIN anSealed', i < j
        PROVE  anSealed'[i].max < anSealed'[j].base
    <3>1. i \in DOMAIN anSealed /\ anSealed'[i] = anSealed[i]
      BY <2>1, <2>3, <1>5
    <3>2. CASE j = n
      <4>1. anSealed[i].max < anActive
        BY <3>1, <1>2 DEF AnChain
      <4> QED BY <4>1, <3>1, <3>2, <1>3, <1>4
    <3>3. CASE j \in DOMAIN anSealed /\ anSealed'[j] = anSealed[j]
      BY <3>1, <3>3, <2>3, <1>2 DEF AnChain
    <3> QED BY <3>2, <3>3, <2>1
  <2>4. ASSUME NEW k \in DOMAIN anSealed'
        PROVE  UNION {anSealed'[i].base..anSealed'[i].max : i \in 1..k} = 0..anSealed'[k].max
    <3> DEFINE U(j) == UNION {anSealed[i].base..anSealed[i].max : i \in 1..j}
               V(j) == UNION {anSealed'[i].base..anSealed'[i].max : i \in 1..j}
    <3>1. ASSUME NEW j \in 0..Len(anSealed) PROVE V(j) = U(j)
      <4>1. \A i \in 1..j : anSealed'[i] = anSealed[i]
        BY <1>4, <1>5
      <4> QED BY <4>1
    <3>2. CASE k \in DOMAIN anSealed /\ anSealed'[k] = anSealed[k]
      <4>1. U(k) = 0..anSealed[k].max
        BY <3>2, <1>2 DEF AnChain
      <4>2. k \in 0..Len(anSealed)
        BY <3>2, <1>5
      <4>3. V(k) = U(k)
        BY <4>2, <3>1
      <4>4. V(k) = 0..anSealed'[k].max
        <5> HIDE DEF U, V
        <5> QED BY <4>1, <4>3, <3>2
      <4> QED BY <4>4
    <3>3. CASE k = n
      <4>1. V(n) = V(Len(anSealed)) \cup (m.base..m.max)
        <5>1. \A i \in 1..n : i \in 1..Len(anSealed) \/ i = n
          BY <1>5
        <5>2. n \in 1..n /\ \A i \in 1..Len(anSealed) : i \in 1..n
          BY <1>5
        <5> QED BY <5>1, <5>2, <1>4
      <4>2. V(Len(anSealed)) = 0..(anActive - 1)
        <5>1. V(Len(anSealed)) = U(Len(anSealed))
          <6>1. Len(anSealed) \in 0..Len(anSealed)
            BY <1>5
          <6> HIDE DEF U, V
          <6> QED BY <6>1, <3>1
        <5>2. CASE anSealed = <<>>
          <6>1. U(Len(anSealed)) = {} /\ anActive = 0
            BY <5>2, <1>2 DEF AnChain
          <6> HIDE DEF U, V
          <6> QED BY <5>1, <6>1
        <5>3. CASE anSealed # <<>>
          <6>1. Len(anSealed) \in DOMAIN anSealed
            <7>1. anSealed \in Seq(AnSegment)
              BY <1>2 DEF AnTyped
            <7> QED BY <5>3, <1>5, <7>1
          <6>2. U(Len(anSealed)) = 0..anSealed[Len(anSealed)].max
            BY <6>1, <1>2 DEF AnChain
          <6>3. anActive - 1 = anSealed[Len(anSealed)].max
            BY <5>3, <6>1, <1>2, <1>5, SMTT(30) DEF AnChain
          <6> HIDE DEF U, V
          <6> QED BY <5>1, <6>2, <6>3
        <5> QED BY <5>2, <5>3
      <4> HIDE DEF V
      <4>3. V(n) = 0..(anHead - 1)
        <5>1. (0..(anActive - 1)) \cup (anActive..(anHead - 1)) = 0..(anHead - 1)
          BY <1>1, <1>2
        <5> QED BY <5>1, <4>1, <4>2, <1>3
      <4> QED BY <4>3, <3>3, <1>3, <1>4 DEF V
    <3> QED BY <3>2, <3>3, <2>1
  <2>5. anActive' = IF anSealed' = <<>> THEN 0 ELSE anSealed'[Len(anSealed')].max + 1
    <3>1. anSealed' # <<>>
      BY <1>4, <1>5
    <3> QED BY <3>1, <1>1, <1>2, <1>3, <1>4
  <2> QED BY <2>2, <2>3, <2>4, <2>5 DEF AnChain
<1>8. \A lsn, root : AnOfPrefix(lsn, root) => AnOfPrefix(lsn, root)'
  BY <1>4 DEF AnOfPrefix
<1>9. AnWorker'
  <2>1. ASSUME NEW k \in DOMAIN anSealed PROVE k \in DOMAIN anSealed' /\ anSealed'[k].max = anSealed[k].max
    BY <1>4
  <2>2. anJob' = anJob /\ anTokens' = anTokens
    BY <1>1
  <2>3. AnWorker
    BY DEF AnInv
  <2> QED BY <2>1, <2>2, <2>3, <1>8 DEF AnWorker, Imprint
<1>10. AnReceipts'
  <2>1. anManifest' = anManifest /\ anTokens' = anTokens
    BY <1>1
  <2>2. AnReceipts
    BY DEF AnInv
  <2> QED BY <2>1, <2>2, <1>8 DEF AnReceipts, Imprint
<1> QED BY <1>6, <1>7, <1>9, <1>10 DEF AnInv

\* The log stands still while the worker moves.
LEMMA AnLogStays ==
  ASSUME AnInv, UNCHANGED <<anHead, anActive, anSealed>>
  PROVE  /\ AnChain' /\ \A lsn, root : AnOfPrefix(lsn, root)' = AnOfPrefix(lsn, root)
<1>1. AnChain'
  BY DEF AnInv, AnChain
<1>2. \A lsn, root : AnOfPrefix(lsn, root)' = AnOfPrefix(lsn, root)
  BY DEF AnOfPrefix, AnPrefix
<1> QED BY <1>1, <1>2

LEMMA AnTickInv == ASSUME AnInv, an_tick PROVE AnInv'
<1> DEFINE j == [pc |-> "commit", lsn |-> current_watermark, root |-> <<>>]
<1>1. /\ UNCHANGED <<anHead, anActive, anSealed, anLast, anTokens, anManifest>>
      /\ anJob' = j /\ current_watermark > 0
  BY DEF an_tick
<1>2. PICK k \in DOMAIN anSealed : anSealed[k].max = current_watermark
  BY <1>1, AnWatermark DEF AnInv
<1>3. current_watermark \in Nat
  BY <1>2, AnSealedFacts DEF AnInv
<1>4. j \in AnJobRec /\ j.pc = "commit" /\ j.lsn = current_watermark
  BY <1>3 DEF AnJobRec
<1> HIDE DEF j
<1>5. AnChain' /\ \A lsn, root : AnOfPrefix(lsn, root)' = AnOfPrefix(lsn, root)
  BY <1>1, AnLogStays
<1>6. AnTyped'
  BY <1>1, <1>4 DEF AnInv, AnTyped
<1>7. AnReceipts'
  BY <1>1, <1>5 DEF AnInv, AnReceipts, Imprint
<1>8. AnWorker'
  <2>1. anSealed' = anSealed /\ anJob' = j
    BY <1>1
  <2> QED BY <2>1, <1>2, <1>4 DEF AnWorker
<1> QED BY <1>5, <1>6, <1>7, <1>8 DEF AnInv

LEMMA AnCommitInv == ASSUME AnInv, an_commit PROVE AnInv'
<1>1. /\ UNCHANGED <<anHead, anActive, anSealed, anLast, anTokens, anManifest>>
      /\ anJob.pc = "commit" /\ anJob \in AnJobRec
  BY DEF an_commit, AnInv, AnTyped
<1>2. PICK k \in DOMAIN anSealed : anSealed[k].max = anJob.lsn
  BY <1>1 DEF AnInv, AnWorker
<1>3. commit_at(anJob.lsn) = AnPrefix(k)
  BY <1>2, AnCommits DEF AnInv
<1>4. AnPrefix(k) \in Seq(AnSegment)
  <2>1. k \in 0..Len(anSealed)
    BY <1>2, AnSealedFacts DEF AnInv
  <2> QED BY <2>1, AnSealedFacts DEF AnInv
<1> DEFINE j == [anJob EXCEPT !.pc = "token", !.root = commit_at(anJob.lsn)]
<1>5. AnIdle \in AnJobRec /\ AnIdle.pc = "idle"
  BY DEF AnJobRec, AnIdle
<1>6. anJob' = j \/ anJob' = AnIdle
  BY DEF an_commit
<1>7. j = [anJob EXCEPT !.pc = "token", !.root = AnPrefix(k)]
  BY <1>3
<1>8. /\ j \in AnJobRec /\ j.pc = "token" /\ j.lsn = anJob.lsn /\ j.root = AnPrefix(k)
  <2> DEFINE p == AnPrefix(k)
  <2>1. p \in Seq(AnSegment) /\ j = [anJob EXCEPT !.pc = "token", !.root = p]
    BY <1>4, <1>7
  <2> HIDE DEF p, j
  <2>2. j \in AnJobRec /\ j.pc = "token" /\ j.lsn = anJob.lsn /\ j.root = p
    BY <2>1, <1>1 DEF AnJobRec
  <2> QED BY <2>2 DEF p
<1> HIDE DEF j
<1>9. AnChain' /\ \A lsn, root : AnOfPrefix(lsn, root)' = AnOfPrefix(lsn, root)
  BY <1>1, AnLogStays
<1>10. AnTyped'
  BY <1>1, <1>5, <1>6, <1>8 DEF AnInv, AnTyped
<1>11. AnReceipts'
  BY <1>1, <1>9 DEF AnInv, AnReceipts, Imprint
<1>12. AnWorker'
  <2>1. AnOfPrefix(j.lsn, j.root)
    BY <1>2, <1>8 DEF AnOfPrefix
  <2>2. anSealed' = anSealed
    BY <1>1
  <2> QED BY <2>1, <2>2, <1>2, <1>5, <1>6, <1>9, <1>8 DEF AnWorker
<1> QED BY <1>9, <1>10, <1>11, <1>12 DEF AnInv

LEMMA AnTokenInv == ASSUME AnInv, write_token PROVE AnInv'
<1> DEFINE tok == Imprint(anJob.lsn, anJob.root)
           j == [anJob EXCEPT !.pc = "manifest"]
<1>1. /\ UNCHANGED <<anHead, anActive, anSealed, anLast, anManifest>>
      /\ anTokens' = [anTokens EXCEPT ![anJob.lsn] = tok] /\ anJob' = j
      /\ anJob.pc = "token" /\ anJob \in AnJobRec
  BY DEF write_token, AnInv, AnTyped
<1>2. AnOfPrefix(anJob.lsn, anJob.root)
  BY <1>1 DEF AnInv, AnWorker
<1>3. anJob.lsn \in 0..AnMaxLsn
  <2>1. PICK k \in DOMAIN anSealed : anSealed[k].max = anJob.lsn
    BY <1>2 DEF AnOfPrefix
  <2>2. anSealed[k].max \in Nat /\ anSealed[k].max < anActive
    BY AnSealedFacts DEF AnInv, AnChain
  <2> QED BY <2>1, <2>2, AnAssumption DEF AnInv, AnTyped
<1>4. /\ tok \in Nat \X Seq(AnSegment) /\ tok = Imprint(anJob.lsn, anJob.root)
      /\ j \in AnJobRec /\ j.pc = "manifest" /\ j.lsn = anJob.lsn /\ j.root = anJob.root
  BY <1>1 DEF Imprint, AnJobRec
<1> HIDE DEF tok, j
<1>5. AnChain' /\ \A lsn, root : AnOfPrefix(lsn, root)' = AnOfPrefix(lsn, root)
  BY <1>1, AnLogStays
<1>6. AnTyped'
  BY <1>1, <1>3, <1>4 DEF AnInv, AnTyped
<1>7. /\ anTokens'[anJob.lsn] = tok
      /\ \A l \in 0..AnMaxLsn : l # anJob.lsn => anTokens'[l] = anTokens[l]
  BY <1>1, <1>3 DEF AnInv, AnTyped
<1>8. AnWorker'
  <2>1. \E k \in DOMAIN anSealed : anSealed[k].max = anJob.lsn
    BY <1>2 DEF AnOfPrefix
  <2>2. anSealed' = anSealed /\ anJob' = j
    BY <1>1
  <2> QED BY <2>1, <2>2, <1>2, <1>4, <1>5, <1>7 DEF AnWorker, Imprint
<1>9. AnReceipts'
  <2>1. SUFFICES ASSUME NEW n \in DOMAIN anManifest, NEW r, r = anManifest[n]
                 PROVE  /\ r.imprint = Imprint(r.lsn, r.imprint[2])
                        /\ AnOfPrefix(r.lsn, r.imprint[2]) /\ anTokens'[r.lsn] = r.imprint
    BY <1>1, <1>5 DEF AnReceipts, Imprint
  <2>2. /\ r.imprint = Imprint(r.lsn, r.imprint[2])
        /\ AnOfPrefix(r.lsn, r.imprint[2]) /\ anTokens[r.lsn] = r.imprint
    BY <2>1 DEF AnInv, AnReceipts
  <2>3. r.lsn \in 0..AnMaxLsn
    <3>1. PICK k \in DOMAIN anSealed : anSealed[k].max = r.lsn
      BY <2>2 DEF AnOfPrefix
    <3>2. anSealed[k].max \in Nat /\ anSealed[k].max < anActive
      BY AnSealedFacts DEF AnInv, AnChain
    <3> QED BY <3>1, <3>2, AnAssumption, SMTT(30) DEF AnInv, AnTyped
  <2>4. CASE r.lsn = anJob.lsn
    <3>1. r.imprint[2] = anJob.root
      BY <2>2, <2>4, <1>2, AnMaxGrows DEF AnInv, AnOfPrefix
    <3> QED BY <3>1, <2>2, <2>4, <1>4, <1>7
  <2>5. CASE r.lsn # anJob.lsn
    BY <2>2, <2>3, <2>5, <1>7
  <2> QED BY <2>2, <2>4, <2>5
<1> QED BY <1>5, <1>6, <1>8, <1>9 DEF AnInv

LEMMA AnManifestInv == ASSUME AnInv, append_manifest PROVE AnInv'
<1> DEFINE r == [lsn |-> anJob.lsn, imprint |-> Imprint(anJob.lsn, anJob.root)]
<1>1. /\ UNCHANGED <<anHead, anActive, anSealed, anTokens>>
      /\ anManifest' = Append(anManifest, r) /\ anLast' = anJob.lsn /\ anJob' = AnIdle
      /\ anJob.pc = "manifest" /\ anJob \in AnJobRec
  BY DEF append_manifest, AnInv, AnTyped
<1>2. /\ AnOfPrefix(anJob.lsn, anJob.root)
      /\ anTokens[anJob.lsn] = Imprint(anJob.lsn, anJob.root)
  BY <1>1 DEF AnInv, AnWorker
<1>3. /\ r \in [lsn : Nat, imprint : Nat \X Seq(AnSegment)] /\ r.lsn = anJob.lsn
      /\ r.imprint = Imprint(anJob.lsn, anJob.root) /\ r.imprint[2] = anJob.root
      /\ AnIdle \in AnJobRec /\ AnIdle.pc = "idle" /\ anJob.lsn \in Nat
  BY <1>1 DEF Imprint, AnJobRec, AnIdle
<1> HIDE DEF r
<1>4. AnChain' /\ \A lsn, root : AnOfPrefix(lsn, root)' = AnOfPrefix(lsn, root)
  BY <1>1, AnLogStays
<1> DEFINE R == [lsn : Nat, imprint : Nat \X Seq(AnSegment)]
<1>5. anManifest \in Seq(R) /\ r \in R
  BY <1>3 DEF AnInv, AnTyped
<1>6. /\ anManifest' \in Seq(R)
      /\ \A n \in DOMAIN anManifest' : \/ anManifest'[n] = r
                                       \/ n \in DOMAIN anManifest /\ anManifest'[n] = anManifest[n]
  <2> HIDE DEF R
  <2>1. anManifest' = Append(anManifest, r)
    BY <1>1
  <2> QED BY <1>5, <2>1
<1>7. AnTyped'
  BY <1>1, <1>3, <1>6 DEF AnInv, AnTyped
<1>8. AnWorker'
  BY <1>1, <1>3 DEF AnWorker
<1>9. AnReceipts'
  <2>1. SUFFICES ASSUME NEW n \in DOMAIN anManifest', NEW q, q = anManifest'[n]
                 PROVE  /\ q.imprint = Imprint(q.lsn, q.imprint[2])
                        /\ AnOfPrefix(q.lsn, q.imprint[2]) /\ anTokens[q.lsn] = q.imprint
    BY <1>1, <1>4 DEF AnReceipts, Imprint
  <2>2. CASE q = r
    BY <2>2, <1>2, <1>3
  <2>3. CASE n \in DOMAIN anManifest /\ q = anManifest[n]
    BY <2>3 DEF AnInv, AnReceipts
  <2> QED BY <2>1, <2>2, <2>3, <1>6
<1> QED BY <1>4, <1>7, <1>8, <1>9 DEF AnInv

LEMMA AnVerifiesAll == ASSUME AnInv PROVE ReceiptsVerify
<1>1. SUFFICES ASSUME NEW n \in DOMAIN anManifest, NEW r, r = anManifest[n]
               PROVE  /\ AnVerifies(r) /\ r.lsn < anActive
                      /\ UNION {s.base..s.max : s \in Range(r.imprint[2])} = 0..r.lsn
  BY DEF ReceiptsVerify
<1>2. /\ r.imprint = Imprint(r.lsn, r.imprint[2])
      /\ AnOfPrefix(r.lsn, r.imprint[2]) /\ anTokens[r.lsn] = r.imprint
  BY <1>1 DEF AnInv, AnReceipts
<1>3. PICK k \in DOMAIN anSealed : anSealed[k].max = r.lsn /\ r.imprint[2] = AnPrefix(k)
  BY <1>2 DEF AnOfPrefix
<1>4. commit_at(r.lsn) = AnPrefix(k)
  BY <1>3, AnCommits DEF AnInv
<1>5. AnVerifies(r) /\ r.lsn < anActive
  <2>1. anSealed[k].max < anActive
    BY DEF AnInv, AnChain
  <2>2. Imprint(r.lsn, commit_at(r.lsn)) = r.imprint
    BY <1>2, <1>3, <1>4, Zenon
  <2> QED BY <2>1, <2>2, <1>2, <1>3 DEF AnVerifies
<1>6. UNION {s.base..s.max : s \in Range(AnPrefix(k))} = 0..anSealed[k].max
  <2> DEFINE p == AnPrefix(k)
  <2>1. k \in 0..Len(anSealed)
    BY AnSealedFacts DEF AnInv
  <2>2. p \in Seq(AnSegment) /\ Len(p) = k /\ \A i \in 1..k : p[i] = anSealed[i]
    BY <2>1, AnSealedFacts DEF AnInv
  <2> HIDE DEF p
  <2>3. DOMAIN p = 1..k
    BY <2>2, LenProperties
  <2>4. Range(p) = {anSealed[i] : i \in 1..k}
    BY <2>2, <2>3 DEF Range
  <2>5. UNION {s.base..s.max : s \in {anSealed[i] : i \in 1..k}}
          = UNION {anSealed[i].base..anSealed[i].max : i \in 1..k}
    OBVIOUS
  <2>6. UNION {anSealed[i].base..anSealed[i].max : i \in 1..k} = 0..anSealed[k].max
    BY DEF AnInv, AnChain
  <2>7. UNION {s.base..s.max : s \in Range(p)} = 0..anSealed[k].max
    BY <2>4, <2>5, <2>6
  <2> QED BY <2>7 DEF p
<1> QED BY <1>3, <1>5, <1>6

\* A receipt verifies against the log as it grows, and covers all below its
\* watermark, for any number of records, rolls, anchors and crashes, where
\* the log seals no empty segment (ComplianceAnchor::anchor, verify_receipt).
THEOREM ReceiptsHold == ASSUME ~AnEmptyRolls PROVE AnSpec => []ReceiptsVerify
<1>1. AnInit => AnInv
  BY AnInitInv
<1>2. AnInv /\ [AnNext]_anVars => AnInv'
  <2>1. SUFFICES ASSUME AnInv, [AnNext]_anVars PROVE AnInv'
    OBVIOUS
  <2>2. CASE AnAppend \/ an_crash
    BY <2>1, <2>2, AnLogInv
  <2>3. CASE roll_segment
    BY <2>1, <2>3, AnRollInv
  <2>4. CASE an_tick
    BY <2>1, <2>4, AnTickInv
  <2>5. CASE an_commit
    BY <2>1, <2>5, AnCommitInv
  <2>6. CASE write_token
    BY <2>1, <2>6, AnTokenInv
  <2>7. CASE append_manifest
    BY <2>1, <2>7, AnManifestInv
  <2>8. CASE UNCHANGED anVars
    <3>1. UNCHANGED <<anHead, anActive, anSealed, anLast, anJob, anTokens, anManifest>>
      BY <2>8 DEF anVars
    <3>2. AnChain' /\ \A lsn, root : AnOfPrefix(lsn, root)' = AnOfPrefix(lsn, root)
      BY <2>1, <3>1, AnLogStays
    <3>3. AnTyped'
      BY <2>1, <3>1 DEF AnInv, AnTyped
    <3>4. AnWorker'
      BY <2>1, <3>1, <3>2 DEF AnInv, AnWorker, Imprint
    <3>5. AnReceipts'
      BY <2>1, <3>1, <3>2 DEF AnInv, AnReceipts, Imprint
    <3> QED BY <3>2, <3>3, <3>4, <3>5 DEF AnInv
  <2> QED BY <2>1, <2>2, <2>3, <2>4, <2>5, <2>6, <2>7, <2>8 DEF AnNext
<1>3. AnInv => ReceiptsVerify
  BY AnVerifiesAll
<1> QED BY <1>1, <1>2, <1>3, PTL DEF AnSpec
=============================================================================
