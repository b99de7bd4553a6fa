---------------------------- MODULE SnapshotPins ----------------------------
(***************************************************************************)
(* SnapshotManager of heraclitus-txn/src/lib.rs: snapshots pin the head    *)
(* they were opened at, and the watermark they leave is the floor below    *)
(* which a compaction may discard.  begin and release hold the mutex of    *)
(* the pin table; advance_head and watermark are atomic operations beside  *)
(* it.  A reader releases a snapshot once (a Snapshot is a Copy value, so  *)
(* the type does not enforce that).                                        *)
(***************************************************************************)
EXTENDS Integers, FiniteSets

CONSTANTS SpReaders,  \* threads that open and release snapshots
          SpMaxHead   \* bound: the head

VARIABLES spHead,       \* current_lsn
          spWatermark,  \* watermark_lsn
          spActive,     \* the pin table: [target -> readers that pin it]
          spLock,       \* who holds the mutex, or Nobody
          spReader,     \* [reader -> [pc, target]]
          spFloor       \* the highest watermark a compaction has read
spVars == <<spHead, spWatermark, spActive, spLock, spReader, spFloor>>

Nobody == "nobody"
ASSUME SpAssumption ==
    /\ IsFiniteSet(SpReaders) /\ Nobody \notin SpReaders /\ SpMaxHead \in Nat

SpInit == /\ spHead = 0 /\ spWatermark = 0 /\ spLock = Nobody /\ spFloor = 0
          /\ spActive = [t \in 0..SpMaxHead |-> 0]
          /\ spReader = [r \in SpReaders |-> [pc |-> "none", target |-> 0]]

SpLeast(active, default) ==
    LET pinned == {t \in 0..SpMaxHead : active[t] > 0}
    IN  IF pinned = {} THEN default ELSE CHOOSE t \in pinned : \A u \in pinned : t <= u

\* begin, up to the load of the target: the mutex is taken first.
\* (mutant: the target is loaded and the mutex taken afterwards)
BeginLock_late(r) == spLock' = spLock
BeginLock(r) == spLock = Nobody /\ spLock' = r
SpBegin(r) ==
    /\ spReader[r].pc = "none" /\ BeginLock(r)
    /\ spReader' = [spReader EXCEPT ![r] = [pc |-> "loaded", target |-> spHead]]
    /\ UNCHANGED <<spHead, spWatermark, spActive, spFloor>>

\* begin, from there on: the pin, the watermark, the snapshot.
SpPin(r) ==
    /\ spReader[r].pc = "loaded" /\ spLock \in {r, Nobody}
    /\ spActive' = [spActive EXCEPT ![spReader[r].target] = @ + 1]
    /\ spWatermark' = SpLeast(spActive', spReader[r].target)
    /\ spReader' = [spReader EXCEPT ![r] = [pc |-> "held", target |-> @.target]]
    /\ spLock' = Nobody
    /\ UNCHANGED <<spHead, spFloor>>

\* release: the pin goes, and the head is loaded for an empty table.
SpRelease(r) ==
    /\ spReader[r].pc = "held" /\ spLock = Nobody
    /\ spActive' = [spActive EXCEPT ![spReader[r].target] = @ - 1]
    /\ spReader' = [spReader EXCEPT ![r] = [pc |-> "released", target |-> SpLeast(spActive', spHead)]]
    /\ spLock' = r
    /\ UNCHANGED <<spHead, spWatermark, spFloor>>
SpStore(r) ==
    /\ spReader[r].pc = "released"
    /\ spWatermark' = spReader[r].target
    /\ spReader' = [spReader EXCEPT ![r] = [pc |-> "none", target |-> 0]]
    /\ spLock' = Nobody
    /\ UNCHANGED <<spHead, spActive, spFloor>>

advance_head == /\ spHead' \in (spHead + 1)..SpMaxHead
                /\ UNCHANGED <<spWatermark, spActive, spLock, spReader, spFloor>>
sp_watermark == /\ spFloor' = IF spWatermark > spFloor THEN spWatermark ELSE spFloor
                /\ UNCHANGED <<spHead, spWatermark, spActive, spLock, spReader>>

SpNext == \/ \E r \in SpReaders : SpBegin(r) \/ SpPin(r) \/ SpRelease(r) \/ SpStore(r)
          \/ advance_head \/ sp_watermark
SpSpec == SpInit /\ [][SpNext]_spVars
-----------------------------------------------------------------------------
(***************************************************************************)
(* No floor a compaction was ever given is above the head a held snapshot  *)
(* reads at: what a snapshot can see is never discarded, whatever order    *)
(* the loads, the pins and the stores of other readers and of the writer   *)
(* fall in (heraclitus-txn/src/lib.rs:181-216).                            *)
(***************************************************************************)
FloorBelowSnapshots ==
    \A r \in SpReaders : spReader[r].pc = "held" => spFloor <= spReader[r].target
=============================================================================
