------------------------------ MODULE ColdTier ------------------------------
(***************************************************************************)
(* The cold tier: heraclitus-tier/src/lib.rs and the server's use of it    *)
(* (heraclitus-server/src/engine.rs:613-754, the task of lib.rs:212).  A   *)
(* sealed segment is demoted: its bytes and a columnar mirror are put in   *)
(* the object store, then a receipt with their Merkle root is appended to  *)
(* the log.  A compaction tick rewrites the object of the newest receipt   *)
(* without the tombstoned records and appends a new receipt.  Demotions    *)
(* come from the REST interface while the tick runs, and the process may   *)
(* die between any two of these steps.                                     *)
(*                                                                         *)
(* One segment, with the records CtRecords (their LSNs); a Merkle root is  *)
(* the set of records it was computed from; an object's path is its        *)
(* generation: 0 for cold/id.hrkl, n for cold/id-cn.hrkl.                  *)
(***************************************************************************)
EXTENDS Integers, Sequences, FiniteSets, FiniteSetsExt

CONSTANTS CtRecords,        \* LSNs of the segment's records
          CtRatio,          \* delta_ratio_threshold, in percent
          CtMinRecords,     \* min_records of the policy
          CtMaxReceipts,    \* bound: receipts in the log
          CtMaxCrashes      \* bound: crashes

ASSUME CtAssumption ==
    /\ CtRecords \subseteq Nat /\ CtRecords # {} /\ IsFiniteSet(CtRecords)
    /\ CtRatio \in Nat /\ CtMinRecords \in Nat
    /\ CtMaxReceipts \in Nat \ {0} /\ CtMaxCrashes \in Nat

VARIABLES ctObjects,     \* [generation -> records of the .hrkl, or NoObject]
          ctMirrors,     \* the same for the Parquet mirrors
          ctReceipts,    \* the DemotionReceipt events of the log, in order
          ctTombstoned,  \* LSNs that a tombstone_of in the log names
          ctDemote,      \* the demotion going on: [pc, receipt]
          ctTick,        \* the compaction going on
          ctCrashes
ctVars == <<ctObjects, ctMirrors, ctReceipts, ctTombstoned, ctDemote, ctTick, ctCrashes>>

NoObject == {-1}
CtGenerations == 0..CtMaxReceipts
CtReceipt == [gen |-> 0, root |-> CtRecords, min |-> Min(CtRecords), max |-> Max(CtRecords), dropped |-> 0]
CtIdle == [pc |-> "idle", receipt |-> CtReceipt]

CtInit == /\ ctObjects = [g \in CtGenerations |-> NoObject]
          /\ ctMirrors = ctObjects
          /\ ctReceipts = <<>> /\ ctTombstoned = {}
          /\ ctDemote = CtIdle /\ ctTick = CtIdle /\ ctCrashes = 0

CtTombstone == /\ \E lsn \in CtRecords \ ctTombstoned : ctTombstoned' = ctTombstoned \cup {lsn}
               /\ UNCHANGED <<ctObjects, ctMirrors, ctReceipts, ctDemote, ctTick, ctCrashes>>

\* Both materialisations put the object, then the mirror, then append.
CtPutObject(job) ==
    /\ job.pc = "object"
    /\ ctObjects' = [ctObjects EXCEPT ![job.receipt.gen] = job.receipt.root]
    /\ UNCHANGED <<ctMirrors, ctReceipts>>
CtPutMirror(job) ==
    /\ job.pc = "mirror"
    /\ ctMirrors' = [ctMirrors EXCEPT ![job.receipt.gen] = job.receipt.root]
    /\ UNCHANGED <<ctObjects, ctReceipts>>
CtAppendReceipt(job) ==
    /\ job.pc = "append" /\ Len(ctReceipts) < CtMaxReceipts
    /\ ctReceipts' = Append(ctReceipts, job.receipt)
    /\ UNCHANGED <<ctObjects, ctMirrors>>
AfterStep(job) == [job EXCEPT !.pc = CASE @ = "object" -> "mirror"
                                       [] @ = "mirror" -> "append"
                                       [] @ = "append" -> "idle"]
CtStep(job) == CtPutObject(job) \/ CtPutMirror(job) \/ CtAppendReceipt(job)

\* demote_prepared and Engine::demote_segment: the segment as the log has it.
demote_prepared ==
    /\ ctDemote.pc = "idle" /\ Len(ctReceipts) < CtMaxReceipts
    /\ ctDemote' = [pc |-> "object", receipt |-> CtReceipt]
    /\ UNCHANGED <<ctObjects, ctMirrors, ctReceipts, ctTombstoned, ctTick, ctCrashes>>
demote_segment ==
    /\ CtStep(ctDemote) /\ ctDemote' = AfterStep(ctDemote)
    /\ UNCHANGED <<ctTombstoned, ctTick, ctCrashes>>

\* tier_compaction_tick: the newest receipt, and what all of them dropped.
Latest == ctReceipts[Len(ctReceipts)]
dropped_so_far == FoldFunction(LAMBDA r, n : n + r.dropped, 0, ctReceipts)
in_range == Cardinality({l \in ctTombstoned : Latest.min <= l /\ l <= Latest.max})
still_present == IF in_range > dropped_so_far THEN in_range - dropped_so_far ELSE 0
should_compact(deleted, total) ==
    total >= CtMinRecords /\ total > 0 /\ 100 * deleted >= CtRatio * total

\* (mutant: the generation of the compacted object is that of its source)
CtGeneration_same(gen) == gen
CtGeneration(gen) == gen + 1
\* compact_cold_prepared: the records of the source that have no tombstone.
CtCompacted(r) ==
    LET source == ctObjects[r.gen]
        kept == source \ ctTombstoned
    IN  [gen |-> CtGeneration(r.gen), root |-> kept,
         min |-> IF kept = {} THEN r.min ELSE Min(kept),
         max |-> IF kept = {} THEN r.max ELSE Max(kept),
         dropped |-> Cardinality(source \ kept)]
tier_compaction_tick ==
    /\ ctTick.pc = "idle" /\ ctReceipts # <<>> /\ Len(ctReceipts) < CtMaxReceipts
    /\ ctTombstoned # {}
    /\ should_compact(still_present, Cardinality(Latest.root))
    /\ ctTick' = [pc |-> "object", receipt |-> CtCompacted(Latest)]
    /\ UNCHANGED <<ctObjects, ctMirrors, ctReceipts, ctTombstoned, ctDemote, ctCrashes>>
compact_cold_prepared ==
    /\ CtStep(ctTick) /\ ctTick' = AfterStep(ctTick)
    /\ UNCHANGED <<ctTombstoned, ctDemote, ctCrashes>>

CtCrash == /\ ctCrashes < CtMaxCrashes
           /\ ctCrashes' = ctCrashes + 1
           /\ ctDemote' = CtIdle /\ ctTick' = CtIdle
           /\ UNCHANGED <<ctObjects, ctMirrors, ctReceipts, ctTombstoned>>

CtNext == \/ CtTombstone \/ demote_prepared \/ demote_segment
          \/ tier_compaction_tick \/ compact_cold_prepared \/ CtCrash
CtSpec == CtInit /\ [][CtNext]_ctVars
-----------------------------------------------------------------------------
\* verify_receipt and fetch_cold: the object has the count and root of the receipt.
CtVerifies(r) == ctObjects[r.gen] = r.root

(***************************************************************************)
(* The newest receipt of a demoted segment can always be fetched: its      *)
(* object has its root, its mirror the same rows, and of the segment only  *)
(* tombstoned records are missing, whatever re-demotions, compactions and  *)
(* crashes came between (heraclitus-tier/src/lib.rs:228, engine.rs:692).   *)
(***************************************************************************)
NewestReceiptWhole ==
    ctReceipts # <<>> =>
        /\ CtVerifies(Latest)
        /\ ctMirrors[Latest.gen] = Latest.root
        /\ CtRecords \ Latest.root \subseteq ctTombstoned

(***************************************************************************)
(* What the trigger counts is what a compaction would drop                 *)
(* (engine.rs:640-645).  It holds until a compaction drops the first or    *)
(* the last record: the range of the next receipt no longer holds what was *)
(* dropped, which is subtracted all the same.                              *)
(***************************************************************************)
StillPresentExact ==
    ctReceipts # <<>> => still_present = Cardinality(Latest.root \cap ctTombstoned)

\* Every receipt verifies, not only the newest: it fails after a re-demotion.
EveryReceiptVerifies == \A i \in DOMAIN ctReceipts : CtVerifies(ctReceipts[i])
=============================================================================
