----------------------------- MODULE Anchoring -----------------------------
(***************************************************************************)
(* heraclitus-compliance: a worker anchors the sealed part of the log with *)
(* a timestamp token and keeps a receipt, which an auditor re-verifies     *)
(* against the live log at any later time.  The worker reads the catalogue *)
(* twice, the log goes on rolling segments meanwhile, the timestamping     *)
(* authority may fail, and the process may die between any two steps.      *)
(*                                                                         *)
(* A sealed segment is its range of LSNs; its Merkle root is that range    *)
(* (what a sealed segment holds never changes, see HrklLog), a commitment  *)
(* the sequence of the ranges it covers.                                   *)
(***************************************************************************)
EXTENDS Integers, Sequences, SequencesExt, FiniteSets, FiniteSetsExt, Selections

CONSTANTS AnStep,        \* min_lsn_step
          AnMaxLsn,      \* bound: records
          AnMaxCrashes,  \* bound: crashes
          AnEmptyRolls   \* whether the log may seal a segment without records

ASSUME AnAssumption == AnStep \in Nat /\ AnMaxLsn \in Nat /\ AnMaxCrashes \in Nat

VARIABLES anHead,      \* the next LSN
          anActive,    \* base_lsn of the active segment
          anSealed,    \* the sealed segments of the catalogue: [base, max], in order
          anLast,      \* WorkerState::last_lsn
          anJob,       \* the anchor going on: [pc, lsn, root]
          anTokens,    \* the .tst files: [lsn -> imprint stamped, or NoToken]
          anManifest,  \* manifest.jsonl: receipts [lsn, imprint]
          anCrashes
anVars == <<anHead, anActive, anSealed, anLast, anJob, anTokens, anManifest, anCrashes>>

NoToken == <<>>
AnIdle == [pc |-> "idle", lsn |-> 0, root |-> <<>>]

AnInit == /\ anHead = 0 /\ anActive = 0 /\ anSealed = <<>> /\ anLast = 0 /\ anJob = AnIdle
          /\ anTokens = [l \in 0..AnMaxLsn |-> NoToken]
          /\ anManifest = <<>> /\ anCrashes = 0

AnAppend == /\ anHead < AnMaxLsn /\ anHead' = anHead + 1
            /\ UNCHANGED <<anActive, anSealed, anLast, anJob, anTokens, anManifest, anCrashes>>

\* roll_segment: an empty segment is sealed with max_lsn = base_lsn.
roll_segment ==
    /\ IF anHead > anActive
       THEN anSealed' = Append(anSealed, [base |-> anActive, max |-> anHead - 1])
       ELSE /\ AnEmptyRolls /\ anHead < AnMaxLsn
            /\ anActive \notin {anSealed[i].base : i \in DOMAIN anSealed}
            /\ anSealed' = Append(anSealed, [base |-> anActive, max |-> anActive])
    /\ anActive' = anHead
    /\ UNCHANGED <<anHead, anLast, anJob, anTokens, anManifest, anCrashes>>

current_watermark == IF anSealed = <<>> THEN 0 ELSE Max({anSealed[i].max : i \in DOMAIN anSealed})
\* (mutant: the segments that begin below the watermark)
commit_at_base(lsn) == SelectAt(anSealed, {i \in DOMAIN anSealed : anSealed[i].base <= lsn + 1})
commit_at(lsn) == SelectAt(anSealed, {i \in DOMAIN anSealed : anSealed[i].max <= lsn})
\* message_imprint_sha256 binds the watermark and the root.
Imprint(lsn, root) == <<lsn, root>>

\* tick: the watermark, and whether it has advanced enough.
an_tick ==
    LET wm == current_watermark
    IN  /\ anJob.pc = "idle"
        /\ wm > 0 /\ wm > anLast /\ wm >= anLast + AnStep
        /\ anJob' = [pc |-> "commit", lsn |-> wm, root |-> <<>>]
        /\ UNCHANGED <<anHead, anActive, anSealed, anLast, anTokens, anManifest, anCrashes>>
\* anchor: the commitment of the catalogue as it is by now, stamped or not.
an_commit ==
    /\ anJob.pc = "commit"
    /\ anJob' \in {[anJob EXCEPT !.pc = "token", !.root = commit_at(anJob.lsn)], AnIdle}
    /\ UNCHANGED <<anHead, anActive, anSealed, anLast, anTokens, anManifest, anCrashes>>
\* persist: the token file, then the line of the manifest.
write_token ==
    /\ anJob.pc = "token"
    /\ anTokens' = [anTokens EXCEPT ![anJob.lsn] = Imprint(anJob.lsn, anJob.root)]
    /\ anJob' = [anJob EXCEPT !.pc = "manifest"]
    /\ UNCHANGED <<anHead, anActive, anSealed, anLast, anManifest, anCrashes>>
append_manifest ==
    /\ anJob.pc = "manifest"
    /\ anManifest' = Append(anManifest, [lsn |-> anJob.lsn, imprint |-> Imprint(anJob.lsn, anJob.root)])
    /\ anLast' = anJob.lsn /\ anJob' = AnIdle
    /\ UNCHANGED <<anHead, anActive, anSealed, anTokens, anCrashes>>

\* The active segment keeps what was synced of it; the worker starts over.
an_crash ==
    /\ anCrashes < AnMaxCrashes /\ anCrashes' = anCrashes + 1
    /\ anHead' \in anActive..anHead
    /\ anLast' = 0 /\ anJob' = AnIdle
    /\ UNCHANGED <<anActive, anSealed, anTokens, anManifest>>

AnNext == \/ AnAppend \/ roll_segment \/ an_tick \/ an_commit \/ write_token
          \/ append_manifest \/ an_crash
AnSpec == AnInit /\ [][AnNext]_anVars
-----------------------------------------------------------------------------
\* verify_receipt: the commitment recomputed now, and the token of that imprint.
AnVerifies(r) == /\ Imprint(r.lsn, commit_at(r.lsn)) = r.imprint
                 /\ anTokens[r.lsn] = r.imprint

(***************************************************************************)
(* Every receipt of the manifest verifies against the log as it is now and *)
(* covers every record up to its watermark: neither a segment sealed       *)
(* between the two reads of the catalogue, nor one sealed later, nor an    *)
(* anchor repeated after a crash makes an untouched log look altered or    *)
(* leaves a record out (heraclitus-compliance/src/lib.rs:171, commit.rs:23)*)
(* It needs AnEmptyRolls = FALSE: an empty segment is sealed with the LSN  *)
(* of the next record as its maximum.                                      *)
(***************************************************************************)
ReceiptsVerify ==
    \A i \in DOMAIN anManifest :
        LET r == anManifest[i]
        IN  /\ AnVerifies(r) /\ r.lsn < anActive
            /\ UNION {s.base..s.max : s \in Range(r.imprint[2])} = 0..r.lsn
=============================================================================
