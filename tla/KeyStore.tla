------------------------------ MODULE KeyStore ------------------------------
(***************************************************************************)
(* The key store of heraclitus-crypto for one agent, and the two users the *)
(* log makes of it: an append seals a record with get_or_create            *)
(* (heraclitus-log/src/lib.rs:900, :372) and a read opens it with get      *)
(* (decrypt_storage_episode_in_place).  Calls run on several threads and   *)
(* interleave at every file operation; a crypto-shred destroys the key; a  *)
(* process crash empties the cache and may leave a key file with no bytes. *)
(*                                                                         *)
(* Keys are numbered from 1 in the order they are drawn.                   *)
(***************************************************************************)
EXTENDS Integers, Sequences

CONSTANTS KsSealers,     \* threads that append (callers of the v6 engine, or the worker)
          KsReaders,     \* threads that read
          KsMaxRecords,  \* bound: records in the log
          KsMaxShreds,   \* bound: crypto-shreds
          KsMaxCrashes,  \* bound: process crashes
          KsOverlap      \* whether other calls may run while a shred does

ASSUME KsAssumption ==
    /\ KsMaxRecords \in Nat /\ KsMaxShreds \in Nat /\ KsMaxCrashes \in Nat
    /\ KsOverlap \in BOOLEAN

VARIABLES ksFile,    \* the key file: NoKey (no file), EmptyKeyFile or a key
          ksCache,   \* the DashMap entry of the agent: NoKey or a key
          ksSeal,    \* [sealer -> where its get_or_create stands, and the key it holds]
          ksRead,    \* [reader -> where its get stands, the record it opens, its result]
          ksShred,   \* where the shred stands
          ksLog,     \* the sealed records: the key, and the shreds done before it was sealed
          ksDrawn,   \* keys drawn so far
          ksShreds,  \* keys overwritten by shreds so far
          ksCrashes
ksVars == <<ksFile, ksCache, ksSeal, ksRead, ksShred, ksLog, ksDrawn, ksShreds, ksCrashes>>

ZeroKey == 0      \* the 32 zero bytes that shred writes over a key
NoKey == -1
EmptyKeyFile == -2   \* a file created and not yet written
KsIdle == [pc |-> "idle", key |-> NoKey]
KsNoRead == [pc |-> "idle", key |-> NoKey, rec |-> 0, result |-> "none"]

KsInit ==
    /\ ksFile = NoKey /\ ksCache = NoKey /\ ksShred = "idle"
    /\ ksSeal = [s \in KsSealers |-> KsIdle]
    /\ ksRead = [r \in KsReaders |-> KsNoRead]
    /\ ksLog = <<>> /\ ksDrawn = 0 /\ ksShreds = 0 /\ ksCrashes = 0

\* read_key: only a file of 32 bytes holds a key.
read_key == IF ksFile = EmptyKeyFile THEN NoKey ELSE ksFile

KsMayCall == KsOverlap \/ ksShred = "idle"
KsQuiet == /\ \A s \in KsSealers : ksSeal[s].pc = "idle"
           /\ \A r \in KsReaders : ksRead[r].pc = "idle"

\* get_or_create: the cache, then the file, then an attempt to create it.
get_or_create(s) ==
    /\ ksSeal[s].pc = "idle" /\ KsMayCall /\ Len(ksLog) < KsMaxRecords
    /\ ksSeal' = [ksSeal EXCEPT ![s] =
           IF ksCache # NoKey THEN [pc |-> "seal", key |-> ksCache]
           ELSE IF read_key # NoKey THEN [pc |-> "insert", key |-> read_key]
           ELSE [pc |-> "create", key |-> NoKey]]
    /\ UNCHANGED <<ksFile, ksCache, ksRead, ksShred, ksLog, ksDrawn, ksShreds, ksCrashes>>

\* create_new decides who draws the key: whoever finds the file waits for it.
create_new_rename(s) == /\ ksFile' = IF ksFile = NoKey THEN EmptyKeyFile ELSE ksFile
                        /\ ksSeal' = [ksSeal EXCEPT ![s].pc = "write"]
create_new(s) ==
    IF ksFile = NoKey THEN /\ ksFile' = EmptyKeyFile
                            /\ ksSeal' = [ksSeal EXCEPT ![s].pc = "write"]
                       ELSE /\ ksSeal' = [ksSeal EXCEPT ![s].pc = "wait"]
                            /\ UNCHANGED ksFile
KsCreate(s) ==
    /\ ksSeal[s].pc = "create" /\ create_new(s)
    /\ UNCHANGED <<ksCache, ksRead, ksShred, ksLog, ksDrawn, ksShreds, ksCrashes>>

\* The winner draws a key and writes it.  If a shred has unlinked the file in
\* the meantime, the bytes go to a file that has no name any more.
KsWrite(s) ==
    /\ ksSeal[s].pc = "write"
    /\ ksDrawn' = ksDrawn + 1
    /\ ksFile' = IF ksFile = NoKey THEN NoKey ELSE ksDrawn'
    /\ ksSeal' = [ksSeal EXCEPT ![s] = [pc |-> "insert", key |-> ksDrawn']]
    /\ UNCHANGED <<ksCache, ksRead, ksShred, ksLog, ksShreds, ksCrashes>>

\* The loser polls for the winner's key for a while and then gives up.
KsWait(s) ==
    /\ ksSeal[s].pc = "wait"
    /\ ksSeal' = [ksSeal EXCEPT ![s] =
           IF read_key # NoKey THEN [pc |-> "insert", key |-> read_key] ELSE KsIdle]
    /\ UNCHANGED <<ksFile, ksCache, ksRead, ksShred, ksLog, ksDrawn, ksShreds, ksCrashes>>

KsInsert(s) ==
    /\ ksSeal[s].pc = "insert"
    /\ ksCache' = ksSeal[s].key
    /\ ksSeal' = [ksSeal EXCEPT ![s].pc = "seal"]
    /\ UNCHANGED <<ksFile, ksRead, ksShred, ksLog, ksDrawn, ksShreds, ksCrashes>>

\* The caller seals its record with the key and appends it.
seal(s) ==
    /\ ksSeal[s].pc = "seal"
    /\ ksLog' = IF Len(ksLog) < KsMaxRecords
                THEN Append(ksLog, [key |-> ksSeal[s].key, shreds |-> ksShreds]) ELSE ksLog
    /\ ksSeal' = [ksSeal EXCEPT ![s] = KsIdle]
    /\ UNCHANGED <<ksFile, ksCache, ksRead, ksShred, ksDrawn, ksShreds, ksCrashes>>

\* decrypt_storage_episode_in_place: no key is a shredded record, another key
\* than the one that sealed it is an error.
Decrypt(key, i) == IF key = NoKey THEN "shredded"
                   ELSE IF key = ksLog[i].key THEN "plain" ELSE "error"

KsRead(r) ==
    \E i \in DOMAIN ksLog :
        /\ ksRead[r].pc = "idle" /\ KsMayCall
        /\ IF ksCache # NoKey \/ read_key = NoKey
           THEN ksRead' = [ksRead EXCEPT ![r] =
                    [pc |-> "idle", key |-> NoKey, rec |-> i, result |-> Decrypt(ksCache, i)]]
           ELSE ksRead' = [ksRead EXCEPT ![r] =
                    [pc |-> "insert", key |-> read_key, rec |-> i, result |-> "none"]]
        /\ UNCHANGED <<ksFile, ksCache, ksSeal, ksShred, ksLog, ksDrawn, ksShreds, ksCrashes>>

\* get has read the file and now puts the key in the cache.
KsReadInsert(r) ==
    /\ ksRead[r].pc = "insert"
    /\ ksCache' = ksRead[r].key
    /\ ksRead' = [ksRead EXCEPT ![r] = [pc |-> "idle", key |-> @.key, rec |-> @.rec,
                                         result |-> Decrypt(@.key, @.rec)]]
    /\ UNCHANGED <<ksFile, ksSeal, ksShred, ksLog, ksDrawn, ksShreds, ksCrashes>>

\* shred: forget the cached key, overwrite the file with zeros, remove it.
shred_key ==
    /\ ksShred = "idle" /\ ksShreds < KsMaxShreds /\ (KsOverlap \/ KsQuiet)
    /\ ksCache' = NoKey
    /\ ksShred' = "exists"
    /\ UNCHANGED <<ksFile, ksSeal, ksRead, ksLog, ksDrawn, ksShreds, ksCrashes>>
KsOverwrite ==
    /\ ksShred = "exists"
    /\ IF ksFile = NoKey THEN ksShred' = "idle" /\ UNCHANGED <<ksFile, ksShreds>>
       ELSE /\ ksShred' = "remove"
            /\ ksShreds' = ksShreds + 1
            /\ ksFile' = IF ksFile = EmptyKeyFile THEN EmptyKeyFile ELSE ZeroKey
    /\ UNCHANGED <<ksCache, ksSeal, ksRead, ksLog, ksDrawn, ksCrashes>>
KsRemove ==
    /\ ksShred = "remove"
    /\ ksFile' = NoKey /\ ksShred' = "idle"
    /\ UNCHANGED <<ksCache, ksSeal, ksRead, ksLog, ksDrawn, ksShreds, ksCrashes>>

\* The process dies and starts again.  A boot after an interrupted erasure
\* rebuilds the views (EngineViews) and does not call the key store again.
KsCrash ==
    /\ ksCrashes < KsMaxCrashes
    /\ ksCrashes' = ksCrashes + 1
    /\ ksCache' = NoKey
    /\ ksSeal' = [s \in KsSealers |-> KsIdle]
    /\ ksRead' = [r \in KsReaders |-> KsNoRead]
    /\ ksShred' = "idle"
    /\ UNCHANGED <<ksFile, ksLog, ksDrawn, ksShreds>>

KsNext ==
    \/ \E s \in KsSealers : \/ get_or_create(s) \/ KsCreate(s) \/ KsWrite(s)
                            \/ KsWait(s) \/ KsInsert(s) \/ seal(s)
    \/ \E r \in KsReaders : KsRead(r) \/ KsReadInsert(r)
    \/ shred_key \/ KsOverwrite \/ KsRemove \/ KsCrash
KsSpec == KsInit /\ [][KsNext]_ksVars
-----------------------------------------------------------------------------
\* The key a read would use now.
KsEffective == IF ksCache # NoKey THEN ksCache ELSE read_key

(***************************************************************************)
(* A record sealed since the last shred opens now and after a restart: the *)
(* key that sealed it is the one on disk and no other is cached.  A record *)
(* sealed before opens neither from the cache nor from the disk.  Two      *)
(* first appends at once must therefore agree on one key                   *)
(* (heraclitus-crypto/src/lib.rs:129), and a shred must leave nothing      *)
(* behind in the cache (:192).  The zeros an interrupted shred leaves are  *)
(* a key like any other until the next shred; ShreddedStaysUnreadable is   *)
(* about them.                                                             *)
(***************************************************************************)
KeyMatchesRecords ==
    ksShred = "idle" =>
        \A i \in DOMAIN ksLog :
            IF ksLog[i].shreds = ksShreds
            THEN ksFile = ksLog[i].key /\ KsEffective = ksLog[i].key
            ELSE ksLog[i].key # ZeroKey =>
                     ksFile # ksLog[i].key /\ KsEffective # ksLog[i].key

(***************************************************************************)
(* "Destroy the key file and that agent's ciphertext becomes permanently   *)
(* unreadable" (heraclitus-crypto/src/lib.rs:7).  It fails: a process that *)
(* dies between the overwrite and the removal (:205-:208) leaves 32 zero   *)
(* bytes, which read_key takes for a key.  What is sealed with it opens    *)
(* again whenever a later shred is interrupted at the same place.          *)
(***************************************************************************)
ShreddedStaysUnreadable ==
    ksShred = "idle" =>
        \A i \in DOMAIN ksLog : ksLog[i].shreds < ksShreds => KsEffective # ksLog[i].key

(***************************************************************************)
(* Every record can be read for ever, as what it was or as shredded:       *)
(* heraclitus-log/src/lib.rs:444 calls a destroyed key the normal semantics*)
(* of crypto-shredding and not a corruption.  It fails: an append of the   *)
(* same agent after a shred draws a new key, and the old records then fail *)
(* to open with it, as does every scan or replay that meets one.           *)
(***************************************************************************)
EveryRecordReads == \A r \in KsReaders : ksRead[r].result # "error"
=============================================================================
