-------------------------------- MODULE Hvm --------------------------------
(***************************************************************************)
(* The H-VM ledger (heraclitus-core/vm, heraclitus-log/vm_bridge.rs, hvm_* *)
(* of engine.rs and rest.rs): upserts and deletes are instructions, each a *)
(* frame in an ordinary record of the log; the state is the fold of the    *)
(* frames, replayed by whoever asks while others append, and checkpointed  *)
(* into a file by way of a temporary one.                                  *)
(*                                                                         *)
(* A frame is a sequence of numbers, one for each field of fixed size and  *)
(* one for each byte of a key or value.  An append and its publication are *)
(* one step (HrklLog has them apart).                                      *)
(***************************************************************************)
EXTENDS Integers, Sequences, SequencesExt, FiniteSets, FiniteSetsExt

CONSTANTS HvWriters,     \* threads inside hvm_upsert and hvm_delete
          HvReplayers,   \* threads inside hvm_state and hvm_checkpoint
          HvKeys, HvVals, \* byte strings
          HvMaxLog,      \* bound: records
          HvMaxFiles,    \* bound: temporary files created
          HvBatch,       \* records of a window of replay_vm
          HvMaxCrashes   \* bound: process crashes

VARIABLES hvLog,     \* the records: [kind, content]
          hvLock,    \* the writer that holds Engine::hvm_lock, or HvNobody
          hvStamp,   \* [writer -> the head it has read, or NoStamp]
          hvReplay,  \* [replayer -> where its replay or checkpoint stands]
          hvFiles,   \* the files: [map: keys written, committed: keys of its superblock]
          hvTmp,     \* hvm.tmp: an index of hvFiles, or 0
          hvPath,    \* hvm.hbt: an index of hvFiles, or 0
          hvCrashes
hvVars == <<hvLog, hvLock, hvStamp, hvReplay, hvFiles, hvTmp, hvPath, hvCrashes>>
-----------------------------------------------------------------------------
(* The codec.                                                              *)

OP_UPSERT_LE == 1
OP_DELETE_LE == 2
OP_SPLIT_LT == 257
HEADER_LEN == 3
VmError == [op |-> 0]

put_bytes(b) == <<Len(b)>> \o b
encode_payload(i) ==
    CASE i.op = OP_UPSERT_LE -> <<i.lsn, i.id>> \o put_bytes(i.key) \o put_bytes(i.val)
      [] i.op = OP_DELETE_LE -> <<i.lsn, i.id>> \o put_bytes(i.key)
      [] i.op = OP_SPLIT_LT -> <<i.lsn, i.shard, i.new>> \o put_bytes(i.key)
Framed(op, payload) == <<op, 1, Len(payload)>> \o payload
encode(i) == Framed(i.op, encode_payload(i))

\* Reader::var_bytes from a position: nothing past the payload.
Fits(p, at) == at <= Len(p) /\ at + p[at] <= Len(p)
var_bytes(p, at) == SubSeq(p, at + 1, at + p[at])
After(p, at) == at + p[at]
\* (mutant: bytes after the fields are ignored)
Consumed_loose(p, at) == Fits(p, at)
Consumed(p, at) == Fits(p, at) /\ After(p, at) = Len(p)
decode_payload(op, p) ==
    CASE op = OP_UPSERT_LE /\ Fits(p, 3) /\ Consumed(p, After(p, 3) + 1) ->
           [op |-> op, lsn |-> p[1], id |-> p[2], key |-> var_bytes(p, 3),
            val |-> var_bytes(p, After(p, 3) + 1)]
      [] op = OP_DELETE_LE /\ Consumed(p, 3) ->
           [op |-> op, lsn |-> p[1], id |-> p[2], key |-> var_bytes(p, 3)]
      [] op = OP_SPLIT_LT /\ Consumed(p, 4) ->
           [op |-> op, lsn |-> p[1], shard |-> p[2], new |-> p[3], key |-> var_bytes(p, 4)]
      [] OTHER -> VmError
FrameEnd(b) == HEADER_LEN + b[3]
decode(b) ==
    IF Len(b) < HEADER_LEN \/ Len(b) < FrameEnd(b) THEN VmError
    ELSE decode_payload(b[1], SubSeq(b, HEADER_LEN + 1, FrameEnd(b)))
\* decode_stream from position n on: the instructions, the last one an error
\* if the buffer does not end with a frame.
decode_stream(b) ==
    LET f[n \in 1..(Len(b) + 1)] ==
          IF n > Len(b) THEN <<>>
          ELSE LET rest == SubSeq(b, n, Len(b))  i == decode(rest)
               IN  IF i = VmError THEN <<VmError>> ELSE <<i>> \o f[n + FrameEnd(rest)]
    IN  f[1]
-----------------------------------------------------------------------------
(* The reducer.                                                            *)

VmDefault == [current |-> 0, max |-> 0, layers |-> {}, routes |-> {}]
PutIn(map, k, v) == {e \in map : e.key # k} \cup {[key |-> k, val |-> v]}
reduce_step(s, i) ==
    LET at == [s EXCEPT !.current = i.lsn, !.max = Max({@, i.lsn})]
    IN  CASE i.op = OP_UPSERT_LE -> [at EXCEPT !.layers = PutIn(@, i.key, i.val)]
          [] i.op = OP_DELETE_LE -> [at EXCEPT !.layers = {e \in @ : e.key # i.key}]
          [] i.op = OP_SPLIT_LT -> [at EXCEPT !.routes = PutIn(@, i.key, i.new)]
-----------------------------------------------------------------------------
HvNobody == "none"
NoStamp == -1
EmptyFile == [map |-> {}, committed |-> {}]
NoReplay == [pc |-> "idle", checkpoint |-> FALSE, head |-> 0, cur |-> 0, state |-> VmDefault,
             left |-> {}, file |-> 0]
HvInit == /\ hvLog = <<>> /\ hvLock = HvNobody
          /\ hvStamp = [w \in HvWriters |-> NoStamp]
          /\ hvReplay = [r \in HvReplayers |-> NoReplay]
          /\ hvFiles = <<>> /\ hvTmp = 0 /\ hvPath = 0 /\ hvCrashes = 0

\* A record of another kind; a client that says hvm_isa is refused.
HvAppend == /\ Len(hvLog) < HvMaxLog
            /\ \E kind \in {"observation", "hvm_isa"} :
                  /\ kind # "hvm_isa"
                  /\ hvLog' = Append(hvLog, [kind |-> kind, content |-> <<>>])
            /\ UNCHANGED <<hvLock, hvStamp, hvReplay, hvFiles, hvTmp, hvPath, hvCrashes>>

\* (mutant: no lock over the head and the append)
hvm_lock_free_always == TRUE
hvm_lock_free == hvLock = HvNobody
\* hvm_upsert and hvm_delete: the head is the stamp of the instruction ...
hvm_write(w) ==
    /\ hvStamp[w] = NoStamp /\ hvm_lock_free /\ hvLock' = w
    /\ hvStamp' = [hvStamp EXCEPT ![w] = Len(hvLog)]
    /\ UNCHANGED <<hvLog, hvReplay, hvFiles, hvTmp, hvPath, hvCrashes>>
\* ... and the log gives the record its LSN.
hvm_append(w) ==
    /\ hvStamp[w] # NoStamp /\ Len(hvLog) < HvMaxLog
    /\ \E k \in HvKeys, v \in HvVals :
          LET del == [op |-> OP_DELETE_LE, lsn |-> hvStamp[w], id |-> 0, key |-> k]
              up == [op |-> OP_UPSERT_LE, lsn |-> hvStamp[w], id |-> 0, key |-> k, val |-> v]
          IN  \E i \in {up, del} :
                 hvLog' = Append(hvLog, [kind |-> "hvm_isa", content |-> encode(i)])
    /\ hvLock' = HvNobody /\ hvStamp' = [hvStamp EXCEPT ![w] = NoStamp]
    /\ UNCHANGED <<hvReplay, hvFiles, hvTmp, hvPath, hvCrashes>>

\* replay_vm begins; for hvm_state or hvm_checkpoint.
hvm_replay(r) ==
    /\ hvReplay[r].pc = "idle"
    /\ \E c \in BOOLEAN :
          hvReplay' = [hvReplay EXCEPT ![r] =
              [NoReplay EXCEPT !.pc = "scan", !.checkpoint = c, !.head = Len(hvLog)]]
    /\ UNCHANGED <<hvLog, hvLock, hvStamp, hvFiles, hvTmp, hvPath, hvCrashes>>
\* One window: what scan_capped finds below head + 1, folded.
Folded(s, record) ==
    IF record.kind # "hvm_isa" THEN s ELSE reduce_step(s, decode(record.content))
hvm_window(r) ==
    LET me == hvReplay[r]
        to == Min({me.head + 1, Len(hvLog), me.cur + HvBatch})
        batch == SubSeq(hvLog, me.cur + 1, to)
    IN  /\ me.pc = "scan"
        /\ hvReplay' = [hvReplay EXCEPT ![r] =
              IF me.cur <= me.head /\ batch # <<>>
              THEN [me EXCEPT !.cur = to, !.state = FoldLeft(Folded, @, batch)]
              ELSE [me EXCEPT !.pc = IF me.checkpoint THEN "clean" ELSE "answered",
                              !.left = me.state.layers]]
        /\ UNCHANGED <<hvLog, hvLock, hvStamp, hvFiles, hvTmp, hvPath, hvCrashes>>
hvm_state(r) ==
    /\ hvReplay[r].pc = "answered" /\ hvReplay' = [hvReplay EXCEPT ![r] = NoReplay]
    /\ UNCHANGED <<hvLog, hvLock, hvStamp, hvFiles, hvTmp, hvPath, hvCrashes>>

\* A file that loses its name and that no other replayer has open is gone.
Unlinked(name, r) ==
    LET open == {hvReplay[q].file : q \in HvReplayers \ {r}}
    IN  [i \in DOMAIN hvFiles |-> IF i \in open \cup {name} THEN hvFiles[i] ELSE EmptyFile]

\* BEpsilonTree::from_map: hvm.tmp is removed, created, filled and committed,
\* and takes the name of the checkpoint.
\* (mutant: the temporary file of a run that crashed is taken as it is)
from_map_clean_not(r) ==
    /\ hvReplay[r].pc = "clean" /\ hvReplay' = [hvReplay EXCEPT ![r].pc = "open"]
    /\ UNCHANGED <<hvLog, hvLock, hvStamp, hvFiles, hvTmp, hvPath, hvCrashes>>
from_map_clean(r) ==
    /\ hvReplay[r].pc = "clean" /\ hvReplay' = [hvReplay EXCEPT ![r].pc = "open"]
    /\ hvTmp' = 0 /\ hvFiles' = Unlinked(hvPath, r)
    /\ UNCHANGED <<hvLog, hvLock, hvStamp, hvPath, hvCrashes>>
from_map_open(r) ==
    /\ hvReplay[r].pc = "open"
    /\ IF hvTmp # 0
       THEN /\ hvReplay' = [hvReplay EXCEPT ![r].pc = "fill", ![r].file = hvTmp]
            /\ UNCHANGED <<hvFiles, hvTmp>>
       ELSE /\ Len(hvFiles) < HvMaxFiles /\ hvFiles' = Append(hvFiles, EmptyFile)
            /\ hvTmp' = Len(hvFiles) + 1
            /\ hvReplay' = [hvReplay EXCEPT ![r].pc = "fill", ![r].file = Len(hvFiles) + 1]
    /\ UNCHANGED <<hvLog, hvLock, hvStamp, hvPath, hvCrashes>>
from_map_upsert(r) ==
    LET me == hvReplay[r]
    IN  /\ me.pc = "fill" /\ me.left # {}
        /\ LET e == CHOOSE e \in me.left : \A d \in me.left : Len(e.key) <= Len(d.key)
           IN /\ hvFiles' = [hvFiles EXCEPT ![me.file].map = PutIn(@, e.key, e.val)]
              /\ hvReplay' = [hvReplay EXCEPT ![r].left = @ \ {e}]
        /\ UNCHANGED <<hvLog, hvLock, hvStamp, hvTmp, hvPath, hvCrashes>>
from_map_commit(r) ==
    /\ hvReplay[r].pc = "fill" /\ hvReplay[r].left = {}
    /\ hvFiles' = [hvFiles EXCEPT ![hvReplay[r].file].committed = hvFiles[hvReplay[r].file].map]
    /\ hvReplay' = [hvReplay EXCEPT ![r].pc = "rename"]
    /\ UNCHANGED <<hvLog, hvLock, hvStamp, hvTmp, hvPath, hvCrashes>>
\* The rename fails when the temporary file is gone.
from_map_rename(r) ==
    /\ hvReplay[r].pc = "rename"
    /\ IF hvTmp = 0 THEN UNCHANGED <<hvTmp, hvPath, hvFiles>>
       ELSE hvPath' = hvTmp /\ hvTmp' = 0 /\ hvFiles' = Unlinked(hvTmp, r)
    /\ hvReplay' = [hvReplay EXCEPT ![r] = NoReplay]
    /\ UNCHANGED <<hvLog, hvLock, hvStamp, hvCrashes>>

HvCrash ==
    /\ hvCrashes < HvMaxCrashes /\ hvCrashes' = hvCrashes + 1
    /\ hvLock' = HvNobody /\ hvStamp' = [w \in HvWriters |-> NoStamp]
    /\ hvReplay' = [r \in HvReplayers |-> NoReplay]
    /\ UNCHANGED <<hvLog, hvFiles, hvTmp, hvPath>>

HvNext == \/ HvAppend \/ HvCrash
          \/ \E w \in HvWriters : hvm_write(w) \/ hvm_append(w)
          \/ \E r \in HvReplayers : \/ hvm_replay(r) \/ hvm_window(r) \/ hvm_state(r)
                                    \/ from_map_clean(r) \/ from_map_open(r) \/ from_map_upsert(r)
                                    \/ from_map_commit(r) \/ from_map_rename(r)
HvSpec == HvInit /\ [][HvNext]_hvVars
-----------------------------------------------------------------------------
Frames(log) == SelectSeq(log, LAMBDA record : record.kind = "hvm_isa")
\* What the first n records say of a key: the value of the last upsert that no
\* delete follows.
Ledger(n) ==
    LET is == [j \in DOMAIN Frames(SubSeq(hvLog, 1, n)) |-> decode(Frames(SubSeq(hvLog, 1, n))[j].content)]
    IN  {[key |-> is[j].key, val |-> is[j].val] :
            j \in {j \in DOMAIN is : /\ is[j].op = OP_UPSERT_LE
                                     /\ \A l \in DOMAIN is : l > j => is[l].key # is[j].key}}

(***************************************************************************)
(* The ledger is its log (engine.rs:501, "two concurrent upserts stamped   *)
(* the SAME lsn"; vm_bridge.rs, "persist it as a checkpoint"): the stamps  *)
(* of the instructions grow with their LSNs, whatever is appended between a*)
(* head and its append, so that the order of the stamps is the order of the*)
(* log; what a replay answers is the ledger as of one LSN, no older than   *)
(* the call, though records come in between its windows; and the checkpoint*)
(* file, whenever it is opened, is the ledger as of one LSN.  A frame cut  *)
(* off anywhere, or one with more behind its fields, decodes to an error.  *)
(***************************************************************************)
LedgerExact ==
    /\ LET frames == Frames(hvLog)
           stamp(j) == decode(frames[j].content).lsn
           all == FoldLeft(LAMBDA b, f : b \o f.content, <<>>, frames)
       IN  /\ \A j \in 2..Len(frames) : stamp(j - 1) < stamp(j)
           /\ \A j \in DOMAIN frames :
                 LET f == frames[j].content
                     split == encode([op |-> OP_SPLIT_LT, lsn |-> stamp(j), shard |-> 0, new |-> 1,
                                      key |-> decode(f).key])
                 IN  /\ \A cut \in 0..(Len(f) - 1) : decode(SubSeq(f, 1, cut)) = VmError
                     /\ decode(Framed(f[1], SubSeq(f, 4, Len(f)) \o <<0>>)) = VmError
                     /\ encode(decode(split)) = split /\ decode([split EXCEPT ![1] = 0]) = VmError
           /\ decode_stream(all) = [j \in DOMAIN frames |-> decode(frames[j].content)]
           /\ all # <<>> => Last(decode_stream(Front(all))) = VmError
    /\ \A r \in HvReplayers : hvReplay[r].pc = "answered" =>
          /\ hvReplay[r].cur >= hvReplay[r].head
          /\ hvReplay[r].state.layers = Ledger(hvReplay[r].cur)
    /\ hvPath # 0 => \E n \in 0..Len(hvLog) : hvFiles[hvPath].committed = Ledger(n)
=============================================================================
