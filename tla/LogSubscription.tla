-------------------------- MODULE LogSubscription --------------------------
(***************************************************************************)
(* The tail of the log: the worker publishes the head and then sends each  *)
(* committed record into a broadcast channel (heraclitus-log/src/lib.rs:   *)
(* 1173-1189); attach_subscriber (subscribe.rs) and the gRPC subscribe     *)
(* stream (heraclitus-server/src/grpc.rs:158) receive from it.  A receiver *)
(* that falls more than the capacity behind is told it lagged and goes on  *)
(* with the oldest record still in the channel; what it missed is read     *)
(* from the log.                                                           *)
(*                                                                         *)
(* Records are their LSNs.  The n-th record sent is LSN n - 1, so that a   *)
(* receiver's place in the channel is the LSN it receives next.            *)
(***************************************************************************)
EXTENDS Integers, Sequences

CONSTANTS SbCapacity,   \* capacity of the broadcast channel (4096)
          SbScanBatch,  \* records per scan of the stream (256)
          SbMaxHead,    \* bound: records in the log
          SbFrom        \* the from_lsn a client may ask for

ASSUME SbAssumption ==
    /\ SbCapacity \in Nat \ {0} /\ SbScanBatch \in Nat \ {0}
    /\ SbMaxHead \in Nat /\ SbFrom \subseteq Nat

VARIABLES sbDurable, \* one past the last record of the batch the worker has fsynced
          sbHead,    \* committed_lsn
          sbSent,    \* records sent into the channel
          sbPlace,   \* [receiver -> LSN it receives next, or NotAttached]
          sbLast,    \* attach_subscriber's last_seen, NoneSeen before the first
          sbTold,    \* the LSNs the subscriber was given, live or by its catch-up
          sbStart,   \* the LSN at which the subscriber attached
          sbStream   \* the gRPC task: [pc, from, next, upto]
sbVars == <<sbDurable, sbHead, sbSent, sbPlace, sbLast, sbTold, sbStart, sbStream>>

NotAttached == -1
NoneSeen == -1
SbReceivers == {"subscriber", "stream"}

SbInit ==
    /\ sbDurable = 0 /\ sbHead = 0 /\ sbSent = 0
    /\ sbPlace = [r \in SbReceivers |-> NotAttached]
    /\ sbLast = NoneSeen /\ sbTold = {} /\ sbStart = 0
    /\ sbStream = [pc |-> "none", from |-> 0, next |-> 0, upto |-> 0, out |-> <<>>]

\* The worker makes a batch durable, publishes the head past it and sends its
\* records one by one.
SbSync ==
    /\ sbSent = sbDurable /\ sbHead = sbDurable
    /\ sbDurable' \in (sbDurable + 1)..SbMaxHead
    /\ UNCHANGED <<sbHead, sbSent, sbPlace, sbLast, sbTold, sbStart, sbStream>>
SbPublish ==
    /\ sbHead' = sbDurable
    /\ UNCHANGED <<sbDurable, sbSent, sbPlace, sbLast, sbTold, sbStart, sbStream>>
\* (mutant: a record is sent before the head that makes it readable)
SbSendable_early == sbSent < sbDurable
SbSendable == sbSent < sbHead
SbSend ==
    /\ SbSendable
    /\ sbSent' = sbSent + 1
    /\ UNCHANGED <<sbDurable, sbHead, sbPlace, sbLast, sbTold, sbStart, sbStream>>

\* tail_subscribe: only records sent from now on are received.
tail_subscribe(r) ==
    /\ sbPlace[r] = NotAttached
    /\ sbPlace' = [sbPlace EXCEPT ![r] = sbSent]

Lagged(r) == sbSent - sbPlace[r] > SbCapacity
Received(r) == sbPlace[r] # NotAttached /\ sbPlace[r] < sbSent /\ ~Lagged(r)
Advance(r) == sbPlace' = [sbPlace EXCEPT ![r] = @ + 1]
SkipToOldest(r) == sbPlace' = [sbPlace EXCEPT ![r] = sbSent - SbCapacity]
-----------------------------------------------------------------------------
(* attach_subscriber: a thread, and the handler's catch-up by scan.        *)

attach_subscriber ==
    /\ tail_subscribe("subscriber")
    /\ sbStart' = sbSent
    /\ UNCHANGED <<sbDurable, sbHead, sbSent, sbLast, sbTold, sbStream>>

on_append ==
    /\ Received("subscriber")
    /\ sbLast' = sbPlace["subscriber"]
    /\ sbTold' = sbTold \cup {sbPlace["subscriber"]}
    /\ Advance("subscriber")
    /\ UNCHANGED <<sbDurable, sbHead, sbSent, sbStart, sbStream>>

\* (mutant: the zero that last_seen once started with)
SbExpected_zero == IF sbLast = NoneSeen THEN 1 ELSE sbLast + 1
SbExpected == IF sbLast = NoneSeen THEN 0 ELSE sbLast + 1
on_buffer_overflow ==
    /\ sbPlace["subscriber"] # NotAttached /\ Lagged("subscriber")
    /\ sbTold' = sbTold \cup SbExpected..(sbHead - 1)
    /\ SkipToOldest("subscriber")
    /\ UNCHANGED <<sbDurable, sbHead, sbSent, sbLast, sbStart, sbStream>>
-----------------------------------------------------------------------------
(* The gRPC stream: history by scans, then the tail, and history again     *)
(* whenever the tail is not the next record.                               *)

StreamAt(pc) == sbStream.pc = pc
Deliver(lsn) == [sbStream EXCEPT !.next = lsn + 1, !.out = Append(@, lsn)]

sb_subscribe ==
    /\ StreamAt("none") /\ tail_subscribe("stream")
    /\ \E from \in SbFrom : sbStream' = [sbStream EXCEPT !.pc = "scan", !.from = from, !.next = from]
    /\ UNCHANGED <<sbDurable, sbHead, sbSent, sbLast, sbTold, sbStart>>

\* scan(start, start + 256): what is committed of it; an empty batch ends it.
ScanEnd == IF sbStream.next + SbScanBatch < sbHead THEN sbStream.next + SbScanBatch ELSE sbHead
StreamScan ==
    /\ StreamAt("scan")
    /\ sbStream' = IF sbStream.next < ScanEnd
                   THEN [sbStream EXCEPT !.pc = "batch", !.upto = ScanEnd]
                   ELSE [sbStream EXCEPT !.pc = "live"]
    /\ UNCHANGED <<sbDurable, sbHead, sbSent, sbPlace, sbLast, sbTold, sbStart>>
StreamBatch ==
    /\ StreamAt("batch")
    /\ sbStream' = IF sbStream.next < sbStream.upto THEN Deliver(sbStream.next)
                   ELSE [sbStream EXCEPT !.pc = "scan"]
    /\ UNCHANGED <<sbDurable, sbHead, sbSent, sbPlace, sbLast, sbTold, sbStart>>

StreamTakes(lsn) ==
    IF lsn < sbStream.next THEN sbStream
    ELSE IF lsn > sbStream.next THEN [sbStream EXCEPT !.pc = "scan"]
    ELSE Deliver(lsn)
StreamLive ==
    /\ StreamAt("live") /\ Received("stream")
    /\ sbStream' = StreamTakes(sbPlace["stream"])
    /\ Advance("stream")
    /\ UNCHANGED <<sbDurable, sbHead, sbSent, sbLast, sbTold, sbStart>>
StreamLagged ==
    /\ StreamAt("live") /\ Lagged("stream")
    /\ sbStream' = [sbStream EXCEPT !.pc = "scan"]
    /\ SkipToOldest("stream")
    /\ UNCHANGED <<sbDurable, sbHead, sbSent, sbLast, sbTold, sbStart>>

SbStreamStep == StreamScan \/ StreamBatch \/ StreamLive \/ StreamLagged
SbNext == \/ SbSync \/ SbPublish \/ SbSend
          \/ attach_subscriber \/ on_append \/ on_buffer_overflow
          \/ sb_subscribe \/ SbStreamStep
\* The worker always gets through phases 5 and 6, and the task of the stream runs
\* while its client reads.
SbFairness == WF_sbVars(SbPublish) /\ WF_sbVars(SbSend) /\ WF_sbVars(SbStreamStep)
SbSpec == SbInit /\ [][SbNext]_sbVars /\ SbFairness
-----------------------------------------------------------------------------
(***************************************************************************)
(* Nobody who listens misses a record.  Every record between the one a     *)
(* subscriber attached at and the last it was told live was given to it,   *)
(* live or by the catch-up on_buffer_overflow asks for (subscribe.rs:39),  *)
(* also when the channel overflows before its first record.  The gRPC      *)
(* stream delivers every record from the one asked for, once, in LSN order *)
(* and without a gap, across the seam between history and tail and any     *)
(* number of overflows (grpc.rs:171, "gap-free, never silent drops").      *)
(***************************************************************************)
NoEventMissed ==
    /\ sbPlace["subscriber"] # NotAttached => sbStart..(sbPlace["subscriber"] - 1) \subseteq sbTold
    /\ sbStream.out = [i \in 1..(sbStream.next - sbStream.from) |-> sbStream.from + i - 1]

(***************************************************************************)
(* A record that is committed reaches the stream that asked for it, even   *)
(* if no other record follows: the tail is sent after the head is          *)
(* published, so the scan that a gap in the tail starts finds it           *)
(* (lib.rs:1180, :1187).                                                   *)
(***************************************************************************)
StreamCatchesUp == \A n \in 0..(SbMaxHead - 1) :
    (sbHead > n /\ ~StreamAt("none") /\ sbStream.from <= n) ~> sbStream.next > n
=============================================================================
