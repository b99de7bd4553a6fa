----------------------------- MODULE EngineViews -----------------------------
(***************************************************************************)
(* The derived state of the server: Engine of heraclitus-server/src/       *)
(* engine.rs over ViewRegistry of heraclitus-views/src/lib.rs and AttrIndex *)
(* of heraclitus-index-attr/src/lib.rs.                                    *)
(*                                                                         *)
(* An append is two steps: the log gives the episode its LSN and makes it  *)
(* readable, then index_applied enters it in the views and, under another  *)
(* mutex, in the attribute index.  Checkpoints, rebuilds, crypto-shreds    *)
(* and boots are sequences of steps (the variable todo), so that appends   *)
(* and crashes fall between any two of them.  The log itself is module     *)
(* HrklLog; here it is the history it promises: LSN n is entry n + 1, and  *)
(* a crash keeps at least the part that was synced.                        *)
(***************************************************************************)
EXTENDS Integers, Sequences, FiniteSets

CONSTANTS
  Appenders,   \* threads that call append and append_idempotent
  Keys,        \* idempotency keys
  ViewOrder,   \* the registered views, in registration order
  Counting,    \* the views whose apply is not idempotent (activation)
  Scenarios,   \* bound: what may happen in a behaviour, see Scenario
  MaxIds       \* bound: episodes

Views == {ViewOrder[i] : i \in DOMAIN ViewOrder}
Ids == 1..MaxIds

Maintenance == {"checkpoint", "shutdown", "rebuild", "shred"}

\* What the environment of one behaviour may do: at most so many appends at a
\* time, idempotent ones with these keys, these maintenance operations, boots
\* in these modes ("skip" is HERACLITUS_SKIP_VIEW_REPLAY), crashes while one of
\* these is going on, no appends during the quiet ones, so many boots and so
\* many episodes, with this FsyncPolicy of the log.
Scenario == [writers : Nat, keys : SUBSET Keys, ops : SUBSET Maintenance,
             boots : SUBSET {"normal", "skip"},
             crashAt : SUBSET (Maintenance \cup {"none", "open", "privacy_open"}),
             quiet : SUBSET Maintenance, opens : Nat, ids : 0..MaxIds,
             policy : {"always", "group"}]

ASSUME EngineAssumption ==
  /\ MaxIds \in Nat
  /\ ViewOrder \in Seq(Views)
  /\ Counting \subseteq Views
  /\ Scenarios \subseteq Scenario

VARIABLES
  log,         \* the history: records [id, key, hvm]
  synced,      \* how much of it has been fsynced
  nextId,
  times,       \* RAM: times[v][id], how often view v has applied the episode
  watermarks,  \* RAM: ViewRegistry::watermarks, NoLsn for an absent entry
  attr,        \* RAM: AttrIndex: postings, watermark, built with the key alive
  clear,       \* RAM: the views that were given content of the agent in clear
  ckpt,        \* disk: <view>.ckpt, or NoCkpt
  wm_file,     \* disk: watermarks.json
  attr_file,   \* disk: attr_index.bin
  marker,      \* disk: privacy-rebuild-required
  shredded,    \* disk: the agent's key has been destroyed
  mode,        \* "down", "normal" or "skip"
  op,          \* the maintenance operation going on, or "none"
  todo,        \* its remaining steps
  rebuilt,     \* shred's new AttrIndex, until it is swapped in
  call,        \* per appender: the call it is in
  opens,       \* boots so far
  scenario     \* the scenario of this behaviour

ram == <<times, watermarks, attr, clear>>
disk == <<ckpt, wm_file, attr_file, marker, shredded>>
task == <<mode, op, todo, rebuilt, opens, scenario>>
vars == <<log, synced, nextId, ram, disk, task, call>>
-----------------------------------------------------------------------------
(* Values.                                                                 *)

NoLsn == -1
NoKey == "-"
NoTimes == [v \in Views |-> [id \in Ids |-> 0]]
NoWatermarks == [v \in Views |-> NoLsn]
EmptyAttr == [posts |-> {}, wm |-> 0, clear |-> FALSE]
NoCkpt == [present |-> FALSE, times |-> [id \in Ids |-> 0], clear |-> FALSE]
Idle == [at |-> "idle", lsn |-> NoLsn, clear |-> FALSE,
         ev |-> [id |-> 0, key |-> NoKey, hvm |-> FALSE]]

Do(d) == <<[do |-> d, view |-> NoKey]>>
Saves == [i \in DOMAIN ViewOrder |-> [do |-> "save", view |-> ViewOrder[i]]]

Init ==
  /\ log = <<>> /\ synced = 0 /\ nextId = 0
  /\ times = NoTimes /\ watermarks = NoWatermarks /\ attr = EmptyAttr /\ clear = {}
  /\ ckpt = [v \in Views |-> NoCkpt] /\ wm_file = NoWatermarks
  /\ attr_file = EmptyAttr /\ marker = FALSE /\ shredded = FALSE
  /\ mode = "down" /\ op = "none" /\ todo = <<>> /\ rebuilt = EmptyAttr /\ opens = 0
  /\ scenario \in Scenarios
  /\ call = [c \in Appenders |-> Idle]

\* A shutdown ends the listeners and the timers, not the calls that have begun:
\* connection tasks and blocking threads append until the process exits.
Serving == mode # "down" /\ op \notin {"open", "privacy_open"}

\* The registry mutex is held from the "lock" step to the "unlock" step.
Pending(d) == \E i \in DOMAIN todo : todo[i].do = d
Locked == Pending("unlock") /\ ~Pending("lock")
-----------------------------------------------------------------------------
(* Applying episodes.                                                      *)

\* View::apply: all but the counting views skip an episode they know.
Applied(v, t, id) == [t EXCEPT ![id] = IF v \in Counting THEN @ + 1 ELSE 1]

\* (mutant: the last LSN applied)
AdvancedWm_raw(wm, lsn) == lsn

AdvancedWm(wm, lsn) == IF lsn > wm THEN lsn ELSE wm

\* (mutant: an LSN below the watermark is taken for a repeat)
AttrApplied_monotone(a, lsn, key, plain) ==
  IF a.posts # {} /\ lsn <= a.wm THEN a
  ELSE [posts |-> a.posts \cup {<<lsn, key>>}, wm |-> lsn, clear |-> a.clear \/ plain]

\* AttrIndex::apply: sorted insertion, any order, no duplicates.
AttrApplied(a, lsn, key, plain) ==
  [posts |-> a.posts \cup {<<lsn, key>>}, wm |-> IF lsn > a.wm THEN lsn ELSE a.wm,
   clear |-> a.clear \/ plain]

\* The LSNs a replay delivers: everything in the log but H-VM frames.
Indexable(from) == {lsn \in from..(Len(log) - 1) : ~log[lsn + 1].hvm}

\* (mutant: the first LSN after the watermark is skipped)
Uncovered_late(wm) == Indexable(wm + 2)
Uncovered(wm) == Indexable(wm + 1)

\* The replay loops of catch_up and rebuild, for one view.
ReplayedTimes(v, t, wm) ==
  LET ids == {log[lsn + 1].id : lsn \in Uncovered(wm)}
  IN  [id \in Ids |-> IF id \in ids THEN Applied(v, t, id)[id] ELSE t[id]]
ReplayedWm(wm) ==
  CHOOSE w \in {wm} \cup Uncovered(wm) : \A lsn \in Uncovered(wm) : lsn <= w

\* (mutant: past the first LSN it does not cover)
AttrFrom_late(a) == IF a.posts = {} THEN 0 ELSE a.wm + 2

\* The replay of the attribute index starts at its watermark, inclusive.
AttrFrom(a) == IF a.posts = {} THEN 0 ELSE a.wm

AttrReplayed(a) ==
  LET lsns == Indexable(AttrFrom(a))
  IN  [posts |-> a.posts \cup {<<lsn, log[lsn + 1].key>> : lsn \in lsns},
       wm |-> CHOOSE w \in {a.wm} \cup lsns : \A lsn \in lsns \cup {a.wm} : lsn <= w,
       clear |-> a.clear \/ (lsns # {} /\ ~shredded)]

\* The views, when a scan still decrypts what it gives them.
Exposed(names) == IF shredded THEN {} ELSE names
-----------------------------------------------------------------------------
(* Appends.                                                                *)

\* (mutant: Always does not wait for the fsync)
SyncedAfter_lazy == {synced, Len(log) + 1}
SyncedAfter == IF scenario.policy = "always" THEN {Len(log) + 1} ELSE {synced, Len(log) + 1}

\* Log::append_stamped: the episode is readable before it is indexed.
Logged(c, key, hvm) ==
  LET ev == [id |-> nextId + 1, key |-> key, hvm |-> hvm]
  IN  /\ nextId < scenario.ids /\ nextId' = nextId + 1
      /\ log' = Append(log, ev)
      /\ synced' \in SyncedAfter
      /\ call' = [call EXCEPT ![c] =
                    IF hvm THEN Idle
                    ELSE [at |-> "views", lsn |-> Len(log), clear |-> ~shredded, ev |-> ev]]
      /\ UNCHANGED <<ram, disk, task>>

InFlight == {c \in Appenders : call[c] # Idle}
MayStart(c) ==
  /\ Serving /\ call[c] = Idle /\ op \notin scenario.quiet
  /\ Cardinality(InFlight) < scenario.writers

\* Engine::append, and the H-VM writes, whose frames no view indexes.
append(c, hvm) == MayStart(c) /\ Logged(c, NoKey, hvm)

KeyLsns(key) == {p[1] : p \in {q \in attr.posts : q[2] = key}}

\* (mutant: the lookup and the append are not one critical section)
IdempotencyFree_always == TRUE

\* idempotency_lock is held until the episode has been indexed.
IdempotencyFree == \A d \in Appenders : call[d].ev.key = NoKey

\* append_idempotent of a key the index does not know.  A known key is
\* answered from the log and changes nothing.
append_idempotent(c, key) ==
  /\ MayStart(c) /\ IdempotencyFree /\ key \in scenario.keys
  /\ KeyLsns(key) = {}
  /\ Logged(c, key, FALSE)

\* index_applied, first half: one registry lock for all the views.
index_views(c) ==
  /\ call[c].at = "views" /\ ~Locked
  /\ times' = [v \in Views |-> Applied(v, times[v], call[c].ev.id)]
  /\ watermarks' = [v \in Views |-> AdvancedWm(watermarks[v], call[c].lsn)]
  /\ clear' = IF call[c].clear THEN Views ELSE clear
  /\ call' = [call EXCEPT ![c].at = "attr"]
  /\ UNCHANGED <<log, synced, nextId, attr, disk, task>>

\* Second half, and the return to the caller.
index_attr(c) ==
  /\ call[c].at = "attr"
  /\ attr' = AttrApplied(attr, call[c].lsn, call[c].ev.key, call[c].clear)
  /\ call' = [call EXCEPT ![c] = Idle]
  /\ UNCHANGED <<log, synced, nextId, times, watermarks, clear, disk, task>>
-----------------------------------------------------------------------------
(* Maintenance operations, as the steps they are made of.                  *)

\* ViewRegistry::checkpoint: every snapshot, then the watermarks.
Checkpoint == Saves \o Do("persist_watermarks")

checkpoint_views == Do("lock") \o Checkpoint \o Do("unlock") \o Do("save_attr")

\* (mutant: the guard is never dropped)
rebuild_stuck == Do("lock") \o Do("rebuild") \o Do("persist_watermarks") \o Do("wait_for_itself")
                   \o Do("unlock")

\* Engine::rebuild.
rebuild == Do("lock") \o Do("rebuild") \o Do("persist_watermarks") \o Do("unlock")

ShredViews == Do("lock") \o Do("rebuild") \o Do("persist_watermarks") \o Checkpoint
                \o Do("unlock")

\* (mutant: the marker is made after the key is destroyed)
shred_late == Do("destroy_key") \o Do("mark") \o ShredViews \o Do("scan_attr")
                \o Do("swap_attr") \o Do("receipt") \o Do("unmark")

\* Engine::shred: the marker is on disk before the key is destroyed and
\* until every derived state has been rebuilt and saved.
shred == Do("mark") \o Do("destroy_key") \o ShredViews \o Do("scan_attr")
           \o Do("swap_attr") \o Do("receipt") \o Do("unmark")

\* Engine::open_with_boot, after ViewRegistry::open.
OpenNormal == Do("catch_up") \o Do("persist_watermarks") \o Checkpoint
                \o Do("open_attr") \o Do("replay_attr")
OpenSkip == Do("reset_watermarks") \o Do("open_attr")
OpenPrivacy(m) == Do("rebuild") \o Do("persist_watermarks") \o Checkpoint
                    \o (IF m = "skip" THEN <<>> ELSE Do("replay_attr"))
                    \o Do("save_attr") \o Do("unmark")

Program(o) ==
  CASE o = "checkpoint" -> checkpoint_views
    [] o = "shutdown" -> checkpoint_views \o Do("exit")
    [] o = "rebuild" -> rebuild
    [] o = "shred" -> shred

\* One maintenance operation at a time.  A quiet one has the environment's word
\* that no append is going on; a shutdown is no different from the others.
start(o) ==
  /\ Serving /\ op = "none" /\ o \in scenario.ops
  /\ o = "shred" => ~shredded
  /\ o \in scenario.quiet => InFlight = {}
  /\ op' = o /\ todo' = Program(o)
  /\ UNCHANGED <<log, synced, nextId, ram, disk, mode, rebuilt, opens,
                 scenario, call>>

\* An interrupted shred takes precedence over the boot mode.
open(m) ==
  /\ mode = "down" /\ opens < scenario.opens /\ m \in scenario.boots /\ opens' = opens + 1
  /\ mode' = m
  /\ watermarks' = wm_file
  /\ op' = IF marker THEN "privacy_open" ELSE "open"
  /\ todo' = IF marker THEN OpenPrivacy(m)
             ELSE IF m = "skip" THEN OpenSkip ELSE OpenNormal
  /\ UNCHANGED <<log, synced, nextId, times, attr, clear, disk, rebuilt,
                 scenario, call>>

\* The step d is next and is taken.
Step(d) ==
  /\ todo # <<>> /\ Head(todo).do = d
  /\ todo' = Tail(todo)
  /\ op' = IF Tail(todo) = <<>> THEN "none" ELSE op

lock_views ==
  /\ Step("lock")
  /\ UNCHANGED <<log, synced, nextId, ram, disk, mode, rebuilt, opens,
                 scenario, call>>

unlock_views ==
  /\ Step("unlock")
  /\ UNCHANGED <<log, synced, nextId, ram, disk, mode, rebuilt, opens,
                 scenario, call>>

\* View::checkpoint: tmp, fsync, rename.
save_view ==
  /\ Step("save")
  /\ LET v == Head(todo).view
     IN  ckpt' = [ckpt EXCEPT ![v] = [present |-> TRUE, times |-> times[v],
                                      clear |-> v \in clear]]
  /\ UNCHANGED <<log, synced, nextId, ram, wm_file, attr_file, marker, shredded, mode,
                 rebuilt, opens, scenario, call>>

persist_watermarks ==
  /\ Step("persist_watermarks")
  /\ wm_file' = watermarks
  /\ UNCHANGED <<log, synced, nextId, ram, ckpt, attr_file, marker, shredded, mode,
                 rebuilt, opens, scenario, call>>

save_attr ==
  /\ Step("save_attr")
  /\ attr_file' = attr
  /\ UNCHANGED <<log, synced, nextId, ram, ckpt, wm_file, marker, shredded, mode,
                 rebuilt, opens, scenario, call>>

\* ViewRegistry::rebuild(None): reset and replay from LSN 0.
rebuild_views ==
  /\ Step("rebuild")
  /\ times' = [v \in Views |-> ReplayedTimes(v, NoTimes[v], NoLsn)]
  /\ watermarks' = [v \in Views |-> ReplayedWm(NoLsn)]
  /\ clear' = (clear \ Views) \cup (IF Indexable(0) = {} THEN {} ELSE Exposed(Views))
  /\ UNCHANGED <<log, synced, nextId, attr, disk, mode, rebuilt, opens,
                 scenario, call>>

\* The watermark of a view counts only if its state was restored.
Restored(v) == IF ckpt[v].present THEN watermarks[v] ELSE NoLsn

\* ViewRegistry::catch_up: restore, then replay (watermark, head].
catch_up ==
  /\ Step("catch_up")
  /\ times' = [v \in Views |-> ReplayedTimes(v, ckpt[v].times, Restored(v))]
  /\ watermarks' = [v \in Views |-> ReplayedWm(Restored(v))]
  /\ clear' = {v \in Views : ckpt[v].clear}
                \cup Exposed({v \in Views : Uncovered(Restored(v)) # {}})
  /\ UNCHANGED <<log, synced, nextId, attr, disk, mode, rebuilt, opens,
                 scenario, call>>

reset_watermarks ==
  /\ Step("reset_watermarks")
  /\ watermarks' = NoWatermarks
  /\ UNCHANGED <<log, synced, nextId, times, attr, clear, disk, mode, rebuilt, opens,
                 scenario, call>>

\* AttrIndex::open.
open_attr ==
  /\ Step("open_attr")
  /\ attr' = attr_file
  /\ UNCHANGED <<log, synced, nextId, times, watermarks, clear, disk, mode, rebuilt,
                 opens, scenario, call>>

\* The tail of the log, then save if anything was replayed.
replay_attr ==
  /\ Step("replay_attr")
  /\ attr' = AttrReplayed(attr)
  /\ attr_file' = IF log = <<>> THEN attr_file ELSE attr'
  /\ UNCHANGED <<log, synced, nextId, times, watermarks, clear, ckpt, wm_file, marker, shredded,
                 mode, rebuilt, opens,
                 scenario, call>>

mark ==
  /\ Step("mark")
  /\ marker' = TRUE
  /\ UNCHANGED <<log, synced, nextId, ram, ckpt, wm_file, attr_file, shredded, mode,
                 rebuilt, opens, scenario, call>>

destroy_key ==
  /\ Step("destroy_key")
  /\ shredded' = TRUE
  /\ UNCHANGED <<log, synced, nextId, ram, ckpt, wm_file, attr_file, marker, mode,
                 rebuilt, opens, scenario, call>>

\* The new index is built and saved without the attr mutex.
scan_attr ==
  /\ Step("scan_attr")
  /\ rebuilt' = AttrReplayed(EmptyAttr)
  /\ attr_file' = rebuilt'
  /\ UNCHANGED <<log, synced, nextId, ram, ckpt, wm_file, marker, shredded, mode, opens,
                 scenario, call>>

swap_attr ==
  /\ Step("swap_attr")
  /\ attr' = rebuilt /\ rebuilt' = EmptyAttr
  /\ UNCHANGED <<log, synced, nextId, times, watermarks, clear, disk, mode, opens,
                 scenario, call>>

\* The PrivacyErasureReceipt, an ordinary append.
receipt ==
  /\ Step("receipt")
  /\ IF nextId < scenario.ids
     THEN LET id == nextId + 1
          IN  /\ log' = Append(log, [id |-> id, key |-> NoKey, hvm |-> FALSE])
              /\ nextId' = id
              /\ synced' \in SyncedAfter
              /\ times' = [v \in Views |-> Applied(v, times[v], id)]
              /\ watermarks' = [v \in Views |-> AdvancedWm(watermarks[v], Len(log))]
              /\ attr' = AttrApplied(attr, Len(log), NoKey, FALSE)
     ELSE UNCHANGED <<log, nextId, synced, times, watermarks, attr>>
  /\ UNCHANGED <<clear, disk, mode, rebuilt, opens,
                 scenario, call>>

unmark ==
  /\ Step("unmark")
  /\ marker' = FALSE
  /\ UNCHANGED <<log, synced, nextId, ram, ckpt, wm_file, attr_file, shredded, mode,
                 rebuilt, opens, scenario, call>>

\* The process is gone.
Stopped ==
  /\ times' = NoTimes /\ watermarks' = NoWatermarks /\ attr' = EmptyAttr /\ clear' = {}
  /\ rebuilt' = EmptyAttr /\ mode' = "down"
  /\ call' = [c \in Appenders |-> Idle]
  /\ UNCHANGED <<nextId, disk, opens, scenario>>

\* The calls still in flight end with the process.
exit ==
  /\ Step("exit")
  /\ Stopped
  /\ UNCHANGED <<log, synced>>
-----------------------------------------------------------------------------
(* The rest of the system.                                                 *)

\* The worker of the log fsyncs under group commit.
log_fsync ==
  /\ mode # "down" /\ synced < Len(log) /\ synced' = Len(log)
  /\ UNCHANGED <<log, nextId, ram, disk, task, call>>

\* The machine stops: the log keeps what was synced and any prefix of the
\* rest.  Everything under views/ was fsynced before it was renamed.
crash ==
  /\ mode # "down" /\ op \in scenario.crashAt
  /\ \E n \in synced..Len(log) : log' = SubSeq(log, 1, n) /\ synced' = n
  /\ op' = "none" /\ todo' = <<>>
  /\ Stopped

TaskStep ==
  \/ lock_views \/ unlock_views \/ save_view \/ persist_watermarks \/ save_attr
  \/ rebuild_views \/ catch_up \/ reset_watermarks \/ open_attr \/ replay_attr
  \/ mark \/ destroy_key \/ scan_attr \/ swap_attr \/ receipt \/ unmark \/ exit

Next ==
  \/ \E c \in Appenders, hvm \in BOOLEAN : append(c, hvm)
  \/ \E c \in Appenders, key \in Keys : append_idempotent(c, key)
  \/ \E c \in Appenders : index_views(c) \/ index_attr(c)
  \/ \E o \in Maintenance : start(o)
  \/ \E m \in {"normal", "skip"} : open(m)
  \/ TaskStep
  \/ log_fsync \/ crash

Spec == Init /\ [][Next]_vars

\* Threads run: a call that has reached the log is indexed and an operation
\* goes through its steps.  Taking the registry mutex is not starved for
\* ever, so a call gets it although operations come again and again.
Fairness ==
  /\ WF_vars(TaskStep)
  /\ \A c \in Appenders : SF_vars(index_views(c)) /\ WF_vars(index_attr(c))

FairSpec == Spec /\ Fairness
-----------------------------------------------------------------------------
(* Properties.                                                             *)

\* The views of a server that has replayed: outside a rebuild, every episode
\* of the log that is not on its way there is in every view (engine.rs
\* append: "Read-your-own-writes holds for every index path").
Waiting(ats) == {call[c].ev.id : c \in {d \in Appenders : call[d].at \in ats}}
Indexed(ats) == {log[lsn + 1].id : lsn \in Indexable(0)} \ Waiting(ats)

ViewsComplete ==
  (Serving /\ mode = "normal" /\ ~Locked) =>
    \A v \in Views : \A id \in Indexed({"views"}) : times[v][id] >= 1

\* The attribute index misses no episode either, and what it answers keeps a
\* key unique: append_idempotent puts a key in the log at most once, whatever
\* retries, crashes and restarts come between.
AttrComplete ==
  (Serving /\ mode = "normal") =>
    \A lsn \in Indexable(0) :
      \/ log[lsn + 1].id \in Waiting({"views", "attr"})
      \/ <<lsn, log[lsn + 1].key>> \in attr.posts
KeyOnce ==
  \A i, j \in DOMAIN log : log[i].key = log[j].key /\ log[i].key # NoKey => i = j
AttrExact == AttrComplete /\ KeyOnce

\* No view holds an episode the log does not have: the views are derived
\* from the log and nothing else.
NothingExtra ==
  mode # "down" =>
    \A v \in Views : \A id \in Ids :
      times[v][id] > 0 => \E i \in DOMAIN log : log[i].id = id

\* No episode is applied twice, by a live apply and a replay or by two
\* replays (activation's touch counts every application).
ViewsExact == \A v \in Views : \A id \in Ids : times[v][id] <= 1

\* ViewRegistry::apply: "tudo <= wm foi aplicado".
WatermarkMeansApplied ==
  (Serving /\ mode = "normal" /\ ~Locked) =>
    \A v \in Views : \A lsn \in Indexable(0) :
      lsn <= watermarks[v] => times[v][log[lsn + 1].id] >= 1

\* Every append that has reached the log returns: the registry mutex is
\* always released, whatever maintenance goes on.
AppendReturns == \A c \in Appenders : call[c] # Idle ~> call[c] = Idle

\* Once the marker of a shred is gone no derived state, in memory or on
\* disk, was built while the key still existed (engine.rs shred).
ErasureComplete ==
  shredded /\ ~marker =>
    /\ clear = {} /\ ~attr.clear /\ ~attr_file.clear
    /\ \A v \in Views : ~ckpt[v].clear

\* Derived state holds nothing it should not: neither an episode the log does
\* not have nor, once the shred is over, content read under the dropped key.
NothingLeftOver == NothingExtra /\ ErasureComplete
=============================================================================
