------------------------------- MODULE Query -------------------------------
(***************************************************************************)
(* MATCH (n) WHERE ...: the planner of heraclitus-query/src/plan.rs over   *)
(* its two backends.  The planner derives from the WHERE clause a hint     *)
(* that saves a scan: an equality or a range for the attribute index, an   *)
(* agent for the zone maps of sealed segments, or a window of LSNs.  The   *)
(* backend answers a superset, or None for "scan", and the conditions are  *)
(* evaluated again on what it returns.  A hint may therefore only cost     *)
(* time, provided that nothing the conditions accept is missing from it.   *)
(*                                                                         *)
(* The engine (heraclitus-server) looks attributes up in the index its     *)
(* appenders maintain; the reference backend (LogBackend) in a bundle that *)
(* queries bring up to the head.  Appends, rolls and other queries go on   *)
(* between the steps of a query.                                           *)
(***************************************************************************)
EXTENDS Integers, Sequences, FiniteSets, FiniteSetsExt, SequencesExt

CONSTANTS QrValues,     \* values of the one attribute v, of those below
          QrMaxLog,     \* bound: records
          QrMaxRolls,   \* bound: sealed segments
          QrFields,     \* fields of the conditions, of lsn, agent_id, kind, v, ts_hlc
          QrEmptyRolls  \* whether the log may seal a segment without records

VARIABLES qrBackend, \* "engine" or "reference"
          qrStory,   \* the records the appenders will write, in LSN order
          qrLog,     \* the log: LSN n is entry n + 1, [agent, kind, v]
          qrSealed,  \* the sealed segments, [base, max, zone]: zone is the zone map in the
                     \* cache or the sidecar, the agents of the segment, or NoZone
          qrActive,  \* base of the active segment
          qrIndexed, \* engine: the LSNs in the attribute index (an append returns when its LSN is)
          qrBundle,  \* reference: SnapshotBundle, the LSN it claims and the records it has
          qrCall     \* the query going on
qrVars == <<qrBackend, qrStory, qrLog, qrSealed, qrActive, qrIndexed, qrBundle, qrCall>>

NoValue == "(none)"
NotNumber == -1
NoHint == <<>>
NoBound == -1
NoZone == {"(not built)"}

\* str::parse::<f64> of the attribute values.
NumberOf(s) == CASE s = "0" -> 0 [] s = "2" -> 2 [] s = "10" -> 10 [] OTHER -> NotNumber
\* SKIP_VALUES of the attribute index.
SkipValues == {"0", "true"}

QrHead == Len(qrLog)
QrLsns == 0..(QrHead - 1)
At(lsn) == qrLog[lsn + 1]
QrNoCall == [pc |-> "idle", conds |-> <<>>, label |-> NoValue, as_of |-> NoBound,
             acked |-> {}, pinned |-> 0, segs |-> 0, seg |-> 0, found |-> {}]
-----------------------------------------------------------------------------
(* Conditions: field cmp literal, or with the literal on the left.  A      *)
(* numeric literal has str NoValue, a string literal num NotNumber.        *)

Cond(op, field, cmp, num, str, flip) ==
    [op |-> op, field |-> field, cmp |-> cmp, num |-> num, str |-> str, flip |-> flip]
IsNum(c) == c.num # NotNumber

flip_cmp(cmp) == CASE cmp = "gt" -> "lt" [] cmp = "lt" -> "gt"
                   [] cmp = "ge" -> "le" [] cmp = "le" -> "ge" [] OTHER -> cmp
\* The comparison with the field on the left.
Cmp(c) == IF c.flip THEN flip_cmp(c.cmp) ELSE c.cmp
Ordered(cmp, x, y) == CASE cmp = "eq" -> x = y [] cmp = "ne" -> x # y [] cmp = "gt" -> x > y
                        [] cmp = "lt" -> x < y [] cmp = "ge" -> x >= y [] cmp = "le" -> x <= y

\* field_of, for the fields the conditions use; every one but lsn is a string.
field_of(lsn, field) == CASE field = "agent_id" -> At(lsn).agent
                          [] field = "kind" -> At(lsn).kind
                          [] field = "v" -> At(lsn).v
\* cmp_json: a number and a string compare as numbers if the string is one.
cmp_json(lsn, c) ==
    IF c.field \in {"lsn", "ts_hlc"} THEN IsNum(c) /\ Ordered(Cmp(c), IF c.field = "lsn" THEN lsn ELSE lsn + 1, c.num)
    ELSE LET s == field_of(lsn, c.field)
         IN  /\ s # NoValue
             /\ IF ~IsNum(c) THEN Ordered(Cmp(c), s, c.str)
                ELSE IF NumberOf(s) = NotNumber THEN Cmp(c) = "ne"
                ELSE Ordered(Cmp(c), NumberOf(s), c.num)
\* eval_bool: AND binds tighter than OR, so some group between ORs holds.
GroupOf(conds, i) == Cardinality({j \in 1..i : conds[j].op = "or"})
matches(conds, lsn) ==
    conds = <<>> \/ \E g \in 0..Len(conds) :
        /\ \E i \in DOMAIN conds : GroupOf(conds, i) = g
        /\ \A i \in DOMAIN conds : GroupOf(conds, i) = g => cmp_json(lsn, conds[i])
PassesFilters(q, lsn) == /\ q.label # NoValue => At(lsn).kind = q.label
                         /\ matches(q.conds, lsn)
-----------------------------------------------------------------------------
(* The hints.  An OR anywhere disqualifies each of them.                   *)

HasOr(conds) == \E i \in DOMAIN conds : conds[i].op = "or"
FirstWhere(conds, Test(_)) ==
    LET fit == {i \in DOMAIN conds : Test(conds[i])} IN IF fit = {} THEN 0 ELSE Min(fit)

\* attr_eq_hint: kind is looked up as the pseudo-attribute _kind.
EqOn(c, fields) == c.cmp = "eq" /\ ~IsNum(c) /\ c.field \in fields
attr_eq_hint(conds) ==
    LET i == FirstWhere(conds, LAMBDA c : EqOn(c, {"v", "kind"}))
    IN  IF HasOr(conds) \/ i = 0 THEN NoHint ELSE <<conds[i].field, conds[i].str>>

\* attr_range_hint: the tightest numeric bounds on the first field outside the
\* envelope that is compared with a number; of two equal bounds the first one
\* written decides whether it is inclusive.
NumericOn(conds, field, cmps) ==
    {i \in DOMAIN conds : conds[i].field = field /\ IsNum(conds[i]) /\ Cmp(conds[i]) \in cmps}
Tightest(conds, field, cmps, Best(_)) ==
    LET is == NumericOn(conds, field, cmps)
        n == Best({conds[i].num : i \in is})
        first == Min({i \in is : conds[i].num = n})
    IN  IF is = {} THEN NoHint ELSE <<n, Cmp(conds[first]) \in {"ge", "le"}>>
attr_range_hint(conds) ==
    LET i == FirstWhere(conds, LAMBDA c : IsNum(c) /\ c.field \in {"v", "ts_hlc"})
        field == conds[i].field
        lo == Tightest(conds, field, {"gt", "ge"}, Max)
        hi == Tightest(conds, field, {"lt", "le"}, Min)
    IN  IF HasOr(conds) \/ i = 0 \/ (lo = NoHint /\ hi = NoHint) THEN NoHint ELSE <<field, lo, hi>>
InRange(n, lo, hi) ==
    /\ lo # NoHint => IF lo[2] THEN n >= lo[1] ELSE n > lo[1]
    /\ hi # NoHint => IF hi[2] THEN n <= hi[1] ELSE n < hi[1]

builtin_skip_hint(conds) ==
    LET i == FirstWhere(conds, LAMBDA c : EqOn(c, {"agent_id"}))
    IN  IF HasOr(conds) \/ i = 0 THEN NoHint ELSE <<conds[i].str>>

\* lsn_window, for literals that are natural numbers.
LsnBounds(conds, cmps) == {conds[i].num : i \in {j \in DOMAIN conds :
                              conds[j].field = "lsn" /\ IsNum(conds[j]) /\ Cmp(conds[j]) \in cmps}}
Above(conds) == LsnBounds(conds, {"ge", "eq"}) \cup {n + 1 : n \in LsnBounds(conds, {"gt"})}
Below(conds) == LsnBounds(conds, {"lt"}) \cup {n + 1 : n \in LsnBounds(conds, {"le", "eq"})}
BoundOf(q) == IF q.as_of = NoBound THEN QrMaxLog ELSE q.as_of
lsn_window(q) ==
    IF HasOr(q.conds) THEN 0..(BoundOf(q) - 1)
    ELSE {l \in 0..(BoundOf(q) - 1) : /\ \A n \in Above(q.conds) : l >= n
                                      /\ \A n \in Below(q.conds) : l < n}
-----------------------------------------------------------------------------
(* What the two backends find in their index.  No answer is NoHint, and    *)
(* the planner scans; an answer is <<lsns>>.                               *)

\* AttrIndex: every record but for values of SKIP_VALUES.
EngineEq(h) == IF h[1] = "kind" THEN {l \in qrIndexed : At(l).kind = h[2]}
               ELSE {l \in qrIndexed : At(l).v = h[2] /\ h[2] \notin SkipValues}
EngineRange(h) == {l \in qrIndexed : /\ h[1] = "v" /\ At(l).v \notin SkipValues
                                     /\ NumberOf(At(l).v) # NotNumber
                                     /\ InRange(NumberOf(At(l).v), h[2], h[3])}
\* LogBackend: nothing under a field or a value is None; _kind is not an attribute.
ReferenceEq(h, bound) ==
    LET found == {l \in qrBundle.has : l < bound /\ At(l).v = h[2]}
    IN  IF h[1] = "kind" \/ found = {} THEN NoHint ELSE <<found>>
ReferenceRange(h, bound) ==
    IF h[1] # "v" \/ \A l \in qrBundle.has : At(l).v = NoValue THEN NoHint
    ELSE <<{l \in qrBundle.has : /\ l < bound /\ NumberOf(At(l).v) # NotNumber
                                 /\ InRange(NumberOf(At(l).v), h[2], h[3])}>>
-----------------------------------------------------------------------------
(* The log and the index under the query, until it ends.                   *)

Story(n) ==
    CASE n = 1 -> <<[agent |-> "a", kind |-> "k", v |-> "2"], [agent |-> "b", kind |-> "k", v |-> "10"],
                    [agent |-> "a", kind |-> "j", v |-> "w"], [agent |-> "a", kind |-> "k", v |-> "2"]>>
      [] n = 2 -> <<[agent |-> "b", kind |-> "j", v |-> NoValue], [agent |-> "a", kind |-> "k", v |-> "w"],
                    [agent |-> "a", kind |-> "j", v |-> "10"], [agent |-> "b", kind |-> "k", v |-> "w"]>>
      [] n = 3 -> <<[agent |-> "a", kind |-> "k", v |-> "true"], [agent |-> "b", kind |-> "k", v |-> "0"],
                    [agent |-> "a", kind |-> "k", v |-> "2"], [agent |-> "a", kind |-> "k", v |-> "w"]>>

QrInit ==
    /\ qrBackend \in {"engine", "reference"}
    /\ qrStory \in {n \in 1..3 : \A i \in DOMAIN Story(n) : Story(n)[i].v \in QrValues \cup {NoValue}}
    /\ qrLog = <<>> /\ qrSealed = <<>> /\ qrActive = 0
    /\ qrIndexed = {} /\ qrBundle = [lsn |-> 0, has |-> {}]
    /\ qrCall = QrNoCall

Log_append ==
    /\ QrHead < QrMaxLog /\ qrCall.pc # "done"
    /\ qrLog' = Append(qrLog, Story(qrStory)[QrHead + 1])
    /\ UNCHANGED <<qrBackend, qrStory, qrSealed, qrActive, qrIndexed, qrBundle, qrCall>>

\* An appender of the engine puts its record in the index, after or before others.
index_applied(l) ==
    /\ qrBackend = "engine" /\ l \notin qrIndexed /\ qrCall.pc # "done"
    /\ qrIndexed' = qrIndexed \cup {l}
    /\ UNCHANGED <<qrBackend, qrStory, qrLog, qrSealed, qrActive, qrBundle, qrCall>>

\* The metadata of an empty segment says max_lsn = base_lsn.
QrRoll ==
    /\ qrBackend = "reference" /\ Len(qrSealed) < QrMaxRolls /\ qrCall.pc # "done"
    /\ QrHead > qrActive \/ QrEmptyRolls
    /\ qrSealed' = Append(qrSealed, [base |-> qrActive, max |-> Max({qrActive, QrHead - 1}), zone |-> NoZone])
    /\ qrActive' = QrHead
    /\ UNCHANGED <<qrBackend, qrStory, qrLog, qrIndexed, qrBundle, qrCall>>

\* (mutant: the bundle claims a record that is not written yet)
sync_bundle_plus_one(pinned) ==
    IF qrBundle.lsn >= pinned THEN qrBundle
    ELSE [lsn |-> pinned + 1, has |-> qrBundle.has \cup qrBundle.lsn..(pinned - 1)]
\* sync_bundle, under its mutex: only the records in [bundle.lsn, pinned) are added.
sync_bundle(pinned) ==
    IF qrBundle.lsn >= pinned THEN qrBundle
    ELSE [lsn |-> pinned, has |-> qrBundle.has \cup qrBundle.lsn..(pinned - 1)]

\* Another query has pinned a head, the current one or an older one.
QrOtherSync ==
    /\ qrBackend = "reference" /\ qrCall.pc # "done"
    /\ \E pinned \in 0..QrHead : qrBundle' = sync_bundle(pinned) /\ qrBundle' # qrBundle
    /\ UNCHANGED <<qrBackend, qrStory, qrLog, qrSealed, qrActive, qrIndexed, qrCall>>

\* zone_map_for: cached, or built from a scan, which ends at the head.
SegmentLsns(i) == qrSealed[i].base..qrSealed[i].max \cap QrLsns
zone_map_for(i) == IF qrSealed[i].zone # NoZone THEN qrSealed[i].zone
                   ELSE {At(l).agent : l \in SegmentLsns(i)}

\* Another query comes by a segment.
QrOtherZone(i) ==
    /\ qrBackend = "reference" /\ qrCall.pc # "done" /\ qrSealed[i].zone = NoZone
    /\ qrSealed' = [qrSealed EXCEPT ![i].zone = zone_map_for(i)]
    /\ UNCHANGED <<qrBackend, qrStory, qrLog, qrActive, qrIndexed, qrBundle, qrCall>>
-----------------------------------------------------------------------------
(* A query.                                                                *)

QrSteps(changes) ==
    /\ qrCall' = changes
    /\ UNCHANGED <<qrBackend, qrStory, qrLog, qrSealed, qrActive, qrIndexed>>

\* The conditions; a second one comes later in the list, joined by AND or OR.
Pool == SelectSeq(<<Cond("first", "v", "eq", NotNumber, "w", FALSE), Cond("first", "v", "eq", NotNumber, "2", TRUE),
                    Cond("first", "v", "eq", NotNumber, "true", FALSE), Cond("first", "v", "gt", 2, NoValue, FALSE),
                    Cond("first", "v", "ge", 2, NoValue, FALSE), Cond("first", "v", "gt", 10, NoValue, TRUE),
                    Cond("first", "kind", "eq", NotNumber, "k", FALSE), Cond("first", "agent_id", "eq", NotNumber, "a", FALSE),
                    Cond("first", "lsn", "ge", 1, NoValue, FALSE), Cond("first", "lsn", "ge", 1, NoValue, TRUE),
                    Cond("first", "ts_hlc", "gt", 0, NoValue, FALSE)>>, LAMBDA c : c.field \in QrFields)
Wheres == {<<Pool[i]>> : i \in DOMAIN Pool}
     \cup UNION {{<<Pool[i], [Pool[j] EXCEPT !.op = op]>> : i \in 1..(j - 1), op \in {"and", "or"}} : j \in DOMAIN Pool}

\* Every record counts for the reference; for the engine those whose append has returned.
QrStart ==
    /\ qrCall.pc = "idle"
    /\ \E conds \in Wheres, scope \in {<<NoValue, NoBound>>, <<"k", NoBound>>, <<NoValue, 2>>} :
        QrSteps([QrNoCall EXCEPT !.pc = "plan", !.conds = conds, !.label = scope[1], !.as_of = scope[2],
                                 !.acked = IF qrBackend = "engine" THEN qrIndexed ELSE QrLsns])
    /\ UNCHANGED qrBundle

\* execute, ScanFilter: which access path.  The engine has no scan_builtin_eq,
\* and the adaptive reference may decline it.
execute ==
    /\ qrCall.pc = "plan"
    /\ LET eq == attr_eq_hint(qrCall.conds)
           range == attr_range_hint(qrCall.conds)
           zones == builtin_skip_hint(qrCall.conds)
           found == {l \in IF eq # NoHint THEN EngineEq(eq) ELSE EngineRange(range) : l < BoundOf(qrCall)}
       IN  IF eq # NoHint \/ range # NoHint
           THEN QrSteps(IF qrBackend = "engine"
                        THEN [qrCall EXCEPT !.pc = "done", !.found = found]
                        ELSE [qrCall EXCEPT !.pc = "sync", !.pinned = QrHead])
           ELSE \/ QrSteps([qrCall EXCEPT !.pc = "scan"])
                \/ /\ zones # NoHint /\ qrBackend = "reference"
                   /\ QrSteps([qrCall EXCEPT !.pc = "zones", !.segs = Len(qrSealed), !.seg = 1])
    /\ UNCHANGED qrBundle

QrSync == /\ qrCall.pc = "sync"
          /\ qrBundle' = sync_bundle(qrCall.pinned)
          /\ QrSteps([qrCall EXCEPT !.pc = "lookup"])

\* LogBackend::attr_lookup and attr_range_lookup, in the bundle of now.
QrLookup ==
    /\ qrCall.pc = "lookup"
    /\ LET eq == attr_eq_hint(qrCall.conds)
           answer == IF eq # NoHint THEN ReferenceEq(eq, BoundOf(qrCall))
                     ELSE ReferenceRange(attr_range_hint(qrCall.conds), BoundOf(qrCall))
       IN  QrSteps(IF answer = NoHint THEN [qrCall EXCEPT !.pc = "scan"]
                   ELSE [qrCall EXCEPT !.pc = "done", !.found = answer[1]])
    /\ UNCHANGED qrBundle

QrScan == /\ qrCall.pc = "scan"
          /\ QrSteps([qrCall EXCEPT !.pc = "done", !.found = lsn_window(qrCall) \cap QrLsns])
          /\ UNCHANGED qrBundle

\* scan_pruned, one sealed segment.
scan_pruned ==
    /\ qrCall.pc = "zones" /\ qrCall.seg <= qrCall.segs
    /\ LET i == qrCall.seg
           hit == builtin_skip_hint(qrCall.conds)[1] \in zone_map_for(i)
       IN  /\ qrSealed' = [qrSealed EXCEPT ![i].zone = zone_map_for(i)]
           /\ qrCall' = [qrCall EXCEPT !.seg = i + 1,
                                       !.found = @ \cup IF hit THEN SegmentLsns(i) ELSE {}]
    /\ UNCHANGED <<qrBackend, qrStory, qrLog, qrActive, qrIndexed, qrBundle>>

\* The records after the last of the segments listed.
UnsealedFrom(call) == IF call.segs = 0 THEN 0 ELSE qrSealed[call.segs].max + 1
QrTail ==
    /\ qrCall.pc = "zones" /\ qrCall.seg > qrCall.segs
    /\ LET all == qrCall.found \cup UnsealedFrom(qrCall)..(QrHead - 1)
       IN  QrSteps([qrCall EXCEPT !.pc = "done", !.found = {l \in all : l < BoundOf(qrCall)}])
    /\ UNCHANGED qrBundle

QrNext == \/ Log_append \/ QrRoll \/ QrOtherSync
          \/ (\E l \in QrLsns : index_applied(l)) \/ (\E i \in DOMAIN qrSealed : QrOtherZone(i))
          \/ QrStart \/ execute \/ QrSync \/ QrLookup \/ QrScan \/ scan_pruned \/ QrTail

QrSpec == QrInit /\ [][QrNext]_qrVars
-----------------------------------------------------------------------------
\* execute filters what it found again; these are its rows.
QrRows == {l \in qrCall.found : PassesFilters(qrCall, l)}

(* The access path costs or saves time and decides nothing: a query returns*)
(* what a scan of the whole log up to its AS OF would, for every record    *)
(* whose append had returned when the query began, whatever the hints, the *)
(* bundle's age, the zone maps and the appends meanwhile.  ("the           *)
(* post-filter matches revalidates everything, so correctness never        *)
(* depends on this", plan.rs.)                                             *)
QueryExact ==
    qrCall.pc = "done" =>
        LET ref == {l \in QrLsns : l < BoundOf(qrCall) /\ PassesFilters(qrCall, l)}
        IN  QrRows \subseteq ref /\ ref \cap qrCall.acked \subseteq QrRows
=============================================================================
