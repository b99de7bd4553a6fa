----------------------------- MODULE Analytics -----------------------------
(***************************************************************************)
(* heraclitus-analytics: the analytical SELECT over the events table, from *)
(* its tokens to rows.  The planner compiles predicates and a grouping, the*)
(* optimizer orders the filters by their estimated selectivity, and the    *)
(* executor runs the plan over batches: of a size that depends on a cache, *)
(* on one thread or several, with filters one by one or fused.  None of    *)
(* this may change the result.                                             *)
(*                                                                         *)
(* A cell is a number; a text column has its texts numbered in their order.*)
(***************************************************************************)
EXTENDS Integers, Sequences, FiniteSets, FiniteSetsExt, SequencesExt

CONSTANTS VxColumns,   \* the columns, in order: [name, text]
          VxEvents,    \* the rows: tuples of cells
          VxLiterals,  \* values of literals
          VxEstimates, \* estimated selectivities, in percent
          VxLadder,    \* MORSEL_LADDER
          VxCaches,    \* rows that fit in the cache: target_cache_bytes \div bytes_per_row
          VxCpus,      \* numbers of logical CPUs
          VxMaxPreds,  \* bound: predicates of a query
          VxMaxKeys    \* bound: columns of GROUP BY, and of SUM

VARIABLES vxPhase, \* what the planner expects, or how far the plan is
          vxQuery, \* predicates, keys and sums of the query so far
          vxSetup, \* the estimates by predicate, rows per batch, CPUs
          vxDag,   \* the nodes, [op, arg, deps]; the id of a node is its place - 1
          vxRun    \* execute: the next node, the results by node
vxVars == <<vxPhase, vxQuery, vxSetup, vxDag, vxRun>>

NoQuery == [preds |-> <<>>, keys |-> <<>>, sums |-> <<>>, open |-> <<>>]
NoSetup == [est |-> <<>>, rows |-> 1, cpus |-> 1]
VxIdle == [next |-> 1, scans |-> 0, results |-> [id \in {} |-> <<>>]]
Default == 50
-----------------------------------------------------------------------------
(* The planner.  compile reads a token at a time: what it expects next is  *)
(* the phase, and a token it does not expect is an error.                  *)

Column(name) == {i \in DOMAIN VxColumns : VxColumns[i].name = name}
Ended == {"select", "preds", "keys", "sums"}   \* expect_end may follow
AfterWord(w) ==
    CASE vxPhase = "start" /\ w = "SELECT" -> "select"
      [] vxPhase = "select" /\ w = "WHERE" -> "col"
      [] vxPhase = "preds" /\ w = "AND" -> "col"
      [] vxPhase \in {"select", "preds"} /\ w = "GROUP" -> "by"
      [] vxPhase = "by" /\ w = "BY" -> "key"
      [] vxPhase = "keys" /\ w = "SUM" -> "sum"
      [] OTHER -> "error"
Reading == Ended \cup {"start", "col", "op", "lit", "by", "key", "sum"}

Parse(phase, query) == /\ vxPhase \in Reading /\ vxPhase' = phase /\ vxQuery' = query
                       /\ UNCHANGED <<vxSetup, vxDag, vxRun>>
Keyword(w) == Parse(AfterWord(w), vxQuery)
Name(name) ==
    LET q == vxQuery
    IN  \/ (vxPhase \notin {"col", "key", "sum"} \/ Column(name) = {}) /\ Parse("error", q)
        \/ \E c \in Column(name) :
              \/ vxPhase = "col" /\ Parse("op", [q EXCEPT !.open = <<c>>])
              \/ vxPhase = "key" /\ Len(q.keys) < VxMaxKeys /\ Parse("keys", [q EXCEPT !.keys = Append(@, c)])
              \/ /\ vxPhase = "sum" /\ Len(q.sums) < VxMaxKeys
                 /\ IF VxColumns[c].text THEN Parse("error", q) ELSE Parse("sums", [q EXCEPT !.sums = Append(@, c)])
CmpTok(op) == Parse(IF vxPhase = "op" THEN "lit" ELSE "error", [vxQuery EXCEPT !.open = Append(@, op)])
Comma == Parse(CASE vxPhase = "keys" -> "key" [] vxPhase = "sums" -> "sum" [] OTHER -> "error", vxQuery)
\* literal: a string for a text column, an integer for another.
Lit(text, v) ==
    LET q == vxQuery
    IN  IF vxPhase = "lit" /\ VxColumns[q.open[1]].text = text
        THEN /\ Len(q.preds) < VxMaxPreds
             /\ Parse("preds", [q EXCEPT !.open = <<>>, !.preds = Append(@, [column |-> q.open[1], op |-> q.open[2], value |-> v])])
        ELSE Parse("error", q)
-----------------------------------------------------------------------------
(* The optimizer, and the batches.                                         *)

Node(op, arg, deps) == [op |-> op, arg |-> arg, deps |-> deps]
\* Most selective first; the sort is stable.
OrderedBy(est) == SortSeq([i \in DOMAIN est |-> i], LAMBDA i, j : est[i] < est[j] \/ (est[i] = est[j] /\ i < j))
lower(q, est) ==
    LET order == OrderedBy(est)
        filters == [k \in DOMAIN order |-> Node("filter", order[k], <<k - 1>>)]
    IN  <<Node("scan", <<>>, <<>>)>> \o filters
        \o IF q.keys = <<>> THEN <<>> ELSE <<Node("aggregate", <<q.keys, q.sums>>, <<Len(filters)>>)>>

\* The longest step of the ladder that fits in the cache, or the first one.
fit(cache) == LET fits == {i \in DOMAIN VxLadder : VxLadder[i] <= cache}
              IN  VxLadder[IF fits = {} THEN 1 ELSE Max(fits)]
\* slice::chunks.
Chunks(s, n) == [k \in 1..((Len(s) + n - 1) \div n) |-> SubSeq(s, (k - 1) * n + 1, Min({k * n, Len(s)}))]
episodes_to_batches_sized(rows) == Chunks(VxEvents, rows)
-----------------------------------------------------------------------------
(* The executor.                                                           *)

Passes(p, row) == CASE p.op = "eq" -> row[p.column] = p.value
                   [] p.op = "gt" -> row[p.column] > p.value
                   [] p.op = "lt" -> row[p.column] < p.value
filter_one(batch, p) == SelectSeq(batch, LAMBDA row : Passes(p, row))
\* The survivors of the first predicate, then those of them the next one keeps.
fused_filter_one(batch, preds) ==
    LET survivors == FoldLeft(LAMBDA s, p : SelectSeq(s, LAMBDA i : Passes(p, batch[i])), [i \in DOMAIN batch |-> i], preds)
    IN  [k \in DOMAIN survivors |-> batch[survivors[k]]]
\* Empty batches are dropped, by each worker of its own part of the input.
NonEmpty(batches) == SelectSeq(batches, LAMBDA b : b # <<>>)
PerBatch(input, Filter(_)) ==
    LET Work(part) == NonEmpty([i \in DOMAIN part |-> Filter(part[i])])
        cpus == vxSetup.cpus
    IN  IF cpus > 1 /\ Len(input) >= 4
        THEN LET parts == Chunks(input, (Len(input) + cpus - 1) \div cpus)
             IN  FlattenSeq([k \in DOMAIN parts |-> Work(parts[k])])
        ELSE Work(input)
run_filter(input, pid) == PerBatch(input, LAMBDA b : filter_one(b, vxQuery.preds[pid]))
run_fused_filters(input, pids) ==
    PerBatch(input, LAMBDA b : fused_filter_one(b, [k \in DOMAIN pids |-> vxQuery.preds[pids[k]]]))
\* The groups, in some order.
Cells(row, columns) == [k \in DOMAIN columns |-> row[columns[k]]]
SumOf(rows, c) == FoldLeft(LAMBDA acc, row : acc + row[c], 0, rows)
run_aggregate(input, keys, sums) ==
    LET rows == FlattenSeq(input)
        Group(key) == SelectSeq(rows, LAMBDA row : Cells(row, keys) = key)
        RowOf(key) == <<key, Len(Group(key)), [k \in DOMAIN sums |-> SumOf(Group(key), sums[k])]>>
    IN  <<SetToSeq({RowOf(Cells(rows[i], keys)) : i \in DOMAIN rows})>>
\* For each row of the right side, those of the left side with its key.
run_hash_join(left, right, lk, rk) ==
    LET Matching(row) == SelectSeq(FlattenSeq(left), LAMBDA l : l[lk] = row[rk])
        JoinedTo(row) == [k \in DOMAIN Matching(row) |-> Matching(row)[k] \o row]
        rights == FlattenSeq(right)
    IN  IF left = <<>> \/ right = <<>> THEN <<>>
        ELSE <<FlattenSeq([k \in DOMAIN rights |-> JoinedTo(rights[k])])>>

Id(i) == i - 1
Consumers(id) == Cardinality({i \in DOMAIN vxDag : id \in Range(vxDag[i].deps)})
\* (mutant: a filter that others read too is taken into the chain)
Chains_anyway(j) == j < Len(vxDag) /\ vxDag[j + 1].op = "filter" /\ vxDag[j + 1].deps = <<Id(j)>>
\* Node j + 1 is a filter of what only it reads of node j.
Chains(j) == /\ j < Len(vxDag) /\ vxDag[j + 1].op = "filter" /\ vxDag[j + 1].deps = <<Id(j)>>
             /\ Consumers(Id(j)) = 1
ChainEnd(i) == Min({j \in i..Len(vxDag) : ~Chains(j)})
\* The product of the estimates is below ADAPTIVE_FUSE_THRESHOLD, 5 percent.
Fuses(pids) == /\ Len(pids) >= 2
               /\ 100 * FoldLeft(LAMBDA acc, p : acc * vxSetup.est[p], 1, pids) < 5 * 100^Len(pids)
FilterChain(input, pids) ==
    IF Fuses(pids) THEN run_fused_filters(input, pids)
    ELSE FoldLeft(LAMBDA cur, p : run_filter(cur, p), input, pids)

Produces(last, out) ==
    /\ vxRun' = [vxRun EXCEPT !.next = last + 1, !.results = [id \in DOMAIN @ \cup {Id(last)} |->
                     IF id = Id(last) THEN out ELSE @[id]]]
    /\ vxPhase' = IF last = Len(vxDag) THEN "done" ELSE "run"
    /\ UNCHANGED <<vxQuery, vxSetup, vxDag>>
NodeOf(op) == vxPhase = "run" /\ vxDag[vxRun.next].op = op
Input(k) == vxRun.results[vxDag[vxRun.next].deps[k]]
HasInput == \A k \in DOMAIN vxDag[vxRun.next].deps : vxDag[vxRun.next].deps[k] \in DOMAIN vxRun.results

ColumnScan == NodeOf("scan") /\ Produces(vxRun.next, episodes_to_batches_sized(vxSetup.rows))
VectorFilter ==
    /\ NodeOf("filter") /\ HasInput
    /\ LET last == ChainEnd(vxRun.next)
       IN  Produces(last, FilterChain(Input(1), [k \in 1..(last - vxRun.next + 1) |-> vxDag[vxRun.next + k - 1].arg]))
VectorAggregate ==
    /\ NodeOf("aggregate") /\ HasInput
    /\ Produces(vxRun.next, run_aggregate(Input(1), vxDag[vxRun.next].arg[1], vxDag[vxRun.next].arg[2]))
HashJoin ==
    /\ NodeOf("join") /\ HasInput
    /\ Produces(vxRun.next, run_hash_join(Input(1), Input(2), vxDag[vxRun.next].arg[1], vxDag[vxRun.next].arg[2]))
-----------------------------------------------------------------------------
VxInit == /\ vxPhase = "start" /\ vxQuery = NoQuery /\ vxSetup = NoSetup
          /\ vxDag = <<>> /\ vxRun = VxIdle

Estimates == [DOMAIN vxQuery.preds -> VxEstimates]
Setup(est, rows, cpus) == vxSetup' = [est |-> est, rows |-> rows, cpus |-> cpus]
\* The end of the query, and run_analytical; Flight streams batches of the first size.
expect_end ==
    /\ vxPhase \in Ended
    /\ \E est \in Estimates, cache \in VxCaches, cpus \in VxCpus :
          Setup(est, fit(cache), cpus) /\ vxDag' = lower(vxQuery, est)
    /\ vxPhase' = "run" /\ UNCHANGED <<vxQuery, vxRun>>

\* A caller of the executor's own: the rows that pass the first filter, joined
\* with those of them that pass the others.
SelfJoin ==
    /\ vxPhase = "preds" /\ Len(vxQuery.preds) >= 2
    /\ LET n == Len(vxQuery.preds)
       IN  vxDag' = <<Node("scan", <<>>, <<>>)>> \o [k \in 1..n |-> Node("filter", k, <<k - 1>>)]
                    \o <<Node("join", <<1, 1>>, <<1, n>>)>>
    /\ \E est \in Estimates, cache \in VxCaches, cpus \in VxCpus : Setup(est, fit(cache), cpus)
    /\ vxPhase' = "run" /\ UNCHANGED <<vxQuery, vxRun>>

VxNext ==
    \/ (\E w \in {"SELECT", "WHERE", "AND", "GROUP", "BY", "SUM"} : Keyword(w))
    \/ (\E c \in DOMAIN VxColumns : Name(VxColumns[c].name)) \/ Name("no such column")
    \/ (\E op \in {"eq", "gt", "lt"} : CmpTok(op)) \/ Comma
    \/ (\E text \in BOOLEAN, v \in VxLiterals : Lit(text, v))
    \/ expect_end \/ SelfJoin \/ ColumnScan \/ VectorFilter \/ VectorAggregate \/ HashJoin
VxSpec == VxInit /\ [][VxNext]_vxVars
-----------------------------------------------------------------------------
\* What each node means, on rows without batches.
Meaning ==
    LET rows[i \in DOMAIN vxDag] ==
            LET x == vxDag[i]
                In(k) == rows[x.deps[k] + 1]
            IN  CASE x.op = "scan" -> VxEvents
                  [] x.op = "filter" -> SelectSeq(In(1), LAMBDA row : Passes(vxQuery.preds[x.arg], row))
                  [] x.op = "aggregate" -> run_aggregate(<<In(1)>>, x.arg[1], x.arg[2])[1]
                  [] x.op = "join" -> FlattenSeq(run_hash_join(<<In(1)>>, <<In(2)>>, x.arg[1], x.arg[2]))
    IN  rows
(* Gate C: every plan finishes, and its rows, in their order, are those of *)
(* its nodes taken one by one over the whole table, with every predicate of*)
(* the query among them, whatever the order of the filters, the rows of a  *)
(* batch, the number of threads and the fusion of filters.  ("A ordem muda *)
(* a latencia; nunca muda o resultado", vectorized.rs.)                    *)
VectorisedExact ==
    /\ vxPhase = "run" => HasInput
    /\ vxPhase = "done" =>
           /\ FlattenSeq(vxRun.results[Len(vxDag) - 1]) = Meaning[Len(vxDag)]
           /\ vxDag[Len(vxDag)].op = "filter" =>
                  FlattenSeq(vxRun.results[Len(vxDag) - 1])
                  = SelectSeq(VxEvents, LAMBDA row : \A i \in DOMAIN vxQuery.preds : Passes(vxQuery.preds[i], row))
=============================================================================
