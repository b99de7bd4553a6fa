------------------------------ MODULE Cluster ------------------------------
(***************************************************************************)
(* A replicated server (heraclitus-server/src/cluster.rs and append_internal*)
(* of engine.rs, heraclitus-raft/src/net.rs and grpc.rs, submit_episode and*)
(* apply of consensus.rs): nodes that boot, join or fail to, take writes,  *)
(* pass them through the consensus, apply what it commits and index it,    *)
(* over a transport that opens a connection for each request.              *)
(*                                                                         *)
(* openraft is a library: its elections, its replication and its commit    *)
(* rule are external.  A node's raft log and vote survive a crash          *)
(* (RaftStorage), and so does its episode log, under FsyncPolicy::Always.  *)
(***************************************************************************)
EXTENDS Naturals, Sequences, SequencesExt, FiniteSetsExt, HlcClock

CONSTANTS ClNodes,        \* ReplicationConfig::peers
          ClSeed,         \* the node with bootstrap = true
          ClCallers,      \* threads inside Engine::append
          ClMaxEpisodes,  \* bound: episodes submitted
          ClMaxTerms,     \* bound: elections
          ClMaxFails,     \* bound: requests given up
          ClMaxCrashes,   \* bound: crashes and shutdowns
          ClSpawnFails    \* whether cluster::spawn may fail to bind

ClNobody == "none"
ASSUME ClAssumption == IsFiniteSet(ClNodes) /\ ClSeed \in ClNodes /\ ClNobody \notin ClNodes

VARIABLES clNode,   \* [node -> its process and its disk]
          clLeader, \* the leader of the last election, or ClNobody
          clTerm,   \* its term
          clMatch,  \* [node -> the entries the leader believes it has]
          clRpc,    \* the request the leader waits for
          clWire,   \* requests and answers on their connections
          clCall,   \* [caller -> where its append stands]
          clIds,    \* episodes submitted
          clAcked,  \* [lsn, id] answered Ok (history)
          clCrashes
clVars == <<clNode, clLeader, clTerm, clMatch, clRpc, clWire, clCall, clIds, clAcked, clCrashes>>

Majority(S) == 2 * Cardinality(S) > Cardinality(ClNodes)
Entry(kind, term, id) == [kind |-> kind, term |-> term, id |-> id]
IdleCall == [pc |-> "idle", node |-> ClNobody, id |-> 0, at |-> 0]
IdleRpc(seq) == [to |-> ClNobody, seq |-> seq, upto |-> 0]
LastTerm(raft) == IF raft = <<>> THEN 0 ELSE Last(raft).term
LastTs(log) == IF log = <<>> THEN 0 ELSE Last(log).ts
Serving(n) == clNode[n].pc \in {"joined", "alone"}
ClApplying(n) == clNode[n].pc \in {"joined", "closing"}
Indexed(log) == {[lsn |-> i - 1, id |-> log[i].id, ts |-> log[i].ts] : i \in DOMAIN log}

ClInit ==
    /\ clNode = [n \in ClNodes |->
          [pc |-> "joined", raft |-> <<>>, log |-> <<>>, views |-> {}, commit |-> 0,
           applied |-> 0, normals |-> 0, skip |-> 0, meta |-> [applied |-> 0, normals |-> 0]]]
    /\ clLeader = ClNobody /\ clTerm = 0
    /\ clMatch = [n \in ClNodes |-> 0] /\ clRpc = IdleRpc(0) /\ clWire = {}
    /\ clCall = [c \in ClCallers |-> IdleCall]
    /\ clIds = 0 /\ clAcked = {} /\ clCrashes = 0
-----------------------------------------------------------------------------
(* Boot, bootstrap, shutdown and crash.                                    *)

\* Engine::open, then FileRaftLog::open and EpisodeStateMachine::open_durable.
cluster_spawn(n) ==
    /\ clNode[n].pc = "down" /\ Len(clNode[n].log) >= clNode[n].meta.normals
    /\ clNode' = [clNode EXCEPT ![n].pc = "joined",
          ![n].applied = clNode[n].meta.applied, ![n].normals = clNode[n].meta.normals,
          ![n].skip = Len(clNode[n].log) - clNode[n].meta.normals,
          ![n].commit = clNode[n].meta.applied,
          ![n].views = Indexed(clNode[n].log)]
    /\ UNCHANGED <<clLeader, clTerm, clMatch, clRpc, clWire, clCall, clIds, clAcked, clCrashes>>
\* serve_with goes on when it fails, and no router is installed.
cluster_spawn_fails(n) ==
    /\ ClSpawnFails /\ clNode[n].pc = "down"
    /\ clNode' = [clNode EXCEPT ![n].pc = "alone", ![n].views = Indexed(clNode[n].log)]
    /\ UNCHANGED <<clLeader, clTerm, clMatch, clRpc, clWire, clCall, clIds, clAcked, clCrashes>>

\* The seed tries again and again; an initialised cluster refuses.
initialize_cluster ==
    /\ clNode[ClSeed].pc = "joined" /\ clNode[ClSeed].raft = <<>>
    /\ clNode' = [clNode EXCEPT ![ClSeed].raft = <<Entry("member", 0, 0)>>]
    /\ UNCHANGED <<clLeader, clTerm, clMatch, clRpc, clWire, clCall, clIds, clAcked, clCrashes>>

\* ClusterTasks::abort: no more requests served, no more writes taken; raft goes on.
ClShutdown(n) ==
    /\ Serving(n) /\ clCrashes < ClMaxCrashes /\ clCrashes' = clCrashes + 1
    /\ clNode' = [clNode EXCEPT ![n].pc = IF @ = "joined" THEN "closing" ELSE "down"]
    /\ clCall' = [c \in ClCallers |-> IF clCall[c].pc = "queued" /\ clCall[c].node = n
                                      THEN IdleCall ELSE clCall[c]]
    /\ UNCHANGED <<clLeader, clTerm, clMatch, clRpc, clWire, clIds, clAcked>>
Gone(n) ==
    /\ clLeader' = IF clLeader = n THEN ClNobody ELSE clLeader
    /\ clCall' = [c \in ClCallers |-> IF clCall[c].node = n THEN IdleCall ELSE clCall[c]]
    /\ clRpc' = IF clLeader = n THEN IdleRpc(clRpc.seq) ELSE clRpc
    /\ clWire' = {w \in clWire : w.to # n /\ clLeader # n}
ClExit(n) ==
    /\ clNode[n].pc = "closing" /\ clNode' = [clNode EXCEPT ![n].pc = "down"]
    /\ Gone(n) /\ UNCHANGED <<clTerm, clMatch, clIds, clAcked, clCrashes>>
ClCrash(n) ==
    /\ clNode[n].pc # "down" /\ clCrashes < ClMaxCrashes /\ clCrashes' = clCrashes + 1
    /\ clNode' = [clNode EXCEPT ![n].pc = "down"]
    /\ Gone(n) /\ UNCHANGED <<clTerm, clMatch, clIds, clAcked>>
-----------------------------------------------------------------------------
(* openraft: an election among the nodes that are up, and the commit rule. *)

UpToDate(m, q) ==
    LET a == clNode[m].raft  b == clNode[q].raft
    IN  LastTerm(a) > LastTerm(b) \/ (LastTerm(a) = LastTerm(b) /\ Len(a) >= Len(b))
ClElect(m) ==
    /\ clTerm < ClMaxTerms /\ clNode[m].pc = "joined" /\ clNode[m].raft # <<>>
    /\ Majority({q \in ClNodes : ClApplying(q) /\ UpToDate(m, q)})
    /\ clLeader' = m /\ clTerm' = clTerm + 1
    /\ clNode' = [clNode EXCEPT ![m].raft = Append(@, Entry("blank", clTerm + 1, 0))]
    /\ clMatch' = [n \in ClNodes |-> 0] /\ clRpc' = IdleRpc(clRpc.seq)
    /\ clWire' = {}   \* a request of an older term is refused
    /\ UNCHANGED <<clCall, clIds, clAcked, clCrashes>>
ClCommit ==
    /\ clLeader # ClNobody
    /\ LET raft == clNode[clLeader].raft
           held(k) == Majority({clLeader} \cup {n \in ClNodes : clMatch[n] >= k})
           ks == {k \in DOMAIN raft : held(k) /\ raft[k].term = clTerm}
       IN  /\ ks # {} /\ Max(ks) > clNode[clLeader].commit
           /\ clNode' = [clNode EXCEPT ![clLeader].commit = Max(ks)]
    /\ UNCHANGED <<clLeader, clTerm, clMatch, clRpc, clWire, clCall, clIds, clAcked, clCrashes>>
-----------------------------------------------------------------------------
(* The transport: TcpConnection::call and GrpcConnection connect for each  *)
(* request, so that an answer can only be read by the call it is for; the  *)
(* server takes requests of different connections in any order.  The       *)
(* answer to AppendEntries says no more than that it succeeded.            *)

call(n) ==
    /\ clLeader \notin {ClNobody, n} /\ clRpc.to = ClNobody
    /\ clMatch[n] < Len(clNode[clLeader].raft) \/ clNode[n].commit < clNode[clLeader].commit
    /\ LET raft == clNode[clLeader].raft
       IN  /\ clRpc' = [clRpc EXCEPT !.to = n, !.upto = Len(raft)]
           /\ clWire' = clWire \cup {[way |-> "request", to |-> n, seq |-> clRpc.seq,
                                      raft |-> raft, commit |-> clNode[clLeader].commit]}
    /\ UNCHANGED <<clNode, clLeader, clTerm, clMatch, clCall, clIds, clAcked, clCrashes>>
\* RPCError::Unreachable: the call is given up, wherever its request is.
call_fails ==
    /\ clRpc.to # ClNobody /\ clRpc.seq < ClMaxFails /\ clRpc' = IdleRpc(clRpc.seq + 1)
    /\ UNCHANGED <<clNode, clLeader, clTerm, clMatch, clWire, clCall, clIds, clAcked, clCrashes>>
\* serve: a task for each connection hands the request to the local Raft.
ClServe(n) ==
    /\ clNode[n].pc = "joined"
    /\ \E w \in clWire :
          /\ w.way = "request" /\ w.to = n
          /\ clWire' = (clWire \ {w})
                \cup {[w EXCEPT !.way = "answer", !.raft = <<>>, !.commit = 0]}
          /\ clNode' = [clNode EXCEPT ![n].raft = IF IsPrefix(w.raft, @) THEN @ ELSE w.raft,
                                      ![n].commit = Max({@, w.commit})]
    /\ UNCHANGED <<clLeader, clTerm, clMatch, clRpc, clCall, clIds, clAcked, clCrashes>>
\* (mutant: a connection kept open, whose next call reads the answer the last one left)
Mine_kept(w) == w.way = "answer" /\ w.to = clRpc.to
Mine(w) == w.way = "answer" /\ w.to = clRpc.to /\ w.seq = clRpc.seq
call_returns ==
    /\ clLeader # ClNobody
    /\ \E w \in clWire :
          /\ Mine(w) /\ clWire' = clWire \ {w}
          /\ clMatch' = [clMatch EXCEPT ![w.to] = Max({@, clRpc.upto})]
    /\ clRpc' = IdleRpc(clRpc.seq)
    /\ UNCHANGED <<clNode, clLeader, clTerm, clCall, clIds, clAcked, clCrashes>>
-----------------------------------------------------------------------------
(* A write: append_internal, the submission channel and its tasks.         *)

\* With a router the write is queued, without one it goes to the local log.
append_internal(c, n) ==
    /\ clCall[c].pc = "idle" /\ clIds < ClMaxEpisodes /\ Serving(n)
    /\ clIds' = clIds + 1
    /\ IF clNode[n].pc = "joined"
       THEN /\ clCall' = [clCall EXCEPT ![c] = [IdleCall EXCEPT !.pc = "queued", !.node = n, !.id = clIds + 1]]
            /\ UNCHANGED <<clNode, clAcked>>
       ELSE LET log == Append(clNode[n].log, [id |-> clIds + 1, ts |-> HlcNow(LastTs(clNode[n].log), 0)])
            IN  /\ clNode' = [clNode EXCEPT ![n].log = log, ![n].views = Indexed(log)]
                /\ clAcked' = clAcked \cup {[lsn |-> Len(log) - 1, id |-> clIds + 1]}
                /\ UNCHANGED clCall
    /\ UNCHANGED <<clLeader, clTerm, clMatch, clRpc, clWire, clCrashes>>
\* submit_episode in a task of its own: Raft::client_write, or NotLeader.
submit_episode(c) ==
    /\ clCall[c].pc = "queued"
    /\ LET n == clCall[c].node
       IN  IF clLeader = n
           THEN /\ clNode' = [clNode EXCEPT ![n].raft = Append(@, Entry("normal", clTerm, clCall[c].id))]
                /\ clCall' = [clCall EXCEPT ![c].pc = "written", ![c].at = Len(clNode[n].raft) + 1]
           ELSE clCall' = [clCall EXCEPT ![c] = IdleCall] /\ UNCHANGED clNode
    /\ UNCHANGED <<clLeader, clTerm, clMatch, clRpc, clWire, clIds, clAcked, clCrashes>>
\* A leader that was deposed answers with an error what it may yet see committed.
submit_fails(c) ==
    /\ clCall[c].pc = "written" /\ clLeader # clCall[c].node
    /\ clCall' = [clCall EXCEPT ![c] = IdleCall]
    /\ UNCHANGED <<clNode, clLeader, clTerm, clMatch, clRpc, clWire, clIds, clAcked, clCrashes>>

\* EpisodeStateMachine::apply of one entry, with the hook that indexes it.
\* (mutant: an episode that is on disk already is appended again)
Skips_none(node) == FALSE
Skips(node) == node.skip > 0
Applied(node, entry) ==
    LET next == [node EXCEPT !.applied = @ + 1]
        ep == [id |-> entry.id, ts |-> 0]
    IN  IF entry.kind # "normal" THEN next
        ELSE IF Skips(node) THEN [next EXCEPT !.normals = @ + 1, !.skip = @ - 1]
        ELSE [next EXCEPT !.normals = @ + 1, !.log = Append(@, ep),
                          !.views = @ \cup {[lsn |-> Len(node.log), id |-> ep.id, ts |-> ep.ts]}]
\* persist_sm_meta ends the batch, unless a crash does.
ClPersisted(node) == [node EXCEPT !.meta = [applied |-> node.applied, normals |-> node.normals]]
ClApply(n) ==
    /\ ClApplying(n) /\ clNode[n].applied < clNode[n].commit
    /\ \E upto \in (clNode[n].applied + 1)..clNode[n].commit :
          LET At(i) == FoldLeft(Applied, clNode[n], SubSeq(clNode[n].raft, clNode[n].applied + 1, i))
              mine == {c \in ClCallers : clCall[c].pc = "written" /\ clCall[c].node = n /\ clCall[c].at <= upto}
              won == {c \in mine : clNode[n].raft[clCall[c].at].id = clCall[c].id}
          IN  \/ /\ upto = clNode[n].commit /\ clNode' = [clNode EXCEPT ![n] = ClPersisted(At(upto))]
                 /\ clCall' = [c \in ClCallers |-> IF c \in mine THEN IdleCall ELSE clCall[c]]
                 /\ clAcked' = clAcked \cup {[lsn |-> At(clCall[c].at).normals - 1, id |-> clCall[c].id] : c \in won}
                 /\ UNCHANGED <<clLeader, clRpc, clWire, clCrashes>>
              \/ /\ clCrashes < ClMaxCrashes /\ clCrashes' = clCrashes + 1
                 /\ clNode' = [clNode EXCEPT ![n] = [At(upto) EXCEPT !.pc = "down"]]
                 /\ Gone(n) /\ UNCHANGED clAcked
    /\ UNCHANGED <<clTerm, clMatch, clIds>>

ClNext ==
    \/ \E n \in ClNodes : cluster_spawn(n) \/ cluster_spawn_fails(n) \/ ClShutdown(n) \/ ClExit(n) \/ ClCrash(n)
    \/ initialize_cluster \/ ClCommit \/ call_fails \/ call_returns
    \/ \E n \in ClNodes : ClElect(n) \/ call(n) \/ ClServe(n)
                          \/ ClApply(n)
    \/ \E c \in ClCallers : submit_episode(c) \/ submit_fails(c) \/ \E n \in ClNodes : append_internal(c, n)
ClSpec == ClInit /\ [][ClNext]_clVars
-----------------------------------------------------------------------------
(***************************************************************************)
(* The replicas are one log (consensus.rs: every node appends each         *)
(* committed episode at the same LSN, with the same stamp, once, through   *)
(* any crash): any two logs agree as far as both go, no episode is in a log*)
(* twice, an episode answered Ok has the LSN it was answered with on every *)
(* node and is held by a majority for ever, and a node's views are those of*)
(* its log (cluster.rs, "read-your-writes").                               *)
(***************************************************************************)
ReplicasExact ==
    /\ \A m, n \in ClNodes : \A i \in DOMAIN clNode[m].log \cap DOMAIN clNode[n].log :
          clNode[m].log[i] = clNode[n].log[i]
    /\ \A n \in ClNodes : \A i, j \in DOMAIN clNode[n].log :
          i # j => clNode[n].log[i].id # clNode[n].log[j].id
    /\ \A a \in clAcked :
          /\ \A n \in ClNodes : Len(clNode[n].log) > a.lsn => clNode[n].log[a.lsn + 1].id = a.id
          /\ Majority({n \in ClNodes : \E i \in DOMAIN clNode[n].raft : clNode[n].raft[i].id = a.id})
    /\ \A n \in ClNodes : clNode[n].pc # "down" => clNode[n].views = Indexed(clNode[n].log)

(***************************************************************************)
(* "The strict monotonicity of ts by LSN is the contract that AS OF        *)
(* TIMESTAMP depends on" (log/src/lib.rs:1829).  With replication nobody   *)
(* stamps an episode: append_replicated keeps the stamp of the leader, and *)
(* the leader submits the episode as Episode::new made it, with 0.         *)
(***************************************************************************)
ClusterStamps ==
    \A n \in ClNodes : \A i \in 2..Len(clNode[n].log) : clNode[n].log[i - 1].ts < clNode[n].log[i].ts
=============================================================================
