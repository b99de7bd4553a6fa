---------------------------- MODULE MCComponents ----------------------------
(***************************************************************************)
(* The components that sit around the log, for TLC.  A behaviour picks one *)
(* of them and runs it to its bounds while the others stay in their initial*)
(* states: they share no state in these models, so what TLC explores is the*)
(* sum of their state graphs and not the product.                          *)
(***************************************************************************)
EXTENDS KeyStore, LogSubscription, SnapshotPins, Anchoring,
        BEpsilonTree, Memtable, ColdTier,
        MCRaftStorage

VARIABLE part   \* the component that runs
CompVars == <<part, ksVars, sbVars, spVars, anVars, btVars, mtVars, ctVars, vars>>

\* A B-tree starts from one of several files.
CompInit ==
    /\ part \in {"keys", "subscription", "pins", "anchoring", "btree",
                 "memtable", "tier", "raft"}
    /\ KsInit /\ SbInit /\ SpInit /\ AnInit /\ BtInit /\ MtInit /\ CtInit /\ Init
    /\ part # "btree" => btMap = BtEmpty
    /\ part # "raft" => scenario = [Base EXCEPT !.builds = TRUE]

CompNext ==
    /\ UNCHANGED part
    /\ \/ /\ part = "keys" /\ KsNext
          /\ UNCHANGED <<sbVars, spVars, anVars, btVars, mtVars, ctVars, vars>>
       \/ /\ part = "subscription" /\ SbNext
          /\ UNCHANGED <<ksVars, spVars, anVars, btVars, mtVars, ctVars, vars>>
       \/ /\ part = "pins" /\ SpNext
          /\ UNCHANGED <<ksVars, sbVars, anVars, btVars, mtVars, ctVars, vars>>
       \/ /\ part = "anchoring" /\ AnNext
          /\ UNCHANGED <<ksVars, sbVars, spVars, btVars, mtVars, ctVars, vars>>
       \/ /\ part = "btree" /\ BtNext
          /\ UNCHANGED <<ksVars, sbVars, spVars, anVars, mtVars, ctVars, vars>>
       \/ /\ part = "memtable" /\ MtNext
          /\ UNCHANGED <<ksVars, sbVars, spVars, anVars, btVars, ctVars, vars>>
       \/ /\ part = "tier" /\ CtNext
          /\ UNCHANGED <<ksVars, sbVars, spVars, anVars, btVars, mtVars, vars>>
       \/ /\ part = "raft" /\ Next
          /\ UNCHANGED <<ksVars, sbVars, spVars, anVars, btVars, mtVars, ctVars>>

\* SbFairness and RaftFairness, each where its component runs.
CompFairness ==
    /\ WF_sbVars(part = "subscription" /\ SbPublish)
    /\ WF_sbVars(part = "subscription" /\ SbSend)
    /\ WF_sbVars(part = "subscription" /\ SbStreamStep)
    /\ WF_vars(part = "raft" /\ (append_record \/ remember \/ rewrite_wal \/ write_meta \/ grant \/ submit))
    /\ WF_vars(part = "raft" /\ (apply_normal \/ apply \/ persist_sm_meta \/ install_episode \/ install_snapshot))
    /\ WF_vars(part = "raft" /\ (open \/ reapply \/ purge_covered \/ serve))
CompSpec == CompInit /\ [][CompNext]_CompVars /\ CompFairness
=============================================================================
