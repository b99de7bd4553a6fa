----------------------------- MODULE MCEngines -----------------------------
(***************************************************************************)
(* The query planner, the temporal views, the replicated server, the H-VM  *)
(* ledger, the columnar engines and distillation, for TLC: a behaviour     *)
(* runs one of them to its bounds while the others stay in their initial   *)
(* states, as in MCComponents.                                             *)
(***************************************************************************)
EXTENDS Query, TemporalGraph, Cluster, Hvm, HumeIr, HumeKernel, Analytics, Distillation

HvOneKey == {<<1, 2>>}
HvOneVal == {<<7>>}

IrSomeLiterals == {Val("I64", 1), Val("F64", 2), Bool(FALSE)}
IrTwoColumns == <<<<Val("I64", 1), Val("I64", -2), Val("I64", 0)>>, <<Val("F64", 1), Val("F64", NaN), Val("F64", 3)>>>>
HkOneArena == <<64, 32>>
HkSomeRequests == {<<3, 1>>, <<4, 4>>, <<8, 8>>, <<5, 2>>}
VxTwoColumns == <<[name |-> "lsn", text |-> FALSE], [name |-> "kind", text |-> TRUE]>>
VxFiveEvents == <<<<0, 1>>, <<1, 2>>, <<2, 1>>, <<3, 1>>, <<4, 2>>>>
VxThreeSteps == <<1, 2, 4>>

VARIABLE engine   \* the one that runs
EngVars == <<engine, qrVars, tgVars, clVars, hvVars, irVars, hkVars, vxVars, dsVars>>

\* The query starts from a backend and a history, the views from
\* a subject, the kernel from the object it uses.
EngInit ==
    /\ engine \in {"query", "graph", "cluster", "ledger", "ir", "kernel", "analytics",
                  "distillation"}
    /\ QrInit /\ TgInit /\ ClInit /\ HvInit /\ IrInit /\ HkInit /\ VxInit /\ DsInit
    /\ engine # "query" => qrBackend = "engine" /\ qrStory = 1
    /\ engine # "graph" => tgSubject = "edges"
    /\ engine # "kernel" => hkUse = "chunk"

EngNext ==
    /\ UNCHANGED engine
    /\ \/ /\ engine = "query" /\ QrNext
          /\ UNCHANGED <<tgVars, clVars, hvVars, irVars, hkVars, vxVars, dsVars>>
       \/ /\ engine = "graph" /\ TgNext
          /\ UNCHANGED <<qrVars, clVars, hvVars, irVars, hkVars, vxVars, dsVars>>
       \/ /\ engine = "cluster" /\ ClNext
          /\ UNCHANGED <<qrVars, tgVars, hvVars, irVars, hkVars, vxVars, dsVars>>
       \/ /\ engine = "ledger" /\ HvNext
          /\ UNCHANGED <<qrVars, tgVars, clVars, irVars, hkVars, vxVars, dsVars>>
       \/ /\ engine = "ir" /\ IrNext
          /\ UNCHANGED <<qrVars, tgVars, clVars, hvVars, hkVars, vxVars, dsVars>>
       \/ /\ engine = "kernel" /\ HkNext
          /\ UNCHANGED <<qrVars, tgVars, clVars, hvVars, irVars, vxVars, dsVars>>
       \/ /\ engine = "analytics" /\ VxNext
          /\ UNCHANGED <<qrVars, tgVars, clVars, hvVars, irVars, hkVars, dsVars>>
       \/ /\ engine = "distillation" /\ DsNext
          /\ UNCHANGED <<qrVars, tgVars, clVars, hvVars, irVars, hkVars, vxVars>>

EngSpec == EngInit /\ [][EngNext]_EngVars
=============================================================================
