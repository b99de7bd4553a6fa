------------------------------- MODULE MCLogs -------------------------------
(***************************************************************************)
(* The two log engines, for TLC: a behaviour runs the segmented log with   *)
(* its reader, the v6 engine or a v6 segment file to its bounds while the  *)
(* others stay in their initial states, as in MCComponents.                *)
(***************************************************************************)
EXTENDS MCHrklLogReaders, V6Log, V6Segment

VARIABLE which   \* the one that runs
LogsVars == <<which, rvars, v6vars, sgVars>>

LogsInit == which \in {"log", "v6", "segment"} /\ RInit /\ V6Init /\ SgInit
LogsNext ==
    /\ UNCHANGED which
    /\ \/ which = "log" /\ RNext /\ UNCHANGED <<v6vars, sgVars>>
       \/ which = "v6" /\ V6Next /\ UNCHANGED <<rvars, sgVars>>
       \/ which = "segment" /\ SgNext /\ UNCHANGED <<rvars, v6vars>>
LogsSpec == LogsInit /\ [][LogsNext]_LogsVars
=============================================================================
