----------------------------- MODULE MCMonitors ------------------------------
(* As the two modules disturb each other nowhere but in the collector, which *)
(* keeps their histories apart, a behaviour runs one of them.                *)
EXTENDS Monitors

VARIABLE module

MCMonitor == {"infrastructure", "timeseries"}
MCDeviation == {-3, 0, 2, 4}

MCInit == Init /\ module \in MCMonitor
MCNext == /\ \/ module = "infrastructure" /\ LogNext /\ UNCHANGED financeVars
             \/ module = "timeseries" /\ FinanceNext /\ UNCHANGED logVars
          /\ UNCHANGED module
MCSpec == MCInit /\ [][MCNext]_<<vars, module>>
=============================================================================
