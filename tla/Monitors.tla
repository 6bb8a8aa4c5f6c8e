------------------------------ MODULE Monitors -------------------------------
(***************************************************************************)
(* The infrastructure module (LogMonitor) and the time-series module       *)
(* (FinanceReplay) in one process: they share the metrics collector and    *)
(* nothing else.                                                           *)
(***************************************************************************)
EXTENDS LogMonitor, FinanceReplay

vars == <<logVars, financeVars, collected>>

Init == InitCollector /\ InitLog /\ InitFinance
Next == \/ LogNext /\ UNCHANGED financeVars
        \/ FinanceNext /\ UNCHANGED logVars

Spec == Init /\ [][Next]_vars
=============================================================================
