-------------------------- MODULE MetricsCollector --------------------------
(***************************************************************************)
(* core/metrics_collector.py: what the modules' loops push and the API     *)
(* reads. Every method holds the lock, so each is one step. A snapshot is  *)
(* the set of the conditions that hold in it. Nothing in the program calls *)
(* clear(): what a module has pushed outlives its run.                     *)
(***************************************************************************)
EXTENDS Integers, Sequences, SequencesExt

CONSTANTS Monitor,        \* modules that push
          HistorySize     \* maxlen of a module's history

ASSUME CollectorAssumption == HistorySize \in Nat \ {0}

VARIABLE collected        \* _modules: the history of each, empty if it never pushed

InitCollector == collected = [m \in Monitor |-> <<>>]

\* push(): the latest snapshot is the last of the history, a deque(maxlen).
Push(m, snapshot) ==
    LET longer == Append(collected[m], snapshot)
    IN  collected' = [collected EXCEPT ![m] =
                         IF Len(longer) > HistorySize THEN Tail(longer) ELSE longer]

\* get_latest(): nothing before the first push.
Latest(m) == IF collected[m] = <<>> THEN <<>> ELSE <<Last(collected[m])>>
=============================================================================
