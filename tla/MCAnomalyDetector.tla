-------------------------- MODULE MCAnomalyDetector --------------------------
(* Windows that differ in their bytes, a little and a lot, and one of a scan. *)
EXTENDS AnomalyDetector

CONSTANTS MaxWindows,     \* bound: windows in a behaviour
          MCWindow        \* the windows that come

MCBytes(b) == [pps |-> 1, bps |-> b, ports |-> 1]
MCTraffic == {MCBytes(11), MCBytes(12), MCBytes(14)}
MCSpike == {MCBytes(1), MCBytes(12), [pps |-> 2, bps |-> 2, ports |-> 3]}

Next == Len(processed) < MaxWindows /\ \E w \in MCWindow : Process(w)
Spec == InitDetector /\ [][Next]_detector
=============================================================================
