--------------------------- MODULE AnomalyDetector ---------------------------
(***************************************************************************)
(* modules/network/anomaly_detector.py: what NetworkAnomalyDetector makes  *)
(* of the windows it is given, one after another.                          *)
(*                                                                         *)
(* The code computes the moving mean and variance of a feature in doubles. *)
(* Here both are integers: the mean counts parts of 1 / Grid, the variance *)
(* parts of 1 / (Smoothing * Grid)^2, where alpha is 1 / Smoothing. What   *)
(* comes to lie between two parts is rounded to either of them, as a sum   *)
(* of doubles is rounded to a neighbour. The forest is the windows it was  *)
(* fitted with; its opinion of a window is left open. The entropy of a     *)
(* window is a feature like the others and left out.                       *)
(*                                                                         *)
(* An operator marked "Mutant" is a variant of the operation after it with *)
(* a bug that is easily made; no specification uses it.                    *)
(***************************************************************************)
EXTENDS Integers, Sequences

CONSTANTS BaselineWindows,
          Smoothing,        \* 1 / alpha: 10 in the code
          Grid,             \* how finely numbers are told apart
          Threshold,        \* of a z-score
          Precision,        \* a deviation up to 1 / Precision counts as none
          DdosPps, ScanPorts, ExfilBytes     \* the hard limits

ASSUME DetectorAssumption ==
    /\ {BaselineWindows, Smoothing, Grid} \subseteq Nat \ {0}
    /\ {Threshold, Precision, DdosPps, ScanPorts, ExfilBytes} \subseteq Nat

Feature == {"pps", "bps", "ports"}
Window == [Feature -> Nat]
AnomalyType == {"NONE", "DDOS_SUSPECT", "PORT_SCAN_SUSPECT",
                "DATA_EXFILTRATION_SUSPECT", "GENERIC_TRAFFIC_ANOMALY"}

VARIABLES ema,              \* ema[f]: means[f] and variances[f]
          history,          \* _history
          baselineReady,
          forest,           \* what iso_forest was last fitted with
          result,           \* the last result: its type and z-scores
          processed         \* every window processed, in order

detector == <<ema, history, baselineReady, forest, result, processed>>

Quiet == [num |-> 0, den |-> 1]
InitDetector ==
    /\ ema = [f \in Feature |-> [seen |-> FALSE, mean |-> 0, var |-> 0]]
    /\ history = <<>>
    /\ baselineReady = FALSE
    /\ forest = <<>>
    /\ result = [type |-> "NONE", z |-> [f \in Feature |-> Quiet]]
    /\ processed = <<>>

-----------------------------------------------------------------------------

\* alpha times n, rounded up or down.
Share(n) == {q \in n \div Smoothing .. n \div Smoothing + 1 :
                 Smoothing * q - n \in 1 - Smoothing .. Smoothing - 1}

\* Mutant: the new deviation is weighted with alpha twice.
MovedTwiceWeighted(e, value) ==
    IF ~e.seen THEN {[seen |-> TRUE, mean |-> value * Grid, var |-> 0]}
    ELSE LET diff == value * Grid - e.mean
         IN  {[seen |-> TRUE, mean |-> e.mean + incrp,
               var |-> (Smoothing - 1) * kept + diff * diff] :
                  incrp \in Share(diff), kept \in Share(e.var)}

\* What the mean and the variance may be after one more value.
Moved(e, value) ==
    IF ~e.seen THEN {[seen |-> TRUE, mean |-> value * Grid, var |-> 0]}
    ELSE LET diff == value * Grid - e.mean
         IN  {[seen |-> TRUE, mean |-> e.mean + incrp,
               var |-> (Smoothing - 1) * (kept + diff * diff)] :
                  incrp \in Share(diff), kept \in Share(e.var)}

\* The square of a z-score, from the mean and the variance just moved.
ZSquare(e, value) ==
    LET deviation == Smoothing * (value * Grid - e.mean)
    IN  IF e.var * Precision * Precision > Smoothing * Grid * Smoothing * Grid
        THEN [num |-> deviation * deviation, den |-> e.var] ELSE Quiet

Exceeds(z, limit) == z.num > limit * limit * z.den

\* The hard limits in their order, then whatever else was found.
Verdict(w, z, outlier) ==
    IF w.pps > DdosPps THEN "DDOS_SUSPECT"
    ELSE IF w.ports > ScanPorts THEN "PORT_SCAN_SUSPECT"
    ELSE IF Exceeds(z["bps"], 5) /\ w.bps > ExfilBytes THEN "DATA_EXFILTRATION_SUSPECT"
    ELSE IF outlier \/ \E f \in Feature : Exceeds(z[f], Threshold)
         THEN "GENERIC_TRAFFIC_ANOMALY" ELSE "NONE"

\* Mutant: the recalibration keeps the oldest windows.
RecalibrateOldest(kept) == SubSeq(kept, 1, BaselineWindows)

\* "Drop oldest 2/3rds"
Recalibrate(kept) == SubSeq(kept, Len(kept) - BaselineWindows + 1, Len(kept))

Process(w) ==
    LET kept == IF Len(history) < 3 * BaselineWindows THEN Append(history, w) ELSE history
        trains == Len(kept) = BaselineWindows /\ ~baselineReady
        retrains == Len(kept) = 3 * BaselineWindows
    IN  /\ \E p \in Moved(ema["pps"], w.pps), b \in Moved(ema["bps"], w.bps),
              q \in Moved(ema["ports"], w.ports) :
               ema' = [pps |-> p, bps |-> b, ports |-> q]
        /\ history' = IF retrains THEN Recalibrate(kept) ELSE kept
        /\ baselineReady' = (baselineReady \/ trains)
        /\ forest' = IF trains \/ retrains THEN history' ELSE forest
        /\ \E outlier \in BOOLEAN :
               LET z == [f \in Feature |-> ZSquare(ema'[f], w[f])]
               IN  /\ outlier => baselineReady'
                   /\ result' = [type |-> Verdict(w, z, outlier), z |-> z]
        /\ processed' = Append(processed, w)

DetectorSpec == InitDetector /\ [][\E w \in Window : Process(w)]_detector

-----------------------------------------------------------------------------
(* Properties                                                              *)

\* The windows kept are the latest ones, and the forest was fitted with the
\* oldest of them.
DetectorInv ==
    /\ ema \in [Feature -> [seen : BOOLEAN, mean : Int, var : Nat]]
    /\ history \in Seq(Window) /\ forest \in Seq(Window) /\ processed \in Seq(Window)
    /\ baselineReady \in BOOLEAN
    /\ result \in [type : AnomalyType, z : [Feature -> [num : Nat, den : Nat]]]
    /\ Len(history) <= Len(processed)
    /\ \A i \in 1 .. Len(history) :
           history[i] = processed[Len(processed) - Len(history) + i]
    /\ IF baselineReady
       THEN /\ Len(history) \in BaselineWindows .. 3 * BaselineWindows - 1
            /\ Len(forest) = BaselineWindows
            /\ \A i \in 1 .. BaselineWindows : forest[i] = history[i]
       ELSE /\ Len(history) = Len(processed) /\ Len(history) < BaselineWindows
            /\ forest = <<>>

\* The forest judges once there is a baseline and from then on always, by that
\* many windows in a row, the latest of them fewer than twice as many ago.
ForestIsRecent ==
    /\ baselineReady <=> Len(processed) >= BaselineWindows
    /\ baselineReady =>
           \E last \in Len(processed) - 2 * BaselineWindows + 1 .. Len(processed) :
               /\ last >= BaselineWindows /\ Len(forest) = BaselineWindows
               /\ \A i \in 1 .. BaselineWindows :
                      forest[i] = processed[last - BaselineWindows + i]

\* The square of a z-score is never above 1 / alpha + 2, whatever comes and
\* however it is rounded: a value takes the variance along with it. (Without
\* rounding it is at most 1 / alpha - 1; a mean rounded back to where it was
\* makes it 1 / (alpha * (1 - alpha)). In the code, where alpha is 1/10, those
\* are 9 and 100/9, and what doubles round in the products is far below the rest.)
ScoresBounded ==
    \A f \in Feature : result.z[f].num <= (Smoothing + 2) * result.z[f].den

\* So unless alpha is smaller than 1/23, no exfiltration is ever reported: the
\* score of 5 it asks for does not come up.
NoExfiltration == Smoothing <= 23 => result.type # "DATA_EXFILTRATION_SUSPECT"

\* A window that carries more bytes than the limit, and many times more than
\* any before it, is reported as an exfiltration unless a limit before that
\* applies ("Huge BPS spike -> Exfil", modules/network/anomaly_detector.py).
SpikeIsExfiltration ==
    processed # <<>> =>
        LET n == Len(processed)
            w == processed[n]
        IN  (/\ n > 1
             /\ w.pps <= DdosPps /\ w.ports <= ScanPorts /\ w.bps > ExfilBytes
             /\ \A i \in 1 .. n - 1 : w.bps > 10 * processed[i].bps)
            => result.type = "DATA_EXFILTRATION_SUSPECT"
=============================================================================
