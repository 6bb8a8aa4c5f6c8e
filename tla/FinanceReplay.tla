---------------------------- MODULE FinanceReplay ----------------------------
(***************************************************************************)
(* modules/timeseries: FinancePipeline, which replays the ticks of a file  *)
(* in each run, through an extractor and a detector that are new.          *)
(*                                                                         *)
(* Of a tick's features the model keeps what detect() decides by: a jump   *)
(* of the price, the deviation of the volatility from the baseline, and    *)
(* the opinion of the forest. Deviations are in units of half a standard   *)
(* deviation, so that the drift is 1 and the threshold 10 in the code.     *)
(*                                                                         *)
(* An operator marked "Mutant" is a variant of the operation after it with *)
(* a bug that is easily made; no specification uses it.                    *)
(***************************************************************************)
EXTENDS MetricsCollector

CONSTANTS WindowSize,         \* prices a feature needs
          BaselineTicks,
          Drift, CusumThreshold,
          Deviation,          \* integers
          MaxTicks            \* ticks the file may have

ASSUME FinanceAssumption ==
    /\ {WindowSize, BaselineTicks} \subseteq Nat \ {0}
    /\ {Drift, CusumThreshold, MaxTicks} \subseteq Nat /\ Deviation \subseteq Int
    /\ "timeseries" \in Monitor

Anomaly == {"NONE", "FLASH_CRASH_SUSPECT", "VOLATILITY_REGIME_SHIFT", "UNSUPERVISED_ANOMALY"}

VARIABLES replaying,          \* _running
          replay,             \* where the loop stands: down, next
          ticks,              \* taken from the file
          baseline,           \* Len(_history) of the detector
          ready,              \* baseline_ready
          cusumPos, cusumNeg,
          anomaly,            \* of the last tick
          path                \* totals of the deviations since the last regime shift,
                              \* from 0 on

cusum == <<cusumPos, cusumNeg, path>>
financeVars == <<replaying, replay, ticks, baseline, ready, anomaly, cusum>>

InitFinance == /\ replaying = FALSE /\ replay = "down"
               /\ ticks = 0 /\ baseline = 0 /\ ready = FALSE
               /\ cusumPos = 0 /\ cusumNeg = 0 /\ path = <<0>>
               /\ anomaly = "NONE"

-----------------------------------------------------------------------------

StartReplay == /\ replay = "down"
               /\ replaying' = TRUE /\ replay' = "next"
               /\ ticks' = 0 /\ baseline' = 0 /\ ready' = FALSE
               /\ cusumPos' = 0 /\ cusumNeg' = 0 /\ path' = <<0>>
               /\ anomaly' = "NONE"
               /\ UNCHANGED collected

StopReplay == /\ replay = "next" /\ replaying
              /\ replaying' = FALSE
              /\ UNCHANGED <<replay, ticks, baseline, ready, anomaly, cusum, collected>>

\* The file ends, or is missing, or a row of it cannot be read: _run returns
\* or raises, and the flag stays set.
EndReplay == /\ replay = "next"
             /\ replay' = "down"
             /\ UNCHANGED <<replaying, ticks, baseline, ready, anomaly, cusum, collected>>

\* A tick, and the flag is no longer set.
BreakReplay == /\ replay = "next" /\ ~replaying
               /\ replay' = "down"
               /\ UNCHANGED <<replaying, ticks, baseline, ready, anomaly, cusum, collected>>

\* stream() yields the next row.
TakeTick == ticks < MaxTicks /\ ticks' = ticks + 1

\* What detect() gets of the indicators of a window: whether the last return
\* is beyond the limit, and how far the volatility is from the baseline's.
Features == [jump : BOOLEAN, dev : Deviation]

\* update() has too few prices: no features, no metrics.
Gather == /\ replay = "next" /\ replaying
          /\ TakeTick /\ ticks' < WindowSize
          /\ UNCHANGED <<replaying, replay, baseline, ready, anomaly, cusum, collected>>

\* detect() while it gathers its baseline.
Learn == /\ replay = "next" /\ replaying
         /\ TakeTick /\ ticks' >= WindowSize /\ ~ready
         /\ baseline' = baseline + 1
         /\ ready' = (baseline' >= BaselineTicks)
         /\ anomaly' = "NONE"
         /\ Push("timeseries", IF ready' THEN {"baseline_ready"} ELSE {})
         /\ UNCHANGED <<replaying, replay, cusum>>

AtLeastZero(x) == IF x > 0 THEN x ELSE 0

\* Mutant: the sums may go below zero.
CusumUnfloored(dev) ==
    LET pos == cusumPos + dev - Drift
        neg == cusumNeg - dev - Drift
        shift == pos > CusumThreshold \/ neg > CusumThreshold
    IN  /\ cusumPos' = IF shift THEN 0 ELSE pos
        /\ cusumNeg' = IF shift THEN 0 ELSE neg
        /\ path' = IF shift THEN <<0>> ELSE Append(path, Last(path) + dev)
        /\ \E outlier \in BOOLEAN :
               anomaly' = IF shift THEN "VOLATILITY_REGIME_SHIFT"
                          ELSE IF outlier THEN "UNSUPERVISED_ANOMALY" ELSE "NONE"

\* The change-point test, and the forest if it finds nothing.
Cusum(dev) ==
    LET pos == AtLeastZero(cusumPos + dev - Drift)
        neg == AtLeastZero(cusumNeg - dev - Drift)
        shift == pos > CusumThreshold \/ neg > CusumThreshold
    IN  /\ cusumPos' = IF shift THEN 0 ELSE pos
        /\ cusumNeg' = IF shift THEN 0 ELSE neg
        /\ path' = IF shift THEN <<0>> ELSE Append(path, Last(path) + dev)
        /\ \E outlier \in BOOLEAN :
               anomaly' = IF shift THEN "VOLATILITY_REGIME_SHIFT"
                          ELSE IF outlier THEN "UNSUPERVISED_ANOMALY" ELSE "NONE"

\* detect() with its baseline: a jump of the price comes before everything,
\* and its tick does not count towards a regime shift.
Detect == /\ replay = "next" /\ replaying
          /\ TakeTick /\ ticks' >= WindowSize /\ ready
          /\ \E f \in Features :
                 \/ f.jump /\ anomaly' = "FLASH_CRASH_SUSPECT" /\ UNCHANGED cusum
                 \/ ~f.jump /\ Cusum(f.dev)
          /\ Push("timeseries", {"baseline_ready"})
          /\ UNCHANGED <<replaying, replay, baseline, ready>>

FinanceNext == \/ StartReplay \/ StopReplay \/ EndReplay \/ BreakReplay
               \/ Gather \/ Learn \/ Detect

-----------------------------------------------------------------------------
(* Properties                                                              *)

FinanceTypeOK == /\ {replaying, ready} \subseteq BOOLEAN
                 /\ replay \in {"down", "next"}
                 /\ {ticks, baseline, cusumPos, cusumNeg} \subseteq Nat
                 /\ anomaly \in Anomaly
                 /\ path \in Seq(Int) /\ path # <<>>

\* What the ticks after the i-th total add up to beyond the drift, upwards and
\* downwards.
Rise(i) == path[Len(path)] - path[i] - Drift * (Len(path) - i)
Fall(i) == path[i] - path[Len(path)] - Drift * (Len(path) - i)

IsLargest(x, S) == x \in S /\ \A y \in S : y <= x

\* The two sums kept from tick to tick are the largest deviations of any run of
\* ticks up to now, either way, since the last regime shift. Together they
\* never exceed the threshold, so that one is zero when the other passes it.
\* And nothing is found before the baseline is complete.
CusumExact == /\ IsLargest(cusumPos, {Rise(i) : i \in 1 .. Len(path)})
              /\ IsLargest(cusumNeg, {Fall(i) : i \in 1 .. Len(path)})
              /\ cusumPos + cusumNeg <= CusumThreshold
              /\ anomaly # "NONE" => ready
              /\ IF ready THEN baseline = BaselineTicks ELSE baseline < BaselineTicks

\* The types, and that.
FinanceInv == FinanceTypeOK /\ CusumExact
=============================================================================
