---------------------------- MODULE NetworkProofs ----------------------------
(***************************************************************************)
(* Theorems about AnomalyDetector and Network, for any smoothing, limits,  *)
(* window length, queue size and bounds.                                   *)
(***************************************************************************)
EXTENDS Network, SequenceTheorems, FiniteSetTheorems, TLAPS

Ema == [seen : BOOLEAN, mean : Int, var : Nat]
Score == [num : Nat, den : Nat]

\* A score that never passes the square root of 1 / alpha + 2.
Bounded(z) == z.num <= (Smoothing + 2) * z.den

-----------------------------------------------------------------------------
(* Arithmetic                                                              *)

LEMMA Products ==
    ASSUME NEW a \in Nat, NEW b \in Nat
    PROVE  a * b \in Nat /\ (a # 0 /\ b # 0 => a * b # 0)
  OBVIOUS

LEMMA SquareNat == ASSUME NEW d \in Int PROVE d * d \in Nat
  OBVIOUS

\* A product with natural numbers keeps an order.
LEMMA ProductsOrdered ==
    ASSUME NEW a \in Nat, NEW b \in Nat, NEW c \in Nat, a <= b
    PROVE  c * a <= c * b
  OBVIOUS

\* A share rounded up or down lies between nothing and the whole ...
LEMMA ShareBetween ==
    ASSUME NEW s \in Nat \ {0}, NEW d \in Int, NEW q \in Int, s * q - d \in 1 - s .. s - 1
    PROVE  IF d >= 0 THEN 0 <= q /\ q <= d ELSE d <= q /\ q <= 0
  <1>1. ASSUME NEW c \in Int, NEW n \in Nat, c >= 1 PROVE s * c >= s /\ s * n >= n
    BY <1>1
  <1>2. CASE d >= 0
    <2>1. q >= 0
      <3>1. SUFFICES ASSUME 0 - q >= 1 PROVE FALSE
        OBVIOUS
      <3>2. s * (0 - q) >= s /\ s * (0 - q) = 0 - s * q
        BY <1>1, <3>1
      <3> QED
        BY <1>2, <3>2
    <2>2. q <= d
      <3>1. SUFFICES ASSUME q - d >= 1 PROVE FALSE
        OBVIOUS
      <3>2. s * (q - d) >= s /\ s * d >= d /\ s * (q - d) = s * q - s * d
        BY <1>1, <1>2, <3>1
      <3> QED
        BY <3>2
    <2> QED
      BY <1>2, <2>1, <2>2
  <1>3. CASE d < 0
    <2>1. q <= 0
      <3>1. SUFFICES ASSUME q >= 1 PROVE FALSE
        OBVIOUS
      <3>2. s * q >= s
        BY <1>1, <3>1
      <3> QED
        BY <1>3, <3>2
    <2>2. d <= q
      <3>1. SUFFICES ASSUME d - q >= 1 PROVE FALSE
        OBVIOUS
      <3>2. s * (d - q) >= s /\ s * (0 - d) >= 0 - d
        BY <1>1, <1>3, <3>1
      <3>3. s * (d - q) = s * d - s * q /\ s * (0 - d) = 0 - s * d
        OBVIOUS
      <3> QED
        BY <3>2, <3>3
    <2> QED
      BY <1>3, <2>1, <2>2
  <1> QED
    BY <1>2, <1>3

\* ... so that a value is no further from the moved mean than from the old one.
LEMMA DeviationShrinks ==
    ASSUME NEW s \in Nat \ {0}, NEW d \in Int, NEW q \in Int, s * q - d \in 1 - s .. s - 1
    PROVE  (d - q) * (d - q) <= d * d
  <1>1. ASSUME NEW a \in Nat, NEW b \in Nat, a <= b PROVE a * a <= b * b
    <2>1. a * a <= a * b /\ b * a <= b * b
      BY <1>1, ProductsOrdered
    <2> QED
      BY <2>1
  <1>2. CASE d >= 0
    BY <1>1, <1>2, ShareBetween
  <1>3. CASE d < 0
    <2>1. q - d \in Nat /\ 0 - d \in Nat /\ q - d <= 0 - d
      BY <1>3, ShareBetween
    <2>2. (q - d) * (q - d) <= (0 - d) * (0 - d)
      BY <1>1, <2>1
    <2> QED
      BY <2>2
  <1> QED
    BY <1>2, <1>3

\* The variance takes the square of the old deviation along.
LEMMA VarianceFollows ==
    ASSUME NEW s \in Nat \ {0}, NEW k \in Nat, NEW d \in Int, NEW r \in Int,
           s # 1, r * r <= d * d
    PROVE  (s * r) * (s * r) <= (s + 2) * ((s - 1) * (k + d * d))
  <1>1. d * d \in Nat /\ r * r \in Nat /\ s * s \in Nat /\ (s - 1) * k \in Nat
        /\ (s + 2) * ((s - 1) * k) \in Nat /\ (s - 2) * (d * d) \in Nat
    <2>1. d * d \in Nat /\ r * r \in Nat
      BY SquareNat
    <2>2. s - 1 \in Nat /\ s - 2 \in Nat /\ s + 2 \in Nat
      OBVIOUS
    <2> QED
      BY <2>1, <2>2, Products
  <1>2. (s * s) * (r * r) <= (s * s) * (d * d)
    BY <1>1, ProductsOrdered
  <1>3. (s * r) * (s * r) = (s * s) * (r * r)
    OBVIOUS
  <1>4. (s + 2) * ((s - 1) * (k + d * d))
            = (s + 2) * ((s - 1) * k) + (s * s) * (d * d) + (s - 2) * (d * d)
    OBVIOUS
  <1>5. (s * s) * (d * d) \in Nat /\ (s * s) * (r * r) \in Nat
    BY <1>1, Products
  <1> QED
    BY <1>1, <1>2, <1>3, <1>4, <1>5

\* The start of the window a time falls in.
LEMMA Aligned ==
    ASSUME NEW t \in Nat, NEW w \in Nat \ {0}
    PROVE  /\ t % w \in 0 .. w - 1
           /\ t - (t % w) \in Nat
           /\ (t - (t % w)) % w = 0
           /\ \A s \in Nat : s % w = 0 /\ t >= s + w => t - (t % w) >= s + w
  <1>1. t % w \in 0 .. w - 1 /\ t = w * (t \div w) + (t % w) /\ t \div w \in Int
    OBVIOUS
  <1> DEFINE q == t \div w
  <1>2. t - (t % w) = w * q /\ q \in Int
    BY <1>1
  <1>3. q >= 0
    BY <1>1
  <1>4. (w * q) % w = 0 /\ w * q \in Nat
    BY <1>2, <1>3
  <1>5. ASSUME NEW s \in Nat, s % w = 0, t >= s + w
        PROVE  t - (t % w) >= s + w
    <2>1. PICK k \in Int : s = w * k /\ k >= 0
      <3>1. s = w * (s \div w) + (s % w) /\ s \div w \in Int /\ s \div w >= 0
        OBVIOUS
      <3> QED
        BY <1>5, <3>1
    <2>2. w * q + w > w * k + w
      BY <1>1, <1>2, <1>5, <2>1
    <2>3. w * q > w * k
      BY <1>2, <2>1, <2>2
    <2>4. q > k
      BY <1>2, <2>1, <2>3
    <2>5. w * q >= w * (k + 1)
      BY <1>2, <2>1, <2>4
    <2> QED
      BY <1>2, <2>1, <2>5
  <1> QED
    BY <1>1, <1>2, <1>4, <1>5

-----------------------------------------------------------------------------
(* The detector                                                            *)

\* Shares are integers, and those of a natural number too.
LEMMA Shares ==
    ASSUME NEW n \in Int, NEW q \in Share(n)
    PROVE  /\ q \in Int /\ Smoothing * q - n \in 1 - Smoothing .. Smoothing - 1
           /\ n \in Nat => q \in Nat
  <1>1. q \in Int /\ Smoothing * q - n \in 1 - Smoothing .. Smoothing - 1
    BY DEF Share
  <1>2. n \in Nat => q \in Nat
    BY <1>1, ShareBetween, DetectorAssumption
  <1> QED
    BY <1>1, <1>2

\* One feature: types are kept and the score of the value is bounded.
LEMMA ScoreBounded ==
    ASSUME NEW e \in Ema, NEW v \in Nat, NEW n \in Moved(e, v)
    PROVE  n \in Ema /\ ZSquare(n, v) \in Score /\ Bounded(ZSquare(n, v))
  <1>0. Smoothing \in Nat \ {0} /\ Precision \in Nat /\ Grid \in Nat \ {0}
    BY DetectorAssumption
  <1> DEFINE d == v * Grid - e.mean
             far == n.var * Precision * Precision > Smoothing * Grid * Smoothing * Grid
             r == v * Grid - n.mean
  <1>1. Quiet \in Score /\ Bounded(Quiet)
    BY <1>0 DEF Quiet, Score, Bounded
  <1>2. ZSquare(n, v) = IF far THEN [num |-> (Smoothing * r) * (Smoothing * r), den |-> n.var]
                        ELSE Quiet
    BY DEF ZSquare
  <1>3. v * Grid \in Nat
    BY <1>0, Products
  <1>4. n.var = 0 => ~far
    <2>1. Smoothing * Grid * Smoothing * Grid \in Nat
      BY <1>0, Products
    <2> QED
      BY <1>0, <2>1
  <1>5. CASE ~e.seen
    <2>1. n = [seen |-> TRUE, mean |-> v * Grid, var |-> 0]
      BY <1>5 DEF Moved
    <2>2. n \in Ema /\ n.var = 0
      BY <1>3, <2>1 DEF Ema
    <2> QED
      BY <1>1, <1>2, <1>4, <2>2
  <1>6. CASE e.seen
    <2>0. e.mean \in Int /\ e.var \in Nat /\ d \in Int
      BY <1>3 DEF Ema
    <2>1. PICK q \in Share(d), k \in Share(e.var) :
              n = [seen |-> TRUE, mean |-> e.mean + q, var |-> (Smoothing - 1) * (k + d * d)]
      BY <1>6 DEF Moved
    <2>2. /\ q \in Int /\ Smoothing * q - d \in 1 - Smoothing .. Smoothing - 1
          /\ k \in Nat
      BY <2>0, <2>1, Shares
    <2>3. n.mean = e.mean + q /\ n.var = (Smoothing - 1) * (k + d * d) /\ n.seen = TRUE
      BY <2>1
    <2>4. r = d - q /\ r \in Int
      BY <1>3, <2>0, <2>2, <2>3
    <2> HIDE DEF d, r
    <2>5. r * r <= d * d
      BY <1>0, <2>0, <2>2, <2>4, DeviationShrinks
    <2>6. n.var \in Nat
      <3>1. Smoothing - 1 \in Nat /\ k + d * d \in Nat
        BY <1>0, <2>0, <2>2, SquareNat
      <3> QED
        BY <2>3, <3>1, Products
    <2>7. n \in Ema
      BY <2>0, <2>1, <2>2, <2>6 DEF Ema
    <2>8. CASE far
      <3>1. Smoothing # 1
        <4>1. Smoothing = 1 => n.var = 0
          BY <2>0, <2>2, <2>3, SquareNat
        <4> QED
          BY <1>4, <2>8, <4>1
      <3>2. (Smoothing * r) * (Smoothing * r) <= (Smoothing + 2) * n.var
        BY <1>0, <2>0, <2>2, <2>3, <2>4, <2>5, <3>1, VarianceFollows
      <3>3. (Smoothing * r) * (Smoothing * r) \in Nat
        BY <1>0, <2>4, SquareNat
      <3>4. ZSquare(n, v) = [num |-> (Smoothing * r) * (Smoothing * r), den |-> n.var]
        BY <1>2, <2>8
      <3> QED
        BY <2>6, <2>7, <3>2, <3>3, <3>4 DEF Score, Bounded
    <2>9. CASE ~far
      BY <1>1, <1>2, <2>7, <2>9
    <2> QED
      BY <2>8, <2>9
  <1> QED
    BY <1>5, <1>6

\* The deque of windows after one more.
LEMMA HistoryMoves ==
    ASSUME NEW h \in Seq(Window), NEW w \in Window
    PROVE  LET full == Len(h) + 1 = 3 * BaselineWindows
               k == Append(h, w)
               r == IF full THEN Recalibrate(k) ELSE k
           IN  /\ k \in Seq(Window) /\ Len(k) = Len(h) + 1 /\ r \in Seq(Window)
               /\ Len(r) = IF full THEN BaselineWindows ELSE Len(h) + 1
               /\ \A i \in 1 .. Len(h) : k[i] = h[i]
               /\ k[Len(h) + 1] = w
               /\ \A i \in 1 .. Len(r) : r[i] = k[Len(h) + 1 - Len(r) + i]
  <1> DEFINE full == Len(h) + 1 = 3 * BaselineWindows
             k == Append(h, w)
             r == IF full THEN Recalibrate(k) ELSE k
             B == BaselineWindows
  <1>0. B \in Nat \ {0}
    BY DetectorAssumption
  <1>1. /\ k \in Seq(Window) /\ Len(k) = Len(h) + 1 /\ Len(h) \in Nat
        /\ \A i \in 1 .. Len(h) : k[i] = h[i]
        /\ k[Len(h) + 1] = w
    BY AppendProperties, LenProperties
  <1> HIDE DEF k
  <1>2. CASE full
    <2>1. Len(k) = 3 * B /\ Len(k) - B + 1 \in Int /\ Len(k) \in Int
      BY <1>0, <1>1, <1>2
    <2>2. \A i \in Len(k) - B + 1 .. Len(k) : k[i] \in Window
      <3> TAKE i \in Len(k) - B + 1 .. Len(k)
      <3>1. i \in 1 .. Len(k)
        BY <1>0, <2>1
      <3> QED
        BY <1>1, <3>1, ElementOfSeq
    <2>3. r = SubSeq(k, Len(k) - B + 1, Len(k))
      BY <1>2 DEF Recalibrate
    <2> HIDE DEF r
    <2>4. /\ r \in Seq(Window)
          /\ Len(r) = IF Len(k) - B + 1 <= Len(k) THEN Len(k) - (Len(k) - B + 1) + 1 ELSE 0
          /\ \A i \in 1 .. Len(k) - (Len(k) - B + 1) + 1 : r[i] = k[(Len(k) - B + 1) + i - 1]
      BY <2>1, <2>2, <2>3, SubSeqProperties
    <2>5. Len(r) = B
      BY <1>0, <2>1, <2>4
    <2>6. \A i \in 1 .. Len(r) : r[i] = k[Len(h) + 1 - Len(r) + i]
      <3> TAKE i \in 1 .. Len(r)
      <3>1. i \in 1 .. Len(k) - (Len(k) - B + 1) + 1 /\ i \in Int
        BY <1>0, <2>1, <2>5
      <3>2. (Len(k) - B + 1) + i - 1 = Len(h) + 1 - Len(r) + i
        BY <1>0, <1>1, <2>1, <2>5, <3>1
      <3> QED
        BY <2>4, <3>1, <3>2
    <2> QED
      BY <1>1, <1>2, <2>4, <2>5, <2>6 DEF k, r
  <1>3. CASE ~full
    <2>1. r = k
      BY <1>3
    <2> HIDE DEF r
    <2>2. \A i \in 1 .. Len(r) : r[i] = k[Len(h) + 1 - Len(r) + i]
      BY <1>1, <2>1
    <2> QED
      BY <1>1, <1>3, <2>1, <2>2 DEF k, r
  <1> QED
    BY <1>2, <1>3

DetectorSafe == DetectorInv /\ ScoresBounded /\ NoExfiltration

\* What a window does to the moving figures and to the result.
LEMMA ProcessScores ==
    ASSUME DetectorSafe, NEW w \in Window, Process(w)
    PROVE  /\ ema' \in [Feature -> Ema]
           /\ result' \in [type : AnomalyType, z : [Feature -> Score]]
           /\ ScoresBounded' /\ NoExfiltration'
  <1> DEFINE z == [f \in Feature |-> ZSquare(ema'[f], w[f])]
  <1>0. Smoothing \in Nat \ {0} /\ ema \in [Feature -> Ema]
    BY DetectorAssumption DEF DetectorSafe, DetectorInv, Ema
  <1>1. \A f \in Feature : w[f] \in Nat /\ ema[f] \in Ema
    BY <1>0 DEF Window
  <1>2. /\ \E p \in Moved(ema["pps"], w.pps), b \in Moved(ema["bps"], w.bps),
              q \in Moved(ema["ports"], w.ports) : ema' = [pps |-> p, bps |-> b, ports |-> q]
        /\ \E outlier \in BOOLEAN :
               /\ outlier => baselineReady'
               /\ result' = [type |-> Verdict(w, z, outlier), z |-> z]
    BY DEF Process
  <1>3. /\ DOMAIN ema' = Feature
        /\ \A f \in Feature : ema'[f] \in Moved(ema[f], w[f])
        /\ ema' = [f \in Feature |-> ema'[f]]
    BY <1>2 DEF Feature
  <1>4. PICK outlier \in BOOLEAN : result' = [type |-> Verdict(w, z, outlier), z |-> z]
    BY <1>2
  <1>5. \A f \in Feature : /\ ema'[f] \in Ema
                           /\ ZSquare(ema'[f], w[f]) \in Score
                           /\ Bounded(ZSquare(ema'[f], w[f]))
    BY <1>1, <1>3, ScoreBounded
  <1>6. ema' \in [Feature -> Ema] /\ z \in [Feature -> Score] /\ \A f \in Feature : Bounded(z[f])
    BY <1>3, <1>5
  <1> HIDE DEF z
  <1>7. \A f \in Feature : z[f].num \in Nat /\ z[f].den \in Nat
                           /\ z[f].num <= (Smoothing + 2) * z[f].den
    BY <1>6 DEF Score, Bounded
  <1>8. result'.type = Verdict(w, z, outlier) /\ result'.z = z
    BY <1>4
  <1>9. Verdict(w, z, outlier) \in AnomalyType
    BY DEF Verdict, AnomalyType
  <1>10. result' \in [type : AnomalyType, z : [Feature -> Score]]
    BY <1>4, <1>6, <1>9
  <1>11. ScoresBounded'
    BY <1>7, <1>8 DEF ScoresBounded
  <1>12. Smoothing <= 23 => result'.type # "DATA_EXFILTRATION_SUSPECT"
    <2> SUFFICES ASSUME Smoothing <= 23 PROVE ~Exceeds(z["bps"], 5)
      BY <1>8 DEF Verdict
    <2>1. "bps" \in Feature
      BY DEF Feature
    <2>2. z["bps"].num \in Nat /\ z["bps"].den \in Nat
          /\ z["bps"].num <= (Smoothing + 2) * z["bps"].den
      BY <1>7, <2>1
    <2>3. (Smoothing + 2) * z["bps"].den <= 25 * z["bps"].den
      BY <1>0, <2>2
    <2> QED
      BY <1>0, <2>2, <2>3 DEF Exceeds
  <1> QED
    BY <1>6, <1>10, <1>11, <1>12 DEF NoExfiltration

\* A window processed keeps all there is to say of the detector.
LEMMA ProcessKeeps ==
    ASSUME DetectorSafe, NEW w \in Window, Process(w)
    PROVE  DetectorSafe' /\ Len(processed') = Len(processed) + 1 /\ Len(processed) \in Nat
  <1> DEFINE B == BaselineWindows
             n == Len(history)
             k == Append(history, w)
             full == n + 1 = 3 * B
             trains == n + 1 = B /\ ~baselineReady
  <1>0. B \in Nat \ {0} /\ DetectorInv
    BY DetectorAssumption DEF DetectorSafe
  <1>1. /\ history \in Seq(Window) /\ forest \in Seq(Window) /\ processed \in Seq(Window)
        /\ n \in Nat /\ Len(processed) \in Nat /\ n <= Len(processed) /\ baselineReady \in BOOLEAN
        /\ \A i \in 1 .. n : history[i] = processed[Len(processed) - n + i]
    BY <1>0, LenProperties DEF DetectorInv
  <1>2. /\ n < 3 * B
        /\ baselineReady => /\ n \in B .. 3 * B - 1 /\ Len(forest) = B
                            /\ \A i \in 1 .. B : forest[i] = history[i]
        /\ ~baselineReady => n = Len(processed) /\ n < B /\ forest = <<>>
    BY <1>0 DEF DetectorInv
  <1>3. /\ k \in Seq(Window) /\ Len(k) = n + 1
        /\ \A i \in 1 .. n : k[i] = history[i]
        /\ k[n + 1] = w
    BY <1>1, AppendProperties
  <1>4. /\ history' = (IF full THEN Recalibrate(k) ELSE k)
        /\ baselineReady' = (baselineReady \/ trains)
        /\ forest' = (IF trains \/ full THEN history' ELSE forest)
        /\ processed' = Append(processed, w)
    BY <1>2, <1>3 DEF Process
  <1>5. /\ history' \in Seq(Window)
        /\ Len(history') = IF full THEN B ELSE n + 1
        /\ \A i \in 1 .. Len(history') : history'[i] = k[n + 1 - Len(history') + i]
    <2>1. LET r == IF full THEN Recalibrate(k) ELSE k
          IN  /\ r \in Seq(Window)
              /\ Len(r) = IF full THEN B ELSE n + 1
              /\ \A i \in 1 .. Len(r) : r[i] = k[n + 1 - Len(r) + i]
      BY <1>1, HistoryMoves
    <2> QED
      BY <1>4, <2>1
  <1>len. /\ full => Len(history') = B
          /\ ~full => Len(history') = n + 1 /\ history' = k
          /\ Len(history') \in Nat /\ Len(history') <= n + 1
    BY <1>0, <1>1, <1>4, <1>5
  <1>6. /\ processed' \in Seq(Window) /\ Len(processed') = Len(processed) + 1
        /\ \A i \in 1 .. Len(processed) : processed'[i] = processed[i]
        /\ processed'[Len(processed) + 1] = w
    BY <1>1, <1>4, AppendProperties
  <1> HIDE DEF k
  <1>7. \A i \in 1 .. n + 1 : k[i] = processed'[Len(processed) - n + i]
    <2> TAKE i \in 1 .. n + 1
    <2>1. CASE i \in 1 .. n
      <3>1. Len(processed) - n + i \in 1 .. Len(processed)
        BY <1>1, <2>1
      <3> QED
        BY <1>1, <1>3, <1>6, <2>1, <3>1
    <2>2. CASE i = n + 1
      <3>1. Len(processed) - n + i = Len(processed) + 1
        BY <1>1, <2>2
      <3> QED
        BY <1>3, <1>6, <2>2, <3>1
    <2> QED
      BY <1>1, <2>1, <2>2
  <1>8. /\ Len(history') <= Len(processed')
        /\ \A i \in 1 .. Len(history') :
               history'[i] = processed'[Len(processed') - Len(history') + i]
    <2>1. Len(history') \in Nat /\ Len(history') <= n + 1
      BY <1>len
    <2>3. Len(history') <= Len(processed')
      BY <1>1, <1>6, <2>1
    <2>2. ASSUME NEW i \in 1 .. Len(history')
          PROVE  history'[i] = processed'[Len(processed') - Len(history') + i]
      <3>1. i \in Int /\ n + 1 - Len(history') + i \in 1 .. n + 1
        BY <1>1, <2>1
      <3>2. k[n + 1 - Len(history') + i]
                = processed'[Len(processed) - n + (n + 1 - Len(history') + i)]
        BY <1>7, <3>1
      <3>3. Len(processed) - n + (n + 1 - Len(history') + i)
                = Len(processed') - Len(history') + i
        BY <1>1, <1>6, <2>1, <3>1
      <3> QED
        BY <1>5, <3>2, <3>3
    <2> QED
      BY <2>2, <2>3
  <1>9. forest' \in Seq(Window) /\ baselineReady' \in BOOLEAN
    BY <1>1, <1>4, <1>5
  <1>10. IF baselineReady'
         THEN /\ Len(history') \in B .. 3 * B - 1
              /\ Len(forest') = B
              /\ \A i \in 1 .. B : forest'[i] = history'[i]
         ELSE /\ Len(history') = Len(processed') /\ Len(history') < B
              /\ forest' = <<>>
    <2>1. CASE trains \/ full
      <3>1. baselineReady' /\ Len(history') = B
        <4>1. CASE trains
          <5>1. ~full
            BY <1>0, <4>1
          <5> QED
            BY <1>4, <1>len, <4>1, <5>1
        <4>2. CASE full
          <5>1. baselineReady
            BY <1>0, <1>1, <1>2, <4>2
          <5> QED
            BY <1>4, <1>len, <4>2, <5>1
        <4> QED
          BY <2>1, <4>1, <4>2
      <3>2. forest' = history'
        BY <1>4, <2>1
      <3> QED
        BY <1>0, <3>1, <3>2
    <2>2. CASE ~(trains \/ full)
      <3>1. /\ forest' = forest /\ (baselineReady' <=> baselineReady)
            /\ Len(history') = n + 1 /\ history' = k
        BY <1>4, <1>len, <2>2
      <3>2. CASE baselineReady
        <4>1. Len(history') \in B .. 3 * B - 1
          <5>1. n + 1 # 3 * B /\ n \in B .. 3 * B - 1
            BY <1>2, <2>2, <3>2
          <5>2. \A a, b \in Nat : b \in a .. 3 * a - 1 /\ b + 1 # 3 * a => b + 1 \in a .. 3 * a - 1
            OBVIOUS
          <5>3. n \in Nat /\ B \in Nat
            BY <1>0, <1>1
          <5>4. n + 1 \in B .. 3 * B - 1
            BY <5>1, <5>2, <5>3
          <5> QED
            BY <3>1, <5>4
        <4>2. \A i \in 1 .. B : i \in 1 .. n
          BY <1>0, <1>2, <3>2
        <4>3. \A i \in 1 .. B : forest'[i] = history'[i]
          BY <1>2, <1>3, <3>1, <3>2, <4>2
        <4> QED
          BY <1>2, <3>1, <3>2, <4>1, <4>3
      <3>3. CASE ~baselineReady
        <4>1. n = Len(processed) /\ n < B /\ forest = <<>> /\ n + 1 # B
          BY <1>2, <2>2, <3>3
        <4>2. Len(history') = Len(processed') /\ Len(history') < B
          BY <1>0, <1>1, <1>6, <3>1, <4>1
        <4> QED
          BY <3>1, <3>3, <4>1, <4>2
      <3> QED
        BY <3>2, <3>3
    <2> QED
      BY <2>1, <2>2
  <1>11. /\ ema' \in [Feature -> Ema]
         /\ result' \in [type : AnomalyType, z : [Feature -> Score]]
         /\ ScoresBounded' /\ NoExfiltration'
    BY ProcessScores
  <1>12. DetectorInv'
    BY <1>5, <1>6, <1>8, <1>9, <1>10, <1>11 DEF DetectorInv, Ema, Score
  <1> QED
    BY <1>1, <1>6, <1>11, <1>12 DEF DetectorSafe

LEMMA DetectorStarts == InitDetector => DetectorSafe
  <1> SUFFICES ASSUME InitDetector PROVE DetectorSafe
    OBVIOUS
  <1>0. {BaselineWindows, Smoothing} \subseteq Nat \ {0}
    BY DetectorAssumption
  <1>1. ema \in [Feature -> Ema]
    <2>1. [seen |-> FALSE, mean |-> 0, var |-> 0] \in Ema
      BY DEF Ema
    <2> QED
      BY <2>1 DEF InitDetector
  <1>2. result.type = "NONE" /\ result.z = [f \in Feature |-> Quiet]
        /\ result \in [type : AnomalyType, z : [Feature -> Score]]
    BY DEF InitDetector, AnomalyType, Quiet, Score
  <1>3. /\ history = <<>> /\ forest = <<>> /\ processed = <<>> /\ baselineReady = FALSE
        /\ Len(history) = 0 /\ Len(processed) = 0
    BY DEF InitDetector
  <1>4. DetectorInv
    <2>1. <<>> \in Seq(Window) /\ (0 < BaselineWindows) /\ 0 <= 0
      BY <1>0
    <2>2. \A i \in 1 .. Len(history) : history[i] = processed[Len(processed) - Len(history) + i]
      BY <1>3
    <2> QED
      BY <1>1, <1>2, <1>3, <2>1, <2>2 DEF DetectorInv, Ema, Score
  <1>5. ScoresBounded /\ NoExfiltration
    BY <1>0, <1>2 DEF ScoresBounded, NoExfiltration, Quiet
  <1> QED
    BY <1>4, <1>5 DEF DetectorSafe

LEMMA DetectorRests == DetectorSafe /\ UNCHANGED detector => DetectorSafe'
  <1> SUFFICES ASSUME DetectorSafe, UNCHANGED detector PROVE DetectorSafe'
    OBVIOUS
  <1>0. /\ ema' = ema /\ history' = history /\ baselineReady' = baselineReady
        /\ forest' = forest /\ result' = result /\ processed' = processed
    BY DEF detector
  <1>1. DetectorInv'
    BY <1>0 DEF DetectorSafe, DetectorInv
  <1>2. ScoresBounded'
    BY <1>0 DEF DetectorSafe, ScoresBounded
  <1>3. NoExfiltration'
    BY <1>0 DEF DetectorSafe, NoExfiltration
  <1> QED
    BY <1>1, <1>2, <1>3 DEF DetectorSafe

\* The windows kept and fitted with, the types, the scores.
THEOREM DetectorInvariant == DetectorSpec => []DetectorSafe
  <1>1. DetectorSafe /\ [\E w \in Window : Process(w)]_detector => DetectorSafe'
    <2>1. ASSUME DetectorSafe, NEW w \in Window, Process(w) PROVE DetectorSafe'
      BY <2>1, ProcessKeeps
    <2> QED
      BY <2>1, DetectorRests
  <1> QED
    BY <1>1, DetectorStarts, PTL DEF DetectorSpec

\* No z-score exceeds the square root of 1 / alpha + 2, whatever the traffic and
\* however the moving means and variances are rounded.
THEOREM ScoresBoundedThm == DetectorSpec => []ScoresBounded
  <1>1. DetectorSafe => ScoresBounded
    BY DEF DetectorSafe
  <1> QED
    BY <1>1, DetectorInvariant, PTL

\* With an alpha of 1/10, or any down to 1/23, an exfiltration is never reported.
THEOREM NoExfiltrationThm == DetectorSpec => []NoExfiltration
  <1>1. DetectorSafe => NoExfiltration
    BY DEF DetectorSafe
  <1> QED
    BY <1>1, DetectorInvariant, PTL

LEMMA ForestRecent == DetectorInv => ForestIsRecent
  <1> SUFFICES ASSUME DetectorInv PROVE ForestIsRecent
    OBVIOUS
  <1> DEFINE B == BaselineWindows
             n == Len(history)
             m == Len(processed)
  <1>0. B \in Nat \ {0} /\ n \in Nat /\ m \in Nat /\ baselineReady \in BOOLEAN
    BY DetectorAssumption, LenProperties DEF DetectorInv
  <1>1. /\ n <= m
        /\ \A i \in 1 .. n : history[i] = processed[m - n + i]
        /\ baselineReady => /\ n \in B .. 3 * B - 1 /\ Len(forest) = B
                            /\ \A i \in 1 .. B : forest[i] = history[i]
        /\ ~baselineReady => n = m /\ n < B
    BY DEF DetectorInv
  <1>2. baselineReady <=> m >= B
    BY <1>0, <1>1
  <1>3. ASSUME baselineReady
        PROVE  \E last \in m - 2 * B + 1 .. m :
                   /\ last >= B /\ Len(forest) = B
                   /\ \A i \in 1 .. B : forest[i] = processed[last - B + i]
    <2> DEFINE last == m - n + B
    <2>1. last \in m - 2 * B + 1 .. m /\ last >= B /\ last \in Int
      BY <1>0, <1>1, <1>3
    <2>2. ASSUME NEW i \in 1 .. B PROVE forest[i] = processed[last - B + i]
      <3>1. i \in 1 .. n /\ last - B + i = m - n + i
        BY <1>0, <1>1, <1>3
      <3> QED
        BY <1>1, <1>3, <3>1
    <2> HIDE DEF last
    <2> QED
      BY <1>1, <1>3, <2>1, <2>2
  <1> QED
    BY <1>2, <1>3 DEF ForestIsRecent

\* What the forest was fitted with is never older than two baselines.
THEOREM ForestIsRecentThm == DetectorSpec => []ForestIsRecent
  <1>1. DetectorSafe => ForestIsRecent
    BY ForestRecent DEF DetectorSafe
  <1> QED
    BY <1>1, DetectorInvariant, PTL

-----------------------------------------------------------------------------
(* The loop and its generators                                             *)

Packet == [time : Nat, size : Nat, port : Nat]
Sealed == [start : Nat, first : Nat, last : Nat]

LEMMA NetworkNumbers ==
    /\ WindowTicks \in Nat \ {0} /\ QueueSize \in Nat \ {0}
    /\ MaxYield \in Nat \ {0} /\ StartTime \in Nat \ {0}
    /\ MaxRuns \in Nat /\ MaxBatch \in Nat /\ MaxPackets \in Nat /\ MaxTime \in Nat
    /\ FloodSize \in Nat
  BY NetworkAssumption

LEMMA KindType == \A k \in Kind : k.size \in Nat /\ k.port \in Nat
  <1>1. \A k \in Flood : k.size \in Nat /\ k.port \in Nat
    BY DEF Flood
  <1>2. PacketSizes \subseteq Nat /\ CommonPorts \subseteq Nat
    <2>1. PacketSizes \subseteq 64 .. 1500 /\ CommonPorts \subseteq Nat
      BY NetworkAssumption
    <2>2. 64 .. 1500 \subseteq Nat
      OBVIOUS
    <2> QED
      BY <2>1, <2>2
  <1>3. \A k \in Normal : k.size \in Nat /\ k.port \in Nat
    BY <1>2 DEF Normal
  <1> QED
    BY <1>1, <1>3 DEF Kind

Typed == TypeOK /\ IsFiniteSet(ports)

\* Steps that touch neither packets nor windows.
Control == \/ Start \/ Stop \/ Launch \/ Head1 \/ PumpEnd \/ Close \/ Join
           \/ \E r \in Run : GenStart(r) \/ GenTick(r) \/ GenRest(r)

LEMMA ControlKeeps ==
    Control => UNCHANGED <<queue, accumulators, windows, put, counts, skipped, detector>>
  BY DEF Control, Start, Stop, Launch, Head1, PumpEnd, Close, Join, GenStart, GenTick, GenRest

LEMMA NextCases ==
    ASSUME [Next]_vars
    PROVE  \/ Control \/ UNCHANGED vars \/ Pump \/ Judge \/ Fail
           \/ \E r \in Run : GenPut(r)
  BY DEF Next, LoopStep, GenStep, Control

\* A generator thread moves on.
LEMMA GenMoves ==
    ASSUME Typed, NEW r \in Run, GenStart(r) \/ GenTick(r) \/ GenRest(r)
    PROVE  /\ gen' \in [Run -> {"none", "born", "tick", "put", "ended"}]
           /\ simTime' \in [Run -> Nat] /\ batch' \in [Run -> Nat] /\ clock' \in Nat
           /\ late' \subseteq Run
           /\ generating' \in BOOLEAN
           /\ UNCHANGED <<armed, worker, loop, caller, run>>
  <1>0. /\ gen \in [Run -> {"none", "born", "tick", "put", "ended"}]
        /\ simTime \in [Run -> Nat] /\ batch \in [Run -> Nat] /\ clock \in Nat
        /\ late \subseteq Run /\ MaxBatch \in Nat /\ FloodSize \in Nat /\ generating \in BOOLEAN
    BY NetworkNumbers DEF Typed, TypeOK
  <1>1. CASE GenStart(r)
    <2>1. late' \in {late, late \union {r}}
      BY <1>1 DEF GenStart
    <2>2. late' \subseteq Run
      BY <1>0, <2>1
    <2>3. clock' = clock + 1 /\ simTime' = [simTime EXCEPT ![r] = clock + 1]
      BY <1>1 DEF GenStart
    <2> QED
      BY <1>0, <1>1, <2>2, <2>3 DEF GenStart
  <1>2. CASE GenTick(r)
    <2>1. \/ /\ gen' = [gen EXCEPT ![r] = "put"]
             /\ \E n \in 1 .. MaxBatch, flood \in {0, FloodSize} :
                    batch' = [batch EXCEPT ![r] = n + flood]
          \/ gen' = [gen EXCEPT ![r] = "ended"] /\ UNCHANGED batch
      BY <1>2 DEF GenTick
    <2>2. gen' \in [Run -> {"none", "born", "tick", "put", "ended"}] /\ batch' \in [Run -> Nat]
      BY <1>0, <2>1
    <2> QED
      BY <1>0, <1>2, <2>2 DEF GenTick, flags
  <1>3. CASE GenRest(r)
    <2>1. simTime' = [simTime EXCEPT ![r] = simTime[r] + 1]
      BY <1>3 DEF GenRest
    <2>2. simTime' \in [Run -> Nat] /\ clock' \in {clock, simTime'[r]}
      BY <1>0, <1>3, <2>1 DEF GenRest
    <2>3. clock' \in Nat
      BY <1>0, <2>2
    <2> QED
      BY <1>0, <1>3, <2>2, <2>3 DEF GenRest, flags
  <1> QED
    BY <1>1, <1>2, <1>3

LEMMA ControlTyped == ASSUME Typed, Control PROVE Typed'
  <1>0. /\ armed \in BOOLEAN /\ worker \in BOOLEAN /\ generating \in BOOLEAN
        /\ loop \in {"down", "launch", "head", "pump", "judge", "close", "join"}
        /\ caller \in {"idle", "generator", "base"}
        /\ run \in 0 .. MaxRuns /\ MaxRuns \in Nat
        /\ gen \in [Run -> {"none", "born", "tick", "put", "ended"}]
        /\ simTime \in [Run -> Nat] /\ batch \in [Run -> Nat] /\ clock \in Nat
        /\ late \subseteq Run
    BY NetworkNumbers DEF Typed, TypeOK
  <1>1. UNCHANGED <<queue, accumulators, windows, put, counts, skipped>>
    BY ControlKeeps
  <1>2. /\ armed' \in BOOLEAN /\ worker' \in BOOLEAN /\ generating' \in BOOLEAN
        /\ loop' \in {"down", "launch", "head", "pump", "judge", "close", "join"}
        /\ caller' \in {"idle", "generator", "base"}
        /\ run' \in 0 .. MaxRuns
        /\ gen' \in [Run -> {"none", "born", "tick", "put", "ended"}]
        /\ simTime' \in [Run -> Nat] /\ batch' \in [Run -> Nat] /\ clock' \in Nat
        /\ late' \subseteq Run
    <2>1. CASE Start
      BY <1>0, <2>1 DEF Start, threads
    <2>2. CASE Stop
      <3>1. /\ armed' \in BOOLEAN /\ worker' \in BOOLEAN /\ generating' \in BOOLEAN
            /\ caller' \in {"idle", "generator", "base"}
        BY <1>0, <2>2 DEF Stop
      <3> QED
        BY <1>0, <2>2, <3>1 DEF Stop, threads
    <2>3. CASE Launch
      BY <1>0, <2>3 DEF Launch
    <2>4. CASE Head1
      <3>1. worker' \in BOOLEAN /\ loop' \in {"pump", "close"}
        BY <1>0, <2>4 DEF Head1
      <3> QED
        BY <1>0, <2>4, <3>1 DEF Head1, threads
    <2>5. CASE PumpEnd
      BY <1>0, <2>5 DEF PumpEnd, flags, threads
    <2>6. CASE Close
      BY <1>0, <2>6 DEF Close, threads
    <2>7. CASE Join
      BY <1>0, <2>7 DEF Join, flags, threads
    <2>8. ASSUME NEW r \in Run, GenStart(r) \/ GenTick(r) \/ GenRest(r)
          PROVE  /\ gen' \in [Run -> {"none", "born", "tick", "put", "ended"}]
                 /\ simTime' \in [Run -> Nat] /\ batch' \in [Run -> Nat] /\ clock' \in Nat
                 /\ late' \subseteq Run
                 /\ generating' \in BOOLEAN
                 /\ UNCHANGED <<armed, worker, loop, caller, run>>
      BY <2>8, GenMoves
    <2> QED
      BY <1>0, <2>1, <2>2, <2>3, <2>4, <2>5, <2>6, <2>7, <2>8 DEF Control
  <1> QED
    BY <1>1, <1>2 DEF Typed, TypeOK, accumulators, counts

\* A packet is put, and numbered.
LEMMA Puts ==
    ASSUME Typed, NEW r \in Run, GenPut(r)
    PROVE  /\ queue' \in Seq(Packet) /\ Len(queue') = Len(queue) + 1 /\ Len(queue) \in Nat
           /\ \A i \in 1 .. Len(queue) : queue'[i] = queue[i]
           /\ queue'[Len(queue) + 1].time = simTime[r]
           /\ put' \in Seq(Nat) /\ Len(put') = Len(put) + 1 /\ Len(put) \in Nat
           /\ \A i \in 1 .. Len(put) : put'[i] = put[i]
           /\ put'[Len(put) + 1] = simTime[r]
           /\ batch' \in [Run -> Nat]
           /\ UNCHANGED <<flags, loop, caller, run, gen, simTime, clock, accumulators, windows,
                          counts, skipped, late, detector>>
  <1>0. /\ queue \in Seq(Packet) /\ put \in Seq(Nat)
        /\ simTime[r] \in Nat /\ batch \in [Run -> Nat]
    BY DEF Typed, TypeOK, Packet
  <1>1. PICK k \in Kind : queue' = Append(queue, [time |-> simTime[r], size |-> k.size, port |-> k.port])
    BY DEF GenPut
  <1> DEFINE p == [time |-> simTime[r], size |-> k.size, port |-> k.port]
  <1>2. p \in Packet /\ p.time = simTime[r]
    BY <1>0, KindType DEF Packet
  <1>3. queue' = Append(queue, p)
    BY <1>1
  <1> HIDE DEF p
  <1>4. /\ queue' \in Seq(Packet) /\ Len(queue') = Len(queue) + 1 /\ Len(queue) \in Nat
        /\ \A i \in 1 .. Len(queue) : queue'[i] = queue[i]
        /\ queue'[Len(queue) + 1] = p
    BY <1>0, <1>2, <1>3, AppendProperties, LenProperties
  <1>5. /\ put' \in Seq(Nat) /\ Len(put') = Len(put) + 1 /\ Len(put) \in Nat
        /\ \A i \in 1 .. Len(put) : put'[i] = put[i]
        /\ put'[Len(put) + 1] = simTime[r]
    BY <1>0, AppendProperties, LenProperties DEF GenPut
  <1>6. batch' \in [Run -> Nat]
    <2>1. batch' = [batch EXCEPT ![r] = batch[r] - 1] /\ batch[r] > 0
      BY DEF GenPut
    <2> QED
      BY <1>0, <2>1
  <1> QED
    BY <1>2, <1>4, <1>5, <1>6 DEF GenPut

LEMMA PutTyped == ASSUME Typed, NEW r \in Run, GenPut(r) PROVE Typed'
  BY Puts DEF Typed, TypeOK, Packet, flags, accumulators, counts

\* The packet that is pumped next, and what it does to the open window.
First == Head(queue)
OpenAt == IF windowStart = 0 THEN First.time ELSE windowStart
Seals == First.time >= OpenAt + WindowTicks
Counts == counted = pps + (IF sealed = <<>> THEN 0 ELSE sealed[Len(sealed)].last)

LEMMA Pumps ==
    ASSUME Typed, Counts, Pump
    PROVE  /\ First \in Packet /\ First = queue[1] /\ Len(queue) \in Nat \ {0}
           /\ Len(queue') = Len(queue) - 1
           /\ \A i \in 1 .. Len(queue') : queue'[i] = queue[i + 1]
           /\ counted' = counted + 1
           /\ pps' = IF Seals \/ windowStart = 0 THEN 1 ELSE pps + 1
           /\ windowStart' = IF Seals THEN First.time - (First.time % WindowTicks) ELSE OpenAt
           /\ ~Seals => UNCHANGED <<sealed, windows>>
           /\ Seals => /\ sealed' = Append(sealed, [start |-> OpenAt, first |-> counted - pps + 1,
                                                    last |-> counted])
                       /\ [start |-> OpenAt, first |-> counted - pps + 1, last |-> counted] \in Sealed
                       /\ Len(windows') = Len(windows) + 1 /\ Len(windows) \in Nat
           /\ loop = "pump" /\ loop' \in {"pump", "judge"}
           /\ Typed'
           /\ UNCHANGED <<flags, caller, run, threads, put, skipped, late, detector>>
  <1>0. /\ queue \in Seq(Packet) /\ queue # <<>>
        /\ windowStart \in Nat /\ pps \in Nat /\ bps \in Nat /\ counted \in Nat
        /\ ports \in SUBSET Nat /\ IsFiniteSet(ports)
        /\ windows \in Seq(Window) /\ sealed \in Seq(Sealed)
        /\ WindowTicks \in Nat \ {0}
    BY NetworkNumbers DEF Typed, TypeOK, Packet, Sealed, Pump
  <1>1. /\ First \in Packet /\ queue' \in Seq(Packet) /\ Len(queue') = Len(queue) - 1
        /\ \A i \in 1 .. Len(queue') : queue'[i] = queue[i + 1]
        /\ First = queue[1] /\ Len(queue) \in Nat \ {0}
    BY <1>0, HeadTailProperties, EmptySeq DEF Pump, First
  <1>2. First.time \in Nat /\ First.size \in Nat /\ First.port \in Nat /\ OpenAt \in Nat
    BY <1>0, <1>1 DEF Packet, OpenAt
  <1>3. /\ windowStart' = (IF Seals THEN NextStart(First.time) ELSE OpenAt)
        /\ windows' = (IF Seals THEN Append(windows, [pps |-> pps, bps |-> bps,
                                                     ports |-> Cardinality(ports)])
                       ELSE windows)
        /\ sealed' = (IF Seals THEN Append(sealed, [start |-> OpenAt, first |-> counted - pps + 1,
                                                    last |-> counted])
                      ELSE sealed)
        /\ pps' = CountedIn(Seals \/ windowStart = 0)
        /\ bps' = (IF Seals \/ windowStart = 0 THEN First.size ELSE bps + First.size)
        /\ ports' = (IF Seals \/ windowStart = 0 THEN {} ELSE ports) \union {First.port}
        /\ counted' = counted + 1
        /\ loop' \in {"pump", "judge"}
    BY DEF Pump, First, OpenAt, Seals
  <1>4. /\ pps' = IF Seals \/ windowStart = 0 THEN 1 ELSE pps + 1
        /\ windowStart' = IF Seals THEN First.time - (First.time % WindowTicks) ELSE OpenAt
    BY <1>3 DEF CountedIn, NextStart
  <1>5. pps' \in Nat /\ bps' \in Nat /\ windowStart' \in Nat
    <2>1. First.time - (First.time % WindowTicks) \in Nat
      BY <1>0, <1>2, Aligned
    <2>2. windowStart' \in Nat
      BY <1>2, <1>4, <2>1
    <2>3. pps' \in Nat
      BY <1>0, <1>4
    <2>4. bps' \in {First.size, bps + First.size}
      BY <1>3
    <2>5. bps' \in Nat
      BY <1>0, <1>2, <2>4
    <2> QED
      BY <2>2, <2>3, <2>5
  <1>6. ports' \in SUBSET Nat /\ IsFiniteSet(ports')
    <2>1. \A s : IsFiniteSet(s) => IsFiniteSet(s \union {First.port})
      BY FS_AddElement
    <2>2. IsFiniteSet({}) /\ IsFiniteSet(ports)
      BY <1>0, FS_EmptySet
    <2>3. ports' = {} \union {First.port} \/ ports' = ports \union {First.port}
      BY <1>3
    <2> QED
      BY <1>0, <1>2, <2>1, <2>2, <2>3
  <1>7. windows' \in Seq(Window) /\ (Seals => Len(windows') = Len(windows) + 1)
        /\ Len(windows) \in Nat
    <2> DEFINE w == [pps |-> pps, bps |-> bps, ports |-> Cardinality(ports)]
    <2>1. Cardinality(ports) \in Nat
      BY <1>0, FS_CardinalityType
    <2>2. w \in Window
      BY <1>0, <2>1 DEF Window, Feature
    <2> HIDE DEF w
    <2>3. Append(windows, w) \in Seq(Window) /\ Len(Append(windows, w)) = Len(windows) + 1
      BY <1>0, <2>2, AppendProperties
    <2>4. windows' = IF Seals THEN Append(windows, w) ELSE windows
      BY <1>3 DEF w
    <2> QED
      BY <1>0, <2>3, <2>4, LenProperties
  <1>8. /\ [start |-> OpenAt, first |-> counted - pps + 1, last |-> counted] \in Sealed
        /\ sealed' \in Seq(Sealed)
    <2> DEFINE x == [start |-> OpenAt, first |-> counted - pps + 1, last |-> counted]
    <2>1. counted - pps \in Nat
      <3>1. CASE sealed = <<>>
        BY <1>0, <3>1 DEF Counts
      <3>2. CASE sealed # <<>>
        <4>1. Len(sealed) \in Nat \ {0}
          BY <1>0, <3>2, EmptySeq
        <4>2. sealed[Len(sealed)] \in Sealed
          BY <1>0, <4>1, ElementOfSeq
        <4> QED
          BY <1>0, <3>2, <4>2 DEF Counts, Sealed
      <3> QED
        BY <3>1, <3>2
    <2>2. x \in Sealed
      BY <1>0, <1>2, <2>1 DEF Sealed
    <2> HIDE DEF x
    <2>3. sealed' = IF Seals THEN Append(sealed, x) ELSE sealed
      BY <1>3 DEF x
    <2>4. sealed' \in Seq(Sealed)
      BY <1>0, <2>2, <2>3, AppendProperties
    <2> QED
      BY <2>2, <2>4 DEF x
  <1>9. UNCHANGED <<flags, caller, run, threads, put, skipped, late, detector>> /\ loop = "pump"
    BY DEF Pump
  <1>10. Typed'
    <2>1. counted' \in Nat
      BY <1>0, <1>3
    <2> QED
      BY <1>1, <1>3, <1>5, <1>6, <1>7, <1>8, <1>9, <2>1
         DEF Typed, TypeOK, Packet, Sealed, flags, threads
  <1> QED
    BY <1>1, <1>3, <1>4, <1>7, <1>8, <1>9, <1>10

\* Windows are judged, or dropped.
LEMMA Judges ==
    ASSUME Typed, DetectorSafe, Judge \/ Fail
    PROVE  /\ Typed' /\ DetectorSafe'
           /\ loop = "judge"
           /\ Len(processed') + Len(windows') + skipped' = Len(processed) + Len(windows) + skipped
           /\ windows' # <<>> => loop' = "judge"
           /\ loop' \in {"judge", "head", "close"}
           /\ UNCHANGED <<flags, caller, run, threads, queue, accumulators, put, counts, late>>
  <1>0. windows \in Seq(Window) /\ skipped \in Nat /\ Len(windows) \in Nat
        /\ <<>> \in Seq(Window) /\ Len(<<>>) = 0 /\ Len(processed) \in Nat
    BY EmptySeq, LenProperties DEF Typed, TypeOK, DetectorSafe, DetectorInv
  <1>1. UNCHANGED <<flags, caller, run, threads, queue, accumulators, put, counts, late>>
        /\ loop = "judge"
    BY DEF Judge, Fail
  <1>2. CASE /\ windows' = <<>> /\ skipped' = skipped + Len(windows) /\ UNCHANGED detector
             /\ loop' \in {"head", "close"}
    <2>1. DetectorSafe' /\ processed' = processed
      BY <1>2, DetectorRests DEF detector
    <2>2. windows' \in Seq(Window) /\ skipped' \in Nat /\ Len(windows') = 0
      BY <1>0, <1>2
    <2>3. Typed'
      BY <1>1, <1>2, <2>2 DEF Typed, TypeOK, flags, threads, accumulators, counts
    <2> QED
      BY <1>0, <1>1, <1>2, <2>1, <2>2, <2>3
  <1>3. CASE /\ windows # <<>> /\ Process(Head(windows)) /\ windows' = Tail(windows)
             /\ UNCHANGED <<loop, skipped>>
    <2>1. Head(windows) \in Window /\ windows' \in Seq(Window) /\ Len(windows') = Len(windows) - 1
      BY <1>0, <1>3, HeadTailProperties
    <2>2. DetectorSafe' /\ Len(processed') = Len(processed) + 1
      BY <1>3, <2>1, ProcessKeeps
    <2>3. Typed'
      BY <1>1, <1>3, <2>1 DEF Typed, TypeOK, flags, threads, accumulators, counts
    <2> QED
      BY <1>0, <1>1, <1>3, <2>1, <2>2, <2>3
  <1> QED
    BY <1>2, <1>3 DEF Judge, Fail

-----------------------------------------------------------------------------
(* The packets and their windows                                           *)

Accounts ==
    /\ PacketsAccounted /\ Counts
    /\ IF windowStart = 0 THEN pps = 0 /\ sealed = <<>> ELSE pps > 0
    /\ \A i \in 1 .. Len(sealed) : sealed[i].first >= 1 /\ sealed[i].last <= counted
Judged == /\ Len(sealed) = Len(processed) + Len(windows) + skipped
          /\ windows # <<>> => loop \in {"pump", "judge"}
Positive == /\ clock > 0
            /\ \A r \in Working : simTime[r] > 0
            /\ \A n \in 1 .. Len(put) : put[n] > 0

NetworkSafe == Typed /\ DetectorSafe /\ Accounts /\ Judged /\ Positive

LEMMA PumpAccounts ==
    ASSUME Typed, Accounts, Positive, Pump
    PROVE  Accounts'
  <1>0. /\ counted \in Nat /\ pps \in Nat /\ windowStart \in Nat /\ sealed \in Seq(Sealed)
        /\ Len(sealed) \in Nat /\ WindowTicks \in Nat \ {0} /\ Counts
        /\ \A i \in 1 .. Len(sealed) : sealed[i] \in Sealed
    BY NetworkNumbers, LenProperties, ElementOfSeq DEF Typed, TypeOK, Sealed, Accounts
  <1>1. /\ First \in Packet /\ First = queue[1] /\ Len(queue) \in Nat \ {0}
        /\ Len(queue') = Len(queue) - 1
        /\ \A i \in 1 .. Len(queue') : queue'[i] = queue[i + 1]
        /\ counted' = counted + 1
        /\ pps' = IF Seals \/ windowStart = 0 THEN 1 ELSE pps + 1
        /\ windowStart' = IF Seals THEN First.time - (First.time % WindowTicks) ELSE OpenAt
        /\ ~Seals => UNCHANGED sealed
        /\ UNCHANGED put
    BY <1>0, Pumps
  <1> DEFINE x == [start |-> OpenAt, first |-> counted - pps + 1, last |-> counted]
  <1>2. Seals => sealed' = Append(sealed, x) /\ x \in Sealed
    BY <1>0, Pumps
  <1>3. x.first = counted - pps + 1 /\ x.last = counted
    OBVIOUS
  <1> HIDE DEF x
  <1>4. Seals => /\ Len(sealed') = Len(sealed) + 1 /\ sealed' # <<>>
                 /\ \A i \in 1 .. Len(sealed) : sealed'[i] = sealed[i]
                 /\ sealed'[Len(sealed) + 1] = x
    BY <1>0, <1>2, AppendProperties
  <1>5. /\ Len(put) = counted + Len(queue)
        /\ \A i \in 1 .. Len(queue) : queue[i].time = put[counted + i]
        /\ \A i \in 1 .. Len(sealed) :
               /\ sealed[i].first = IF i = 1 THEN 1 ELSE sealed[i - 1].last + 1
               /\ sealed[i].first <= sealed[i].last
               /\ sealed[i].first >= 1 /\ sealed[i].last <= counted
        /\ IF windowStart = 0 THEN pps = 0 /\ sealed = <<>> ELSE pps > 0
    BY DEF Accounts, PacketsAccounted
  <1>6. First.time \in Nat /\ First.time > 0
    <2>1. 1 \in 1 .. Len(queue) /\ counted + 1 \in 1 .. Len(put)
      BY <1>0, <1>1, <1>5
    <2>2. First.time = put[counted + 1]
      BY <1>1, <1>5, <2>1
    <2> QED
      BY <1>1, <2>1, <2>2 DEF Packet, Positive
  <1>7. Seals => windowStart # 0
    BY <1>0, <1>6 DEF Seals, OpenAt
  <1>8. windowStart' # 0 /\ pps' > 0
    <2>1. CASE Seals
      <3>1. First.time >= windowStart + WindowTicks
        BY <1>7, <2>1 DEF Seals, OpenAt
      <3>2. First.time % WindowTicks \in 0 .. WindowTicks - 1
        BY <1>0, <1>6, Aligned
      <3>3. First.time - (First.time % WindowTicks) # 0
        BY <1>0, <1>6, <3>1, <3>2
      <3> QED
        BY <1>1, <2>1, <3>3
    <2>2. CASE ~Seals
      BY <1>0, <1>1, <1>6, <2>2 DEF OpenAt
    <2> QED
      BY <2>1, <2>2
  <1>9. Counts'
    <2>1. CASE Seals
      <3>1. sealed'[Len(sealed')].last = counted /\ sealed' # <<>> /\ pps' = 1
        BY <1>0, <1>1, <1>3, <1>4, <2>1
      <3> QED
        BY <1>0, <1>1, <3>1, SMTT(30) DEF Counts
    <2>2. CASE ~Seals
      <3>1. pps' = pps + 1 /\ sealed' = sealed
        BY <1>0, <1>1, <1>5, <2>2
      <3>2. CASE sealed = <<>>
        BY <1>0, <1>1, <3>1, <3>2 DEF Counts
      <3>3. CASE sealed # <<>>
        <4>1. Len(sealed) \in 1 .. Len(sealed)
          BY <1>0, <3>3, EmptySeq
        <4>2. sealed[Len(sealed)].last \in Nat
          BY <1>0, <4>1 DEF Sealed
        <4>3. counted = pps + sealed[Len(sealed)].last
          BY <1>0, <3>3 DEF Counts
        <4>4. counted' = pps' + sealed[Len(sealed)].last
          BY <1>0, <1>1, <3>1, <4>2, <4>3, SMTT(30)
        <4> QED
          BY <3>1, <3>3, <4>4 DEF Counts
      <3> QED
        BY <3>2, <3>3
    <2> QED
      BY <2>1, <2>2
  <1>10. /\ Len(put') = counted' + Len(queue')
         /\ \A i \in 1 .. Len(queue') : queue'[i].time = put'[counted' + i]
    <2>1. Len(put') = counted' + Len(queue')
      BY <1>0, <1>1, <1>5
    <2>2. ASSUME NEW i \in 1 .. Len(queue') PROVE queue'[i].time = put'[counted' + i]
      <3>1. i + 1 \in 1 .. Len(queue) /\ counted' + i = counted + (i + 1)
        BY <1>0, <1>1
      <3> QED
        BY <1>1, <1>5, <3>1
    <2> QED
      BY <2>1, <2>2
  <1>11. \A i \in 1 .. Len(sealed') :
             /\ sealed'[i].first = IF i = 1 THEN 1 ELSE sealed'[i - 1].last + 1
             /\ sealed'[i].first <= sealed'[i].last
             /\ sealed'[i].first >= 1 /\ sealed'[i].last <= counted'
    <2>1. CASE ~Seals
      <3>1. \A i \in 1 .. Len(sealed) : sealed[i].last \in Nat
        BY <1>0 DEF Sealed
      <3>2. \A i \in 1 .. Len(sealed) : sealed[i].last <= counted + 1
        <4> TAKE i \in 1 .. Len(sealed)
        <4>1. sealed[i].last \in Nat /\ sealed[i].last <= counted
          BY <1>5, <3>1
        <4> QED
          BY <1>0, <4>1
      <3> QED
        BY <1>1, <1>5, <2>1, <3>2
    <2>2. CASE Seals
      <3> TAKE i \in 1 .. Len(sealed')
      <3>1. CASE i \in 1 .. Len(sealed)
        <4>1. sealed'[i] = sealed[i] /\ (i # 1 => sealed'[i - 1] = sealed[i - 1])
          <5>1. i # 1 => i - 1 \in 1 .. Len(sealed)
            BY <1>0, <3>1
          <5> QED
            BY <1>4, <2>2, <3>1, <5>1
        <4>2. sealed[i].last \in Nat /\ sealed[i].last <= counted
          BY <1>0, <1>5, <3>1 DEF Sealed
        <4>3. sealed[i].last <= counted'
          BY <1>0, <1>1, <4>2
        <4> QED
          BY <1>5, <3>1, <4>1, <4>3
      <3>2. CASE i = Len(sealed) + 1
        <4>1. sealed'[i] = x
          BY <1>4, <2>2, <3>2
        <4>2. pps > 0 /\ counted >= pps
          <5>1. pps > 0
            BY <1>5, <1>7, <2>2
          <5>2. CASE sealed = <<>>
            BY <1>0, <5>1, <5>2 DEF Counts
          <5>3. CASE sealed # <<>>
            <6>1. Len(sealed) \in 1 .. Len(sealed)
              BY <1>0, <5>3, EmptySeq
            <6>2. sealed[Len(sealed)].last \in Nat
              BY <1>0, <6>1 DEF Sealed
            <6>3. counted = pps + sealed[Len(sealed)].last
              BY <1>0, <5>3 DEF Counts
            <6> QED
              BY <1>0, <5>1, <6>2, <6>3
          <5> QED
            BY <5>1, <5>2, <5>3
        <4>3. x.first = IF i = 1 THEN 1 ELSE sealed'[i - 1].last + 1
          <5>1. CASE i = 1
            <6>1. sealed = <<>>
              BY <1>0, <3>2, <5>1, EmptySeq
            <6> QED
              BY <1>0, <1>3, <5>1, <6>1 DEF Counts
          <5>2. CASE i # 1
            <6>1. i - 1 = Len(sealed) /\ Len(sealed) \in 1 .. Len(sealed)
              BY <1>0, <3>2, <5>2
            <6>2. sealed'[i - 1] = sealed[Len(sealed)] /\ sealed # <<>>
              BY <1>0, <1>4, <2>2, <6>1, EmptySeq
            <6>3. sealed[Len(sealed)].last \in Nat
              BY <1>0, <6>1 DEF Sealed
            <6>4. counted - pps = sealed[Len(sealed)].last
              BY <1>0, <6>2, <6>3 DEF Counts
            <6> QED
              BY <1>3, <5>2, <6>2, <6>4
          <5> QED
            BY <5>1, <5>2
        <4>4. x.first <= x.last /\ x.first >= 1 /\ x.last <= counted'
          BY <1>0, <1>1, <1>3, <4>2
        <4> QED
          BY <4>1, <4>3, <4>4
      <3> QED
        BY <1>0, <1>4, <2>2, <3>1, <3>2
    <2> QED
      BY <2>1, <2>2
  <1> QED
    BY <1>8, <1>9, <1>10, <1>11 DEF Accounts, PacketsAccounted, Counts

LEMMA GenPositive ==
    ASSUME Typed, Positive, NEW r \in Run, GenStart(r) \/ GenTick(r) \/ GenRest(r)
    PROVE  Positive'
  <1>0. /\ gen \in [Run -> {"none", "born", "tick", "put", "ended"}]
        /\ simTime \in [Run -> Nat] /\ clock \in Nat
        /\ clock > 0
        /\ \A q \in Run : gen[q] \in {"tick", "put"} => simTime[q] > 0
    BY DEF Typed, TypeOK, Positive, Working
  <1>1. UNCHANGED put
    BY DEF GenStart, GenTick, GenRest, counts
  <1>2. CASE GenStart(r)
    <2>1. clock' = clock + 1 /\ simTime' = [simTime EXCEPT ![r] = clock + 1]
          /\ gen' = [gen EXCEPT ![r] = "tick"]
      BY <1>2 DEF GenStart
    <2>2. clock' > 0 /\ \A q \in Run : gen'[q] \in {"tick", "put"} => simTime'[q] > 0
      BY <1>0, <2>1
    <2> QED
      BY <1>1, <2>2 DEF Positive, Working
  <1>3. CASE GenTick(r)
    <2>1. /\ UNCHANGED <<clock, simTime>> /\ gen[r] = "tick"
          /\ \A q \in Run : gen'[q] \in {"tick", "put"} => gen[q] \in {"tick", "put"}
      BY <1>0, <1>3 DEF GenTick
    <2> QED
      BY <1>0, <1>1, <2>1 DEF Positive, Working
  <1>4. CASE GenRest(r)
    <2>1. /\ simTime' = [simTime EXCEPT ![r] = simTime[r] + 1] /\ gen[r] = "put"
          /\ clock' = IF clock < simTime'[r] THEN simTime'[r] ELSE clock
          /\ gen' = [gen EXCEPT ![r] = "tick"]
      BY <1>4 DEF GenRest
    <2>2. clock' > 0 /\ \A q \in Run : gen'[q] \in {"tick", "put"} => simTime'[q] > 0
      BY <1>0, <2>1
    <2> QED
      BY <1>1, <2>2 DEF Positive, Working
  <1> QED
    BY <1>2, <1>3, <1>4

LEMMA ControlSafe == ASSUME NetworkSafe, Control PROVE NetworkSafe'
  <1>0. Typed /\ DetectorSafe /\ Accounts /\ Judged /\ Positive
    BY DEF NetworkSafe
  <1>1. UNCHANGED <<queue, accumulators, windows, put, counts, skipped, detector>>
    BY ControlKeeps
  <1>2. Typed'
    BY <1>0, ControlTyped
  <1>3. DetectorSafe'
    BY <1>0, <1>1, DetectorRests
  <1>4. Accounts'
    BY <1>0, <1>1 DEF Accounts, PacketsAccounted, Counts, accumulators, counts
  <1>5. Judged'
    <2>1. windows # <<>> => loop' \in {"pump", "judge"}
      <3>1. windows # <<>> => loop \in {"pump", "judge"}
        BY <1>0 DEF Judged
      <3>2. \A r \in Run : GenStart(r) \/ GenTick(r) \/ GenRest(r) => UNCHANGED loop
        BY DEF GenStart, GenTick, GenRest
      <3> QED
        BY <3>1, <3>2 DEF Control, Start, Stop, Launch, Head1, PumpEnd, Close, Join
    <2> QED
      BY <1>0, <1>1, <2>1 DEF Judged, counts, detector
  <1>6. Positive'
    <2>1. CASE \E r \in Run : GenStart(r) \/ GenTick(r) \/ GenRest(r)
      BY <1>0, <2>1, GenPositive
    <2>2. CASE Launch
      <3>1. gen' = [gen EXCEPT ![run] = "born"] /\ UNCHANGED <<clock, simTime, put>>
        BY <2>2 DEF Launch
      <3>2. gen \in [Run -> {"none", "born", "tick", "put", "ended"}]
        BY <1>0 DEF Typed, TypeOK
      <3>3. Working' \subseteq Working
        BY <3>1, <3>2 DEF Working
      <3> QED
        BY <1>0, <3>1, <3>3 DEF Positive
    <2>3. CASE Start \/ Stop \/ Head1 \/ PumpEnd \/ Close \/ Join
      BY <1>0, <2>3 DEF Positive, Working, Start, Stop, Head1, PumpEnd, Close, Join, threads
    <2> QED
      BY <2>1, <2>2, <2>3 DEF Control
  <1> QED
    BY <1>2, <1>3, <1>4, <1>5, <1>6 DEF NetworkSafe

LEMMA PutSafe == ASSUME NetworkSafe, NEW r \in Run, GenPut(r) PROVE NetworkSafe'
  <1>0. Typed /\ DetectorSafe /\ Accounts /\ Judged /\ Positive
    BY DEF NetworkSafe
  <1>1. /\ Len(queue') = Len(queue) + 1 /\ Len(queue) \in Nat
        /\ \A i \in 1 .. Len(queue) : queue'[i] = queue[i]
        /\ queue'[Len(queue) + 1].time = simTime[r]
        /\ Len(put') = Len(put) + 1 /\ Len(put) \in Nat
        /\ \A i \in 1 .. Len(put) : put'[i] = put[i]
        /\ put'[Len(put) + 1] = simTime[r]
        /\ UNCHANGED <<flags, loop, caller, run, gen, simTime, clock, accumulators, windows,
                       counts, skipped, late, detector>>
    BY <1>0, Puts
  <1>2. counted \in Nat
    BY <1>0 DEF Typed, TypeOK
  <1>3. /\ Len(put) = counted + Len(queue)
        /\ \A i \in 1 .. Len(queue) : queue[i].time = put[counted + i]
    BY <1>0 DEF Accounts, PacketsAccounted
  <1>4. \A i \in 1 .. Len(queue') : queue'[i].time = put'[counted + i]
    <2> TAKE i \in 1 .. Len(queue')
    <2>1. CASE i \in 1 .. Len(queue)
      <3>1. counted + i \in 1 .. Len(put)
        BY <1>1, <1>2, <1>3, <2>1
      <3> QED
        BY <1>1, <1>3, <2>1, <3>1
    <2>2. CASE i = Len(queue) + 1
      <3>1. counted + i = Len(put) + 1
        BY <1>1, <1>2, <1>3, <2>2
      <3> QED
        BY <1>1, <2>2, <3>1
    <2> QED
      BY <1>1, <2>1, <2>2
  <1>5. Len(put') = counted + Len(queue')
    BY <1>1, <1>2, <1>3
  <1>6. Accounts'
    BY <1>0, <1>1, <1>4, <1>5 DEF Accounts, PacketsAccounted, Counts, accumulators, counts
  <1>7. Positive'
    <2>1. simTime[r] > 0
      BY <1>0 DEF Positive, Working, GenPut
    <2>2. \A n \in 1 .. Len(put') : put'[n] > 0
      <3> TAKE n \in 1 .. Len(put')
      <3>1. n \in 1 .. Len(put) \/ n = Len(put) + 1
        BY <1>1
      <3> QED
        BY <1>0, <1>1, <2>1, <3>1 DEF Positive
    <2> QED
      BY <1>0, <1>1, <2>2 DEF Positive, Working
  <1>8. Typed' /\ DetectorSafe'
    BY <1>0, <1>1, PutTyped, DetectorRests
  <1>9. Judged'
    BY <1>0, <1>1 DEF Judged, counts, detector
  <1> QED
    BY <1>6, <1>7, <1>8, <1>9 DEF NetworkSafe

LEMMA PumpSafe == ASSUME NetworkSafe, Pump PROVE NetworkSafe'
  <1>0. Typed /\ DetectorSafe /\ Accounts /\ Judged /\ Positive /\ Counts
    BY DEF NetworkSafe, Accounts
  <1>1. /\ Typed' /\ loop = "pump" /\ loop' \in {"pump", "judge"}
        /\ UNCHANGED <<flags, caller, run, threads, put, skipped, late, detector>>
        /\ ~Seals => UNCHANGED <<sealed, windows>>
        /\ Seals => Len(windows') = Len(windows) + 1 /\ Len(windows) \in Nat
    BY <1>0, Pumps
  <1>2. Seals => Len(sealed') = Len(sealed) + 1 /\ Len(sealed) \in Nat
    <2> DEFINE x == [start |-> OpenAt, first |-> counted - pps + 1, last |-> counted]
    <2>1. Seals => sealed' = Append(sealed, x) /\ x \in Sealed
      BY <1>0, Pumps
    <2>2. sealed \in Seq(Sealed)
      BY <1>0 DEF Typed, TypeOK, Sealed
    <2> HIDE DEF x
    <2> QED
      BY <2>1, <2>2, AppendProperties, LenProperties
  <1>3. DetectorSafe' /\ Accounts' /\ Positive'
    <2>1. Positive'
      BY <1>0, <1>1 DEF Positive, Working, threads
    <2> QED
      BY <1>0, <1>1, <2>1, DetectorRests, PumpAccounts
  <1>4. Judged'
    <2>1. Len(sealed) = Len(processed) + Len(windows) + skipped /\ skipped \in Nat
          /\ Len(processed) \in Nat /\ processed' = processed /\ skipped' = skipped
      BY <1>0, <1>1, LenProperties DEF Judged, Typed, TypeOK, DetectorSafe, DetectorInv, detector
    <2>2. Len(sealed') = Len(processed') + Len(windows') + skipped'
      BY <1>1, <1>2, <2>1
    <2> QED
      BY <1>1, <2>2 DEF Judged
  <1> QED
    BY <1>1, <1>3, <1>4 DEF NetworkSafe

LEMMA JudgeSafe == ASSUME NetworkSafe, Judge \/ Fail PROVE NetworkSafe'
  <1>0. Typed /\ DetectorSafe /\ Accounts /\ Judged /\ Positive
    BY DEF NetworkSafe
  <1>1. /\ Typed' /\ DetectorSafe'
        /\ Len(processed') + Len(windows') + skipped' = Len(processed) + Len(windows) + skipped
        /\ windows' # <<>> => loop' = "judge"
        /\ UNCHANGED <<flags, caller, run, threads, queue, accumulators, put, counts, late>>
    BY <1>0, Judges
  <1>2. Accounts' /\ Judged' /\ Positive'
    BY <1>0, <1>1 DEF Accounts, PacketsAccounted, Counts, Judged, Positive, Working,
                      accumulators, counts, threads
  <1> QED
    BY <1>1, <1>2 DEF NetworkSafe

LEMMA NetworkStarts == Init => NetworkSafe
  <1> SUFFICES ASSUME Init PROVE NetworkSafe
    OBVIOUS
  <1>1. DetectorSafe
    BY DetectorStarts DEF Init
  <1>2. /\ queue = <<>> /\ windows = <<>> /\ put = <<>> /\ sealed = <<>>
        /\ ports = {} /\ late = {} /\ clock = StartTime /\ clock \in Nat \ {0}
        /\ windowStart = 0 /\ pps = 0 /\ bps = 0 /\ counted = 0 /\ skipped = 0
        /\ processed = <<>> /\ MaxRuns \in Nat
    BY NetworkNumbers DEF Init, InitDetector
  <1>3. Typed
    <2>1. IsFiniteSet(ports)
      BY <1>2, FS_EmptySet
    <2>2. /\ gen \in [Run -> {"none", "born", "tick", "put", "ended"}]
          /\ simTime \in [Run -> Nat] /\ batch \in [Run -> Nat]
          /\ {armed, worker, generating} \subseteq BOOLEAN
          /\ loop = "down" /\ caller = "idle" /\ run = 0
      BY DEF Init
    <2>3. run \in 0 .. MaxRuns
      BY <1>2, <2>2
    <2> QED
      BY <1>2, <2>1, <2>2, <2>3 DEF Typed, TypeOK
  <1>4. Len(<<>>) = 0 /\ (\A i \in 1 .. 0 : FALSE)
    OBVIOUS
  <1>5. Working = {}
    BY DEF Init, Working
  <1>6. Accounts
    BY <1>2, <1>4 DEF Accounts, PacketsAccounted, Counts
  <1>7. Judged /\ Positive
    BY <1>2, <1>4, <1>5 DEF Judged, Positive
  <1> QED
    BY <1>1, <1>3, <1>6, <1>7 DEF NetworkSafe

LEMMA NetworkKept == NetworkSafe /\ [Next]_vars => NetworkSafe'
  <1> SUFFICES ASSUME NetworkSafe, [Next]_vars PROVE NetworkSafe'
    OBVIOUS
  <1>1. CASE UNCHANGED vars
    <2>1. UNCHANGED detector
      BY <1>1 DEF vars
    <2>2. DetectorSafe'
      BY <2>1, DetectorRests DEF NetworkSafe
    <2> QED
      BY <1>1, <2>2 DEF NetworkSafe, Typed, TypeOK, Accounts, PacketsAccounted, Counts, Judged,
                        Positive, Working, vars, flags, threads, accumulators, counts, detector
  <1> QED
    BY <1>1, NextCases, ControlSafe, PutSafe, PumpSafe, JudgeSafe

\* The invariant of the module: its types, the detector, and the account of
\* packets and windows through stops, failures and restarts.
THEOREM NetworkInvariant == Spec => []NetworkSafe
  BY NetworkStarts, NetworkKept, PTL DEF Spec

\* Every packet put is queued or counted once, and every window sealed is
\* judged, waits, or fell to a stop or a failure.
THEOREM NetworkInvThm == Spec => []NetworkInv
  <1>1. NetworkSafe => NetworkInv
    BY DEF NetworkSafe, NetworkInv, Typed, DetectorSafe, Accounts, Judged
  <1> QED
    BY <1>1, NetworkInvariant, PTL

-----------------------------------------------------------------------------
(* One generator at a time                                                 *)

Runs == /\ \A r \in Run : gen[r] # "none" => r <= run
        /\ loop # "down" => run \in Run
        /\ late = {} => /\ \A r \in Working : r = run /\ loop \notin {"down", "launch"}
                        /\ loop = "join" => ~generating

LEMMA RunsGen ==
    ASSUME Typed, Runs, NEW r \in Run, GenStep(r)
    PROVE  Runs'
  <1>0. gen \in [Run -> {"none", "born", "tick", "put", "ended"}]
    BY DEF Typed, TypeOK
  <1>1. CASE GenStart(r)
    <2>1. /\ gen' = [gen EXCEPT ![r] = "tick"] /\ gen[r] = "born" /\ UNCHANGED <<run, loop>>
          /\ late' = {} => late = {} /\ r = run /\ loop \in {"head", "pump", "judge", "close"}
      BY <1>1 DEF GenStart
    <2> QED
      BY <1>0, <2>1 DEF Runs, Working
  <1>2. CASE GenTick(r) \/ GenRest(r) \/ GenPut(r)
    <2>1. /\ UNCHANGED <<run, loop, late, generating>> /\ gen[r] \in {"tick", "put"}
          /\ gen' \in {gen, [gen EXCEPT ![r] = "tick"], [gen EXCEPT ![r] = "put"],
                       [gen EXCEPT ![r] = "ended"]}
      BY <1>2 DEF GenTick, GenRest, GenPut, flags
    <2>2. /\ Working' \subseteq Working
          /\ \A q \in Run : gen'[q] # "none" => gen[q] # "none"
      BY <1>0, <2>1 DEF Working
    <2> QED
      BY <2>1, <2>2 DEF Runs
  <1> QED
    BY <1>1, <1>2 DEF GenStep

LEMMA RunsKept == ASSUME Typed, Runs, [Next]_vars PROVE Runs'
  <1>0. /\ gen \in [Run -> {"none", "born", "tick", "put", "ended"}]
        /\ run \in 0 .. MaxRuns /\ MaxRuns \in Nat
    BY NetworkNumbers DEF Typed, TypeOK
  <1>1. CASE Start
    <2>1. /\ loop = "down" /\ loop' = "launch" /\ run' = run + 1 /\ run < MaxRuns
          /\ UNCHANGED <<gen, late, generating>>
      BY <1>1 DEF Start, threads
    <2>2. run' \in Run /\ \A r \in Run : r <= run => r <= run'
      BY <1>0, <2>1 DEF Run
    <2> QED
      BY <2>1, <2>2 DEF Runs, Working
  <1>2. CASE Stop
    <2>1. UNCHANGED <<loop, run, gen, late>> /\ (generating' => generating)
      BY <1>2 DEF Stop, threads
    <2> QED
      BY <2>1 DEF Runs, Working
  <1>3. CASE Launch
    <2>1. /\ gen' = [gen EXCEPT ![run] = "born"] /\ loop = "launch" /\ loop' = "head"
          /\ UNCHANGED <<run, late, generating>>
      BY <1>3 DEF Launch
    <2>2. Working' \subseteq Working
      BY <1>0, <2>1 DEF Working
    <2>3. \A r \in Run : gen'[r] # "none" => r <= run
      BY <1>0, <2>1 DEF Runs, Run
    <2> QED
      BY <2>1, <2>2, <2>3 DEF Runs
  <1>4. CASE Head1 \/ PumpEnd \/ Pump \/ Judge \/ Fail
    <2>1. /\ UNCHANGED <<gen, run, late, generating>> /\ loop # "down" /\ loop # "launch"
          /\ loop' \notin {"down", "launch", "join"}
      BY <1>4 DEF Head1, PumpEnd, Pump, Judge, Fail, threads, flags
    <2> QED
      BY <2>1 DEF Runs, Working
  <1>5. CASE Close
    <2>1. /\ UNCHANGED <<gen, run, late>> /\ loop = "close" /\ loop' = "join" /\ ~generating'
      BY <1>5 DEF Close, threads
    <2> QED
      BY <2>1 DEF Runs, Working
  <1>6. CASE Join
    <2>1. /\ UNCHANGED <<gen, run, late, generating>> /\ loop = "join" /\ loop' = "down"
          /\ gen[run] \in {"ended", "born"} \/ generating
      BY <1>6 DEF Join, threads, flags
    <2>2. late = {} => Working = {}
      BY <2>1 DEF Runs, Working
    <2> QED
      BY <2>1, <2>2 DEF Runs, Working
  <1>7. CASE UNCHANGED vars
    BY <1>7 DEF Runs, Working, vars, flags, threads
  <1> QED
    BY <1>1, <1>2, <1>3, <1>4, <1>5, <1>6, <1>7, RunsGen DEF Next, LoopStep

LEMMA RunsStart == Init => Runs
  BY DEF Init, Runs, Working

\* Unless a stop was lost, never two generators at once, and none after a run.
THEOREM OneGeneratorThm == Spec => []OneGenerator
  <1>1. Typed /\ Runs => OneGenerator
    <2> SUFFICES ASSUME Typed, Runs, late = {}
                 PROVE  Cardinality(Working) <= 1 /\ (loop = "down" => Working = {})
      BY DEF OneGenerator
    <2>1. Working \in SUBSET {run} /\ (loop = "down" => Working = {})
      BY DEF Runs
    <2>2. IsFiniteSet({run}) /\ Cardinality({run}) = 1
      BY FS_Singleton
    <2>3. Cardinality(Working) <= Cardinality({run})
      BY <2>1, <2>2, FS_Subset
    <2> QED
      BY <2>1, <2>2, <2>3
  <1>2. Typed /\ Runs /\ [Next]_vars => Runs'
    BY RunsKept
  <1>3. NetworkSafe => Typed
    BY DEF NetworkSafe
  <1> QED
    BY <1>1, <1>2, <1>3, RunsStart, NetworkInvariant, PTL DEF Spec

-----------------------------------------------------------------------------
(* Packets in their windows                                                *)

\* The clocks of one generator after another do not run backwards.
Times == late = {} =>
    /\ \A i, j \in 1 .. Len(put) : i <= j => put[i] <= put[j]
    /\ \A n \in 1 .. Len(put) : put[n] <= clock
    /\ \A r \in Working : /\ simTime[r] <= clock
                          /\ \A n \in 1 .. Len(put) : put[n] <= simTime[r]

LEMMA LateStays == ASSUME [Next]_vars, late' = {} PROVE late = {}
  <1>1. \A r \in Run : GenStart(r) => late' \in {late, late \union {r}}
    BY DEF GenStart
  <1>2. UNCHANGED late \/ \E r \in Run : GenStart(r)
    BY DEF Next, LoopStep, GenStep, Start, Stop, Launch, Head1, PumpEnd, Pump, Judge, Fail,
           Close, Join, GenTick, GenPut, GenRest, vars
  <1> QED
    BY <1>1, <1>2

LEMMA TimesGen ==
    ASSUME Typed, Times, late = {}, NEW r \in Run, GenStart(r) \/ GenTick(r) \/ GenRest(r)
    PROVE  Times'
  <1>0. /\ gen \in [Run -> {"none", "born", "tick", "put", "ended"}]
        /\ simTime \in [Run -> Nat] /\ clock \in Nat /\ put \in Seq(Nat) /\ Len(put) \in Nat
        /\ \A n \in 1 .. Len(put) : put[n] \in Nat
    BY LenProperties, ElementOfSeq DEF Typed, TypeOK
  <1>1. /\ \A i, j \in 1 .. Len(put) : i <= j => put[i] <= put[j]
        /\ \A n \in 1 .. Len(put) : put[n] <= clock
        /\ \A q \in Run : gen[q] \in {"tick", "put"} =>
               /\ simTime[q] <= clock
               /\ \A n \in 1 .. Len(put) : put[n] <= simTime[q]
    BY DEF Times, Working
  <1>2. UNCHANGED put
    BY DEF GenStart, GenTick, GenRest, counts
  <1>3. CASE GenTick(r)
    <2>1. /\ UNCHANGED <<clock, simTime>>
          /\ \A q \in Run : gen'[q] \in {"tick", "put"} => gen[q] \in {"tick", "put"}
      BY <1>0, <1>3 DEF GenTick
    <2> QED
      BY <1>1, <1>2, <2>1 DEF Times, Working
  <1>4. CASE GenStart(r) \/ GenRest(r)
    <2>1. /\ clock' >= clock /\ clock' \in Nat /\ simTime' \in [Run -> Nat]
          /\ simTime'[r] <= clock'
          /\ \A q \in Run : q # r => simTime'[q] = simTime[q]
          /\ gen' = [gen EXCEPT ![r] = "tick"]
          /\ simTime'[r] >= clock \/ (gen[r] = "put" /\ simTime'[r] >= simTime[r])
      <3>1. CASE GenStart(r)
        <4>1. clock' = clock + 1 /\ simTime' = [simTime EXCEPT ![r] = clock + 1]
              /\ gen' = [gen EXCEPT ![r] = "tick"]
          BY <3>1 DEF GenStart
        <4> QED
          BY <1>0, <4>1
      <3>2. CASE GenRest(r)
        <4>1. /\ simTime' = [simTime EXCEPT ![r] = simTime[r] + 1] /\ gen[r] = "put"
              /\ clock' = IF clock < simTime'[r] THEN simTime'[r] ELSE clock
              /\ gen' = [gen EXCEPT ![r] = "tick"]
          BY <3>2 DEF GenRest
        <4> QED
          BY <1>0, <4>1
      <3> QED
        BY <1>4, <3>1, <3>2
    <2>2. \A n \in 1 .. Len(put) : put[n] <= clock'
      <3> TAKE n \in 1 .. Len(put)
      <3>1. put[n] <= clock /\ put[n] \in Nat
        BY <1>0, <1>1
      <3> QED
        BY <1>0, <2>1, <3>1
    <2>3. \A n \in 1 .. Len(put) : put[n] <= simTime'[r]
      <3> TAKE n \in 1 .. Len(put)
      <3>1. put[n] <= clock /\ put[n] \in Nat /\ (gen[r] = "put" => put[n] <= simTime[r])
        BY <1>0, <1>1
      <3> QED
        BY <1>0, <2>1, <3>1
    <2>4. \A q \in Run : gen'[q] \in {"tick", "put"} =>
              /\ simTime'[q] <= clock'
              /\ \A n \in 1 .. Len(put) : put[n] <= simTime'[q]
      <3> SUFFICES ASSUME NEW q \in Run, gen'[q] \in {"tick", "put"}
                   PROVE  /\ simTime'[q] <= clock'
                          /\ \A n \in 1 .. Len(put) : put[n] <= simTime'[q]
        OBVIOUS
      <3>1. CASE q = r
        BY <2>1, <2>3, <3>1
      <3>2. CASE q # r
        <4>1. simTime'[q] = simTime[q] /\ gen[q] \in {"tick", "put"}
          BY <1>0, <2>1, <3>2
        <4>2. simTime[q] <= clock /\ \A n \in 1 .. Len(put) : put[n] <= simTime[q]
          BY <1>1, <4>1
        <4>3. simTime'[q] <= clock'
          BY <1>0, <2>1, <4>1, <4>2
        <4> QED
          BY <4>1, <4>2, <4>3
      <3> QED
        BY <3>1, <3>2
    <2> QED
      BY <1>1, <1>2, <2>2, <2>4 DEF Times, Working
  <1> QED
    BY <1>3, <1>4

LEMMA TimesPut ==
    ASSUME Typed, Runs, Times, late = {}, NEW r \in Run, GenPut(r)
    PROVE  Times'
  <1>1. /\ Len(put') = Len(put) + 1 /\ Len(put) \in Nat
        /\ \A i \in 1 .. Len(put) : put'[i] = put[i]
        /\ put'[Len(put) + 1] = simTime[r]
        /\ UNCHANGED <<gen, simTime, clock, late>>
    BY Puts
  <1>2. r \in Working
    BY DEF GenPut, Working
  <1>3. /\ \A i, j \in 1 .. Len(put) : i <= j => put[i] <= put[j]
        /\ \A n \in 1 .. Len(put) : put[n] <= clock /\ put[n] <= simTime[r]
        /\ simTime[r] <= clock
    BY <1>2 DEF Times
  <1>4. \A q \in Working : q = r
    BY <1>2 DEF Runs
  <1>5. \A n \in 1 .. Len(put') : n \in 1 .. Len(put) \/ n = Len(put) + 1
    BY <1>1
  <1>6. simTime[r] \in Nat
    BY DEF Typed, TypeOK
  <1>7. \A n \in 1 .. Len(put') : put'[n] <= clock /\ put'[n] <= simTime[r]
    BY <1>1, <1>3, <1>5, <1>6
  <1>8. ASSUME NEW i \in 1 .. Len(put'), NEW j \in 1 .. Len(put'), i <= j
        PROVE  put'[i] <= put'[j]
    <2>1. CASE j = Len(put) + 1
      BY <1>1, <1>7, <2>1
    <2>2. CASE j \in 1 .. Len(put)
      <3>1. i \in 1 .. Len(put)
        BY <1>1, <1>8, <2>2
      <3> QED
        BY <1>1, <1>3, <1>8, <2>2, <3>1
    <2> QED
      BY <1>5, <2>1, <2>2
  <1> QED
    BY <1>1, <1>3, <1>4, <1>7, <1>8 DEF Times, Working

LEMMA TimesKept == ASSUME Typed, Runs, Times, [Next]_vars PROVE Times'
  <1> SUFFICES ASSUME late' = {} PROVE Times'
    BY DEF Times
  <1>1. late = {}
    BY LateStays
  <1>2. CASE Launch
    <2>1. gen' = [gen EXCEPT ![run] = "born"] /\ UNCHANGED <<clock, simTime, put, late>>
      BY <1>2 DEF Launch, counts
    <2>2. gen \in [Run -> {"none", "born", "tick", "put", "ended"}]
      BY DEF Typed, TypeOK
    <2>3. Working' \subseteq Working
      BY <2>1, <2>2 DEF Working
    <2> QED
      BY <2>1, <2>3 DEF Times
  <1>3. CASE Start \/ Stop \/ Head1 \/ PumpEnd \/ Pump \/ Judge \/ Fail \/ Close \/ Join
             \/ UNCHANGED vars
    <2>1. UNCHANGED <<gen, clock, simTime, put, late>>
      BY <1>3 DEF Start, Stop, Head1, PumpEnd, Pump, Judge, Fail, Close, Join, vars, threads
    <2> QED
      BY <2>1 DEF Times, Working
  <1>4. ASSUME NEW r \in Run, GenStart(r) \/ GenTick(r) \/ GenRest(r) PROVE Times'
    BY <1>1, <1>4, TimesGen
  <1>5. ASSUME NEW r \in Run, GenPut(r) PROVE Times'
    BY <1>1, <1>5, TimesPut
  <1> QED
    BY <1>2, <1>3, <1>4, <1>5 DEF Next, LoopStep, GenStep

\* What Pump needs to know of the window that is open.
Placed ==
    /\ PacketsInTheirWindow
    /\ sealed # <<>> => windowStart >= sealed[Len(sealed)].start
                                          + IF Len(sealed) = 1 THEN 1 ELSE WindowTicks

\* The window a pumped packet falls in.
LEMMA PumpWithin ==
    ASSUME Typed, Accounts, Positive, Times, Placed, Pump, late = {}
    PROVE  \A n \in counted' - pps' + 1 .. counted' :
               windowStart' <= put'[n] /\ put'[n] < windowStart' + WindowTicks
  <1>0. /\ counted \in Nat /\ pps \in Nat /\ windowStart \in Nat /\ WindowTicks \in Nat \ {0}
        /\ Counts /\ put \in Seq(Nat) /\ Len(put) \in Nat
        /\ \A n \in 1 .. Len(put) : put[n] \in Nat
    BY NetworkNumbers, LenProperties, ElementOfSeq DEF Typed, TypeOK, Accounts
  <1>1. /\ First \in Packet /\ First = queue[1] /\ Len(queue) \in Nat \ {0}
        /\ counted' = counted + 1
        /\ pps' = IF Seals \/ windowStart = 0 THEN 1 ELSE pps + 1
        /\ windowStart' = IF Seals THEN First.time - (First.time % WindowTicks) ELSE OpenAt
        /\ UNCHANGED put
    BY <1>0, Pumps
  <1>2. /\ Len(put) = counted + Len(queue)
        /\ \A i \in 1 .. Len(queue) : queue[i].time = put[counted + i]
        /\ IF windowStart = 0 THEN pps = 0 /\ sealed = <<>> ELSE pps > 0
        /\ windowStart # 0 => counted >= pps
    <2>1. counted >= pps
      <3>1. CASE sealed = <<>>
        BY <1>0, <3>1 DEF Counts
      <3>2. CASE sealed # <<>>
        <4>1. sealed \in Seq(Sealed)
          BY DEF Typed, TypeOK, Sealed
        <4>2. Len(sealed) \in 1 .. Len(sealed)
          BY <3>2, <4>1, EmptySeq
        <4>3. sealed[Len(sealed)] \in Sealed
          BY <4>1, <4>2, ElementOfSeq
        <4>5. sealed[Len(sealed)].last \in Nat
          BY <4>3 DEF Sealed
        <4>4. counted = pps + sealed[Len(sealed)].last
          BY <1>0, <3>2 DEF Counts
        <4> QED
          BY <1>0, <4>4, <4>5
      <3> QED
        BY <3>1, <3>2
    <2> QED
      BY <2>1 DEF Accounts, PacketsAccounted
  <1> DEFINE t == First.time
  <1>3. /\ counted + 1 \in 1 .. Len(put) /\ put[counted + 1] = t /\ t \in Nat /\ t > 0
    <2>1. 1 \in 1 .. Len(queue) /\ counted + 1 \in 1 .. Len(put)
      BY <1>0, <1>1, <1>2
    <2> QED
      BY <1>0, <1>1, <1>2, <2>1 DEF Positive
  <1> HIDE DEF t
  <1>4. \A n \in counted - pps + 1 .. counted : Within(n, windowStart)
    BY DEF Placed, PacketsInTheirWindow
  <1>7. CASE Seals
    <2>1. windowStart' = t - (t % WindowTicks) /\ pps' = 1
      BY <1>1, <1>7 DEF t
    <2>2. t % WindowTicks \in 0 .. WindowTicks - 1
      BY <1>0, <1>3, Aligned
    <2>3. windowStart' <= t /\ t < windowStart' + WindowTicks
      BY <1>0, <1>3, <2>1, <2>2
    <2>4. \A n \in counted' - pps' + 1 .. counted' : n = counted + 1
      BY <1>0, <1>1, <2>1
    <2>5. \A n \in counted' - pps' + 1 .. counted' :
              windowStart' <= put'[n] /\ put'[n] < windowStart' + WindowTicks
      BY <1>1, <1>3, <2>3, <2>4
    <2> QED
      BY <2>5
  <1>8. CASE ~Seals
    <2>1. windowStart' = OpenAt /\ t < OpenAt + WindowTicks /\ OpenAt \in Nat
      BY <1>0, <1>1, <1>3, <1>8 DEF Seals, OpenAt, t
    <2>2. OpenAt <= t
      <3>1. CASE windowStart = 0
        BY <1>3, <3>1 DEF OpenAt, t
      <3>2. CASE windowStart # 0
        <4>1. counted \in counted - pps + 1 .. counted /\ counted \in 1 .. Len(put)
          BY SMTT(30), <1>0, <1>2, <1>3, <3>2
        <4>2. windowStart <= put[counted] /\ put[counted] \in Nat
          BY <1>0, <1>4, <4>1 DEF Within
        <4>3. put[counted] <= put[counted + 1]
          BY <1>0, <1>3, <4>1 DEF Times
        <4> QED
          BY <1>0, <1>3, <3>2, <4>2, <4>3 DEF OpenAt
      <3> QED
        BY <3>1, <3>2
    <2>3. ASSUME NEW n \in counted' - pps' + 1 .. counted'
          PROVE  windowStart' <= put'[n] /\ put'[n] < windowStart' + WindowTicks
      <3>1. CASE n = counted + 1
        BY <1>1, <1>3, <2>1, <2>2, <3>1
      <3>2. CASE n # counted + 1
        <4>1. windowStart # 0 /\ n \in counted - pps + 1 .. counted
          BY <1>0, <1>1, <1>2, <1>8, <2>3, <3>2
        <4> QED
          BY <1>1, <1>4, <2>1, <4>1 DEF Within, OpenAt
      <3> QED
        BY <3>1, <3>2
    <2> QED
      BY <2>3
  <1> QED
    BY <1>7, <1>8

LEMMA PumpPlaced ==
    ASSUME Typed, Accounts, Positive, Times, Placed, Pump, late' = {} => late = {}
    PROVE  Placed'
  <1>0. /\ counted \in Nat /\ pps \in Nat /\ windowStart \in Nat /\ WindowTicks \in Nat \ {0}
        /\ Counts /\ sealed \in Seq(Sealed) /\ Len(sealed) \in Nat
        /\ \A i \in 1 .. Len(sealed) : sealed[i] \in Sealed
        /\ sealed # <<>> => Len(sealed) \in 1 .. Len(sealed)
        /\ sealed = <<>> => Len(sealed) = 0
    <2>1. /\ counted \in Nat /\ pps \in Nat /\ windowStart \in Nat /\ WindowTicks \in Nat \ {0}
          /\ Counts /\ sealed \in Seq(Sealed)
      BY NetworkNumbers DEF Typed, TypeOK, Accounts, Sealed
    <2>2. Len(sealed) \in Nat /\ (sealed # <<>> => Len(sealed) \in Nat \ {0})
          /\ (sealed = <<>> => Len(sealed) = 0)
      BY <2>1, LenProperties, EmptySeq
    <2>3. \A i \in 1 .. Len(sealed) : sealed[i] \in Sealed
      BY <2>1, ElementOfSeq
    <2>4. sealed # <<>> => Len(sealed) \in 1 .. Len(sealed)
      BY <2>2
    <2> QED
      BY <2>1, <2>2, <2>3, <2>4
  <1> DEFINE x == [start |-> OpenAt, first |-> counted - pps + 1, last |-> counted]
             step(n) == IF n = 1 THEN 1 ELSE WindowTicks
  <1>1. /\ First \in Packet /\ UNCHANGED <<put, late>>
        /\ windowStart' = IF Seals THEN First.time - (First.time % WindowTicks) ELSE OpenAt
        /\ ~Seals => UNCHANGED sealed
        /\ Seals => sealed' = Append(sealed, x) /\ x \in Sealed
    BY <1>0, Pumps
  <1>2. x.start = OpenAt /\ x.first = counted - pps + 1 /\ x.last = counted
    OBVIOUS
  <1> HIDE DEF x
  <1>3. Seals => /\ Len(sealed') = Len(sealed) + 1 /\ sealed' # <<>>
                 /\ \A i \in 1 .. Len(sealed) : sealed'[i] = sealed[i]
                 /\ sealed'[Len(sealed) + 1] = x
    BY <1>0, <1>1, AppendProperties
  <1>4. /\ \A i \in 2 .. Len(sealed) :
               sealed[i].start >= sealed[i - 1].start + IF i = 2 THEN 1 ELSE WindowTicks
        /\ sealed # <<>> => /\ windowStart % WindowTicks = 0
                            /\ windowStart >= sealed[Len(sealed)].start + step(Len(sealed))
        /\ late = {} => \A i \in 1 .. Len(sealed) :
               \A n \in sealed[i].first .. sealed[i].last : Within(n, sealed[i].start)
        /\ late = {} => \A n \in counted - pps + 1 .. counted : Within(n, windowStart)
    BY DEF Placed, PacketsInTheirWindow
  <1>5. First.time \in Nat /\ First.time > 0
    <2>1. /\ First = queue[1] /\ Len(queue) \in Nat \ {0} /\ Len(put) = counted + Len(queue)
          /\ \A i \in 1 .. Len(queue) : queue[i].time = put[counted + i]
      BY <1>0, Pumps DEF Accounts, PacketsAccounted
    <2>2. 1 \in 1 .. Len(queue) /\ counted + 1 \in 1 .. Len(put)
      BY <1>0, <2>1
    <2>3. First.time = put[counted + 1]
      BY <2>1, <2>2
    <2> QED
      BY <1>1, <2>2, <2>3 DEF Packet, Positive
  <1>6. /\ windowStart = 0 => sealed = <<>>
        /\ Seals => windowStart # 0 /\ OpenAt = windowStart /\ First.time >= windowStart + WindowTicks
    BY <1>0, <1>5 DEF Seals, OpenAt, Accounts
  <1>7. late' = {} => /\ late = {}
                      /\ \A n \in counted' - pps' + 1 .. counted' :
                             windowStart' <= put'[n] /\ put'[n] < windowStart' + WindowTicks
    BY <1>1, PumpWithin
  <1>8. CASE Seals
    <2>1. \A i \in 1 .. Len(sealed') : i \in 1 .. Len(sealed) \/ i = Len(sealed) + 1
      BY <1>0, <1>3, <1>8
    <2>2. late' = {} => \A i \in 1 .. Len(sealed') : \A n \in sealed'[i].first .. sealed'[i].last :
                            sealed'[i].start <= put'[n] /\ put'[n] < sealed'[i].start + WindowTicks
      <3> SUFFICES ASSUME late' = {}, NEW i \in 1 .. Len(sealed'),
                          NEW n \in sealed'[i].first .. sealed'[i].last
                   PROVE  sealed'[i].start <= put'[n] /\ put'[n] < sealed'[i].start + WindowTicks
        OBVIOUS
      <3>1. CASE i \in 1 .. Len(sealed)
        BY <1>1, <1>3, <1>4, <1>7, <1>8, <3>1 DEF Within
      <3>2. CASE i = Len(sealed) + 1
        BY <1>1, <1>2, <1>3, <1>4, <1>6, <1>7, <1>8, <3>2 DEF Within
      <3> QED
        BY <2>1, <3>1, <3>2
    <2>3. \A i \in 2 .. Len(sealed') :
              sealed'[i].start >= sealed'[i - 1].start + IF i = 2 THEN 1 ELSE WindowTicks
      <3> TAKE i \in 2 .. Len(sealed')
      <3>1. CASE i \in 2 .. Len(sealed)
        <4>1. sealed'[i] = sealed[i] /\ sealed'[i - 1] = sealed[i - 1]
          <5>1. i \in 1 .. Len(sealed) /\ i - 1 \in 1 .. Len(sealed)
            BY <1>0, <3>1
          <5> QED
            BY <1>3, <1>8, <5>1
        <4> QED
          BY <1>4, <3>1, <4>1
      <3>2. CASE i = Len(sealed) + 1
        <4>1. sealed # <<>> /\ i - 1 = Len(sealed) /\ Len(sealed) \in 1 .. Len(sealed)
          BY <1>0, <3>2
        <4>2. sealed'[i] = x /\ sealed'[i - 1] = sealed[Len(sealed)]
          BY <1>3, <1>8, <3>2, <4>1
        <4>3. windowStart >= sealed[Len(sealed)].start + step(Len(sealed))
          BY <1>4, <4>1
        <4>4. (i = 2 => Len(sealed) = 1) /\ (i # 2 => Len(sealed) # 1)
          <5>1. Len(sealed) \in Nat /\ i \in Int
            BY <1>0
          <5>2. \A a, b \in Int : b = a + 1 => (b = 2 => a = 1) /\ (b # 2 => a # 1)
            OBVIOUS
          <5>3. Len(sealed) \in Int
            BY <5>1
          <5> QED
            BY <3>2, <5>1, <5>2, <5>3
        <4> QED
          BY <1>2, <1>6, <1>8, <4>2, <4>3, <4>4
      <3> QED
        BY <1>0, <2>1, <3>1, <3>2
    <2>4. windowStart' % WindowTicks = 0
      BY <1>0, <1>1, <1>5, <1>8, Aligned
    <2>5. windowStart' >= sealed'[Len(sealed')].start + step(Len(sealed'))
      <3>1. sealed'[Len(sealed')].start = windowStart
        BY <1>2, <1>3, <1>6, <1>8
      <3>2. CASE sealed = <<>>
        <4>1. First.time % WindowTicks \in 0 .. WindowTicks - 1
          BY <1>0, <1>5, Aligned
        <4>2. windowStart' >= windowStart + 1
          BY <1>0, <1>1, <1>5, <1>6, <1>8, <4>1
        <4> QED
          BY <1>0, <1>3, <1>8, <3>1, <3>2, <4>2
      <3>3. CASE sealed # <<>>
        <4>1. windowStart % WindowTicks = 0
          BY <1>4, <3>3
        <4>2. windowStart' >= windowStart + WindowTicks
          BY <1>0, <1>1, <1>5, <1>6, <1>8, <4>1, Aligned
        <4>3. Len(sealed') # 1
          BY <1>0, <1>3, <1>8, <3>3
        <4> QED
          BY <3>1, <4>2, <4>3
      <3> QED
        BY <3>2, <3>3
    <2> QED
      BY <1>7, <2>2, <2>3, <2>4, <2>5 DEF Placed, PacketsInTheirWindow, Within
  <1>9. CASE ~Seals
    <2>1. sealed' = sealed /\ (sealed # <<>> => windowStart' = windowStart)
      BY <1>1, <1>6, <1>9 DEF OpenAt
    <2>2. late' = {} => \A i \in 1 .. Len(sealed) : \A n \in sealed[i].first .. sealed[i].last :
                            sealed[i].start <= put'[n] /\ put'[n] < sealed[i].start + WindowTicks
      BY <1>1, <1>4, <1>7 DEF Within
    <2> QED
      BY <1>4, <1>7, <2>1, <2>2 DEF Placed, PacketsInTheirWindow, Within
  <1> QED
    BY <1>8, <1>9

\* Numbers already counted keep their times when a packet is put.
LEMMA PutPlaced ==
    ASSUME Typed, Accounts, Placed, NEW r \in Run, GenPut(r)
    PROVE  Placed'
  <1>0. /\ counted \in Nat /\ pps \in Nat /\ Len(put) \in Nat /\ sealed \in Seq(Sealed)
        /\ counted <= Len(put) /\ Counts
        /\ \A i \in 1 .. Len(sealed) : sealed[i].first >= 1 /\ sealed[i].last <= counted
                                       /\ sealed[i].first \in Nat /\ sealed[i].last \in Nat
    <2>1. queue \in Seq([time : Nat, size : Nat, port : Nat]) /\ put \in Seq(Nat)
          /\ counted \in Nat /\ pps \in Nat /\ sealed \in Seq(Sealed)
      BY DEF Typed, TypeOK, Sealed
    <2>2. Len(queue) \in Nat /\ Len(put) \in Nat
      BY <2>1, LenProperties
    <2>3. \A i \in 1 .. Len(sealed) : sealed[i].first \in Nat /\ sealed[i].last \in Nat
      <3>1. \A i \in 1 .. Len(sealed) : sealed[i] \in Sealed
        BY <2>1, ElementOfSeq
      <3> QED
        BY <3>1 DEF Sealed
    <2>4. Len(put) = counted + Len(queue) /\ Counts
      BY DEF Accounts, PacketsAccounted
    <2>5. \A i \in 1 .. Len(sealed) : sealed[i].first >= 1 /\ sealed[i].last <= counted
      BY DEF Accounts
    <2> QED
      BY <2>1, <2>2, <2>3, <2>4, <2>5
  <1>1. /\ \A n \in 1 .. Len(put) : put'[n] = put[n]
        /\ UNCHANGED <<accumulators, counts, late>>
    BY Puts
  <1>2. pps <= counted
    <2>1. CASE sealed = <<>>
      BY <1>0, <2>1 DEF Counts
    <2>2. CASE sealed # <<>>
      <3>1. Len(sealed) \in 1 .. Len(sealed)
        BY <1>0, <2>2, EmptySeq
      <3>2. sealed[Len(sealed)].last \in Nat
        BY <1>0, <3>1
      <3>3. counted = pps + sealed[Len(sealed)].last
        BY <1>0, <2>2 DEF Counts
      <3> QED
        BY <1>0, <3>2, <3>3
    <2> QED
      BY <2>1, <2>2
  <1>3. \A i \in 1 .. Len(sealed) : \A n \in sealed[i].first .. sealed[i].last : put'[n] = put[n]
    <2> TAKE i \in 1 .. Len(sealed)
    <2> TAKE n \in sealed[i].first .. sealed[i].last
    <2>1. n \in 1 .. Len(put)
      BY <1>0
    <2> QED
      BY <1>1, <2>1
  <1>4. \A n \in counted - pps + 1 .. counted : put'[n] = put[n]
    <2> TAKE n \in counted - pps + 1 .. counted
    <2>1. n \in 1 .. Len(put)
      BY <1>0, <1>2
    <2> QED
      BY <1>1, <2>1
  <1>5. PacketsInTheirWindow'
    BY <1>1, <1>3, <1>4 DEF Placed, PacketsInTheirWindow, Within, accumulators, counts
  <1> QED
    BY <1>1, <1>5 DEF Placed, accumulators, counts

LEMMA PlacedKept ==
    ASSUME NetworkSafe, Runs, Times, Placed, [Next]_vars
    PROVE  Placed'
  <1>0. Typed /\ Accounts /\ Positive
    BY DEF NetworkSafe
  <1>1. late' = {} => late = {}
    BY LateStays
  <1>2. CASE Pump
    BY <1>0, <1>1, <1>2, PumpPlaced
  <1>3. ASSUME NEW r \in Run, GenPut(r) PROVE Placed'
    BY <1>0, <1>3, PutPlaced
  <1>4. CASE Control \/ Judge \/ Fail \/ UNCHANGED vars
    <2>1. UNCHANGED <<accumulators, put, counts>>
      BY <1>4, ControlKeeps DEF Judge, Fail, vars
    <2> QED
      BY <1>1, <2>1 DEF Placed, PacketsInTheirWindow, Within, accumulators, counts
  <1> QED
    BY <1>2, <1>3, <1>4, NextCases

\* With one generator at a time every packet is counted in a window that
\* covers its time, and windows do not overlap.
THEOREM PacketsInTheirWindowThm == Spec => []PacketsInTheirWindow
  <1>1. Init => Runs /\ Times /\ Placed
    <2> SUFFICES ASSUME Init PROVE Times /\ Placed
      BY RunsStart
    <2>1. Len(put) = 0 /\ Len(sealed) = 0 /\ sealed = <<>> /\ counted = 0 /\ pps = 0 /\ Working = {}
      BY DEF Init, Working
    <2>2. Times
      BY <2>1 DEF Times
    <2>3. Placed
      BY <2>1 DEF Placed, PacketsInTheirWindow
    <2> QED
      BY <2>2, <2>3
  <1>2. NetworkSafe /\ Runs /\ Times /\ Placed /\ [Next]_vars => Runs' /\ Times' /\ Placed'
    BY RunsKept, TimesKept, PlacedKept DEF NetworkSafe
  <1>3. Placed => PacketsInTheirWindow
    BY DEF Placed
  <1> QED
    BY <1>1, <1>2, <1>3, NetworkInvariant, PTL DEF Spec
=============================================================================
