------------------------ MODULE VisualPipelineProofs ------------------------
(***************************************************************************)
(* The tracker, for frames of any size and any threshold: one track per    *)
(* detection, one detection per track, and an object that stands apart     *)
(* keeps its track. Then the pipeline, for any zones, frames and settings: *)
(* what it publishes of a track follows the track's life. A step of the    *)
(* pipeline is one of the tracker or leaves it alone, so that the          *)
(* tracker's invariant is the pipeline's.                                  *)
(***************************************************************************)
EXTENDS VisualPipeline, SequenceTheorems, FiniteSetTheorems, TLAPS

-----------------------------------------------------------------------------
(* The tracker                                                             *)

\* What the tracks visited so far have been given.
Claims ==
    /\ owner \in [DOMAIN owner -> Tracks \ pending]
    /\ \A i, j \in DOMAIN owner : owner[i] = owner[j] => i = j
    /\ \A i \in DOMAIN owner : /\ disappeared[owner[i]] = 0
                               /\ boxes[owner[i]] = detections[i]
    /\ \A t \in Tracks \ pending :
           disappeared[t] = 0 => \E i \in DOMAIN owner : owner[i] = t
    /\ step = "ready" => DOMAIN owner = DOMAIN detections

\* The box and the detection overlap each other and nothing else.
Isolated(t, i) ==
    /\ Overlaps(before[t], i)
    /\ \A j \in DOMAIN detections : Overlaps(before[t], j) => j = i
    /\ \A u \in DOMAIN before : Overlaps(before[u], i) => u = t

\* Such a pair is waiting for its turn or has been made.
Pairs ==
    \A t \in DOMAIN before, i \in DOMAIN detections :
        Isolated(t, i) => \/ t \in pending /\ i \notin DOMAIN owner
                          \/ i \in DOMAIN owner /\ owner[i] = t

\* A track is a frame older when its turn comes, and can miss once more.
Waiting == \A t \in pending : disappeared[t] < trackAges[t]

IInv == TrackerInv /\ Claims /\ Pairs /\ Waiting

-----------------------------------------------------------------------------
(* Fractions and boxes                                                     *)

\* A fraction at or above a bound is greater than one below it.
LEMMA GreaterAcross ==
    ASSUME NEW n \in Int, NEW d \in Int, d > 0,
           NEW a \in Int, NEW b \in Int, b > 0,
           NEW p \in Int, NEW q \in Int, q > 0,
           n * b <= a * d, n * q > p * d
    PROVE  a * q > p * b
<1>1. (n * b) * q <= (a * d) * q
  OBVIOUS
<1>2. (n * q) * b > (p * d) * b
  OBVIOUS
<1>3. (a * q) * d > (p * b) * d
  BY <1>1, <1>2
<1> QED
  BY <1>3

\* The overlap of boxes is a fraction with a positive denominator.
LEMMA IouType ==
    ASSUME NEW x \in Box, NEW y \in Box
    PROVE  Iou(x, y).num \in Int /\ Iou(x, y).den \in Int /\ Iou(x, y).den > 0
<1>1. Intersection(x, y) \in Int
  BY DEF Intersection, Most, Least, Box
<1>2. Area(x) \in Int /\ Area(y) \in Int
  BY DEF Area, Box
<1> QED
  BY <1>1, <1>2 DEF Iou

\* What a frame shows is a sequence of boxes.
LEMMA DetectionIsBox ==
    ASSUME TrackerInv, NEW i \in DOMAIN detections
    PROVE  i \in Nat /\ detections[i] \in Box
<1>1. <<>> \in Seq(Box)
  BY EmptySeq
<1>2. detections \in Seq(Box)
  BY <1>1, TrackerAssumption DEF TrackerInv
<1> QED
  BY <1>2, ElementOfSeq, LenProperties

\* Of the free detections one overlaps the box enough: it is the best.
LEMMA OnlyOneIsBest ==
    ASSUME TrackerInv, NEW t \in DOMAIN before, NEW i \in Free,
           Overlaps(before[t], i),
           \A j \in DOMAIN detections : Overlaps(before[t], j) => j = i
    PROVE  Matching(t, i)
<1> DEFINE box == before[t]
           over(j) == Iou(box, detections[j])
<1>1. box \in Box
  BY DEF TrackerInv
<1>2. ASSUME NEW j \in Free, j # i
      PROVE  Greater(over(i), over(j)) /\ ~Greater(over(j), over(i))
  <2>1. i \in DOMAIN detections /\ j \in DOMAIN detections
    BY DEF Free
  <2>2. detections[i] \in Box /\ detections[j] \in Box
    BY <2>1, DetectionIsBox
  <2>3. /\ over(i).num \in Int /\ over(i).den \in Int /\ over(i).den > 0
        /\ over(j).num \in Int /\ over(j).den \in Int /\ over(j).den > 0
    BY <1>1, <2>2, IouType
  <2>4. ~Overlaps(box, j)
    BY <1>2, <2>1
  <2> HIDE DEF over, box
  <2>5. ~(IouNum * over(i).den > over(i).num * IouDen)
    BY DEF Overlaps, Greater, over, box
  <2>6. IouNum * over(j).den > over(j).num * IouDen
    BY <2>4 DEF Overlaps, Greater, over, box
  <2>7. over(i).num * over(j).den > over(j).num * over(i).den
    <3> DEFINE a == over(i).num  b == over(i).den  p == over(j).num  q == over(j).den
    <3>1. a \in Int /\ b \in Int /\ b > 0 /\ p \in Int /\ q \in Int /\ q > 0
      BY <2>3
    <3>2. IouNum \in Int /\ IouDen \in Int /\ IouDen > 0
      BY TrackerAssumption
    <3>3. IouNum * q > p * IouDen /\ ~(IouNum * b > a * IouDen)
      BY <2>5, <2>6
    <3> HIDE DEF a, b, p, q
    <3>4. IouNum * b <= a * IouDen
      BY <3>1, <3>2, <3>3
    <3>5. a * q > p * b
      BY <3>1, <3>2, <3>3, <3>4, GreaterAcross
    <3> QED
      BY <3>5 DEF a, b, p, q
  <2>8. over(i).num * over(j).den \in Int /\ over(j).num * over(i).den \in Int
    BY <2>3
  <2> QED
    BY <2>7, <2>8 DEF Greater
<1>3. i \in Int
  BY DetectionIsBox DEF Free
<1>4. ~Greater(over(i), over(i))
  <2>1. over(i).num \in Int /\ over(i).den \in Int
    BY <1>1, DetectionIsBox, IouType DEF Free
  <2> HIDE DEF over
  <2> QED
    BY <2>1 DEF Greater
<1>5. ASSUME NEW j \in Free
      PROVE  IF j < i THEN Greater(over(i), over(j)) ELSE ~Greater(over(j), over(i))
  <2>1. CASE j = i
    BY <2>1, <1>3, <1>4
  <2>2. CASE j # i
    BY <2>2, <1>2
  <2> QED
    BY <2>1, <2>2
<1> QED
  BY <1>5 DEF Matching, Best

-----------------------------------------------------------------------------
(* The steps of update()                                                   *)

\* Before the first frame there is nothing to account for.
LEMMA InitKeeps == InitTracker => IInv
<1> SUFFICES ASSUME InitTracker PROVE IInv
  OBVIOUS
<1>1. DOMAIN <<>> = {}
  OBVIOUS
<1>2. TrackerInv
  BY <1>1, TrackerAssumption DEF InitTracker, TrackerInv, Tracks, Box
<1>3. Claims
  BY <1>1 DEF InitTracker, Claims, Tracks
<1>4. Pairs
  BY <1>1 DEF InitTracker, Pairs
<1>5. Waiting
  BY DEF InitTracker, Waiting
<1> QED
  BY <1>2, <1>3, <1>4, <1>5 DEF IInv

\* A frame that shows nothing: no track stays at 0.
LEMMA EmptyUpdateKeeps ==
    ASSUME IInv, Update(<<>>), <<>> \in Frame
    PROVE  IInv'
<1> USE DEF IInv
<1>0. DOMAIN <<>> = {}
  OBVIOUS
<1> DEFINE lost == {t \in DOMAIN disappeared : disappeared[t] + 1 > MaxDisappeared}
<1>1. /\ step = "ready" /\ step' = "ready" /\ pending' = pending /\ nextId' = nextId
      /\ detections' = <<>> /\ before' = boxes /\ owner' = <<>>
      /\ disappeared' = [t \in DOMAIN disappeared \ lost |-> disappeared[t] + 1]
      /\ trackAges' = [t \in DOMAIN trackAges \ lost |-> trackAges[t] + 1]
      /\ boxes' = [t \in DOMAIN boxes \ lost |-> boxes[t]]
  BY DEF Update, Without, TrackerInv
<1>2. pending = {}
  BY <1>1 DEF TrackerInv
<1>3. Tracks' = Tracks \ lost
  BY <1>1 DEF Tracks
<1>4. \A t \in Tracks' : /\ disappeared'[t] = disappeared[t] + 1
                         /\ disappeared'[t] \in 1 .. MaxDisappeared
                         /\ trackAges'[t] = trackAges[t] + 1
                         /\ boxes'[t] = boxes[t]
  BY <1>1, <1>3, TrackerAssumption DEF TrackerInv, Tracks
<1>5. TrackerInv'
  <2>1. boxes' \in [Tracks' -> Box] /\ before' \in [DOMAIN before' -> Box]
    BY <1>1, <1>3 DEF TrackerInv, Tracks
  <2>2. disappeared' \in [Tracks' -> 0 .. MaxDisappeared]
    BY <1>1, <1>3, <1>4, TrackerAssumption DEF TrackerInv
  <2>3. trackAges' \in [Tracks' -> Nat]
    BY <1>1, <1>3, <1>4 DEF TrackerInv
  <2>4. \A t \in Tracks' : disappeared'[t] <= trackAges'[t]
    BY <1>3, <1>4, TrackerAssumption DEF TrackerInv
  <2>5. DOMAIN before' \subseteq 0 .. nextId' - 1 /\ Tracks' \subseteq 0 .. nextId' - 1
    BY <1>1, <1>3 DEF TrackerInv, Tracks
  <2> QED
    BY <1>0, <1>1, <1>2, <2>1, <2>2, <2>3, <2>4, <2>5 DEF TrackerInv
<1>6. Claims'
  <2>1. \A t \in Tracks' : disappeared'[t] # 0
    BY <1>4, TrackerAssumption
  <2>2. DOMAIN owner' = {} /\ DOMAIN detections' = {}
    BY <1>0, <1>1
  <2>3. owner' \in [DOMAIN owner' -> Tracks' \ pending']
    BY <1>0, <1>1
  <2> QED
    BY <2>1, <2>2, <2>3 DEF Claims
<1>7. Pairs'
  BY <1>0, <1>1 DEF Pairs
<1>8. Waiting'
  BY <1>1, <1>2 DEF Waiting
<1> QED
  BY <1>5, <1>6, <1>7, <1>8

\* A frame that shows something: every track waits for its turn.
LEMMA FullUpdateKeeps ==
    ASSUME IInv, NEW frame \in Frame, Update(frame), frame # <<>>
    PROVE  IInv'
<1> USE DEF IInv
<1>0. DOMAIN <<>> = {}
  OBVIOUS
<1>1. /\ step' = "update" /\ pending' = DOMAIN boxes /\ nextId' = nextId
      /\ detections' = frame /\ before' = boxes /\ owner' = <<>>
      /\ trackAges' = [t \in DOMAIN trackAges |-> trackAges[t] + 1]
      /\ disappeared' = disappeared /\ boxes' = boxes
  BY DEF Update
<1>2. Tracks' = Tracks /\ pending' = Tracks'
  BY <1>1 DEF Tracks
<1>3. TrackerInv'
  <2>1. \A t \in Tracks' : disappeared'[t] <= trackAges'[t]
    BY <1>1, <1>2, TrackerAssumption DEF TrackerInv
  <2>2. boxes' \in [Tracks' -> Box] /\ before' \in [DOMAIN before' -> Box]
    BY <1>1, <1>2 DEF TrackerInv, Tracks
  <2>3. trackAges' \in [Tracks' -> Nat] /\ disappeared' \in [Tracks' -> 0 .. MaxDisappeared]
    BY <1>1, <1>2 DEF TrackerInv
  <2>4. DOMAIN before' \subseteq 0 .. nextId' - 1 /\ Tracks' \subseteq 0 .. nextId' - 1
    BY <1>1, <1>2 DEF TrackerInv, Tracks
  <2>5. \A t \in pending' : t \in DOMAIN before' /\ boxes'[t] = before'[t]
    BY <1>1
  <2> QED
    BY <1>0, <1>1, <1>2, <2>1, <2>2, <2>3, <2>4, <2>5 DEF TrackerInv
<1>4. Claims'
  BY <1>0, <1>1, <1>2 DEF Claims
<1>5. Pairs'
  BY <1>0, <1>1 DEF Pairs, Isolated, Overlaps
<1>6. Waiting'
  <2>1. \A t \in Tracks' : disappeared'[t] < trackAges'[t]
    BY <1>1, <1>2, TrackerAssumption DEF TrackerInv
  <2> QED
    BY <1>2, <2>1 DEF Waiting
<1> QED
  BY <1>3, <1>4, <1>5, <1>6

\* A match gives a free detection to the track whose turn it is.
LEMMA MatchKeeps ==
    ASSUME IInv, NEW t \in pending, NEW i \in DOMAIN detections, Match(t, i)
    PROVE  IInv'
<1> USE DEF IInv
<1>1. /\ step = "update" /\ step' = step /\ pending' = pending \ {t} /\ nextId' = nextId
      /\ detections' = detections /\ before' = before /\ trackAges' = trackAges
      /\ boxes' = [x \in DOMAIN boxes \union {t} |-> IF x = t THEN detections[i] ELSE boxes[x]]
      /\ disappeared' = [x \in DOMAIN disappeared \union {t} |-> IF x = t THEN 0 ELSE disappeared[x]]
      /\ owner' = [x \in DOMAIN owner \union {i} |-> IF x = i THEN t ELSE owner[x]]
      /\ i \in DOMAIN detections /\ i \notin DOMAIN owner
      /\ Overlaps(before[t], i)
  BY DEF Match, Due, With, Matching, Best, Free
<1>2. t \in Tracks /\ Tracks' = Tracks
  BY <1>1 DEF TrackerInv, Tracks
<1>3. DOMAIN disappeared = Tracks
  BY DEF TrackerInv
<1>4. TrackerInv'
  <2>1. detections[i] \in Box
    BY <1>1, DetectionIsBox
  <2>2. boxes' \in [Tracks' -> Box]
    BY <1>1, <1>2, <2>1 DEF TrackerInv, Tracks
  <2>3. disappeared' \in [Tracks' -> 0 .. MaxDisappeared]
    BY <1>1, <1>2, <1>3, TrackerAssumption DEF TrackerInv
  <2>4. \A u \in Tracks' : disappeared'[u] <= trackAges'[u]
    BY <1>1, <1>2, <1>3 DEF TrackerInv
  <2>5. \A u \in pending' : u \in DOMAIN before' /\ boxes'[u] = before'[u]
    BY <1>1 DEF TrackerInv, Tracks
  <2> QED
    BY <1>1, <1>2, <2>2, <2>3, <2>4, <2>5 DEF TrackerInv
<1>5. Claims'
  <2>1. \A j \in DOMAIN owner : owner[j] \in Tracks \ pending /\ owner[j] # t
    BY DEF Claims
  <2>2. owner' \in [DOMAIN owner' -> Tracks' \ pending']
    BY <1>1, <1>2, <2>1
  <2>3. \A j, k \in DOMAIN owner' : owner'[j] = owner'[k] => j = k
    BY <1>1, <2>1 DEF Claims
  <2>4. \A j \in DOMAIN owner' : /\ disappeared'[owner'[j]] = 0
                                 /\ boxes'[owner'[j]] = detections'[j]
    BY <1>1, <1>2, <1>3, <2>1 DEF Claims, Tracks
  <2>5. ASSUME NEW u \in Tracks' \ pending', disappeared'[u] = 0
        PROVE  \E j \in DOMAIN owner' : owner'[j] = u
    <3>1. CASE u = t
      BY <1>1, <3>1
    <3>2. CASE u # t
      <4>1. u \in Tracks \ pending /\ disappeared[u] = 0
        BY <1>1, <1>2, <1>3, <2>5, <3>2
      <4>2. PICK j \in DOMAIN owner : owner[j] = u
        BY <4>1 DEF Claims
      <4>3. j \in DOMAIN owner' /\ owner'[j] = u
        BY <1>1, <4>2
      <4> QED
        BY <4>3
    <3> QED
      BY <3>1, <3>2
  <2> QED
    BY <1>1, <2>2, <2>3, <2>4, <2>5 DEF Claims
<1>6. Pairs'
  <2> SUFFICES ASSUME NEW u \in DOMAIN before, NEW j \in DOMAIN detections,
                      Isolated(u, j)
               PROVE  \/ u \in pending' /\ j \notin DOMAIN owner'
                      \/ j \in DOMAIN owner' /\ owner'[j] = u
    BY <1>1 DEF Pairs, Isolated, Overlaps
  <2>1. u = t <=> j = i
    BY <1>1 DEF Isolated, TrackerInv
  <2>2. CASE u = t
    BY <1>1, <2>1, <2>2
  <2>3. CASE u # t
    BY <1>1, <2>1, <2>3 DEF Pairs
  <2> QED
    BY <2>2, <2>3
<1>7. Waiting'
  BY <1>1, <1>2, <1>3 DEF Waiting, TrackerInv
<1> QED
  BY <1>4, <1>5, <1>6, <1>7

\* A track that misses had no detection of its own to find.
LEMMA MissKeeps ==
    ASSUME IInv, NEW t \in pending, Miss(t)
    PROVE  IInv'
<1> USE DEF IInv
<1> DEFINE gone == IF disappeared[t] + 1 > MaxDisappeared THEN {t} ELSE {}
<1>1. /\ step = "update" /\ step' = step /\ pending' = pending \ {t} /\ nextId' = nextId
      /\ detections' = detections /\ before' = before /\ owner' = owner
      /\ ~\E i \in Free : Matching(t, i)
  BY DEF Miss, Due
<1>2. t \in Tracks /\ DOMAIN disappeared = Tracks /\ DOMAIN trackAges = Tracks
  BY DEF TrackerInv
<1>3. /\ Tracks' = Tracks \ gone /\ DOMAIN disappeared' = Tracks' /\ DOMAIN trackAges' = Tracks'
      /\ \A u \in Tracks' : /\ boxes'[u] = boxes[u] /\ trackAges'[u] = trackAges[u]
                            /\ u # t => disappeared'[u] = disappeared[u]
                            /\ u = t => /\ disappeared'[u] = disappeared[u] + 1
                                        /\ disappeared[u] + 1 <= MaxDisappeared
      /\ boxes' = [u \in Tracks' |-> boxes'[u]]
      /\ disappeared' = [u \in Tracks' |-> disappeared'[u]]
      /\ trackAges' = [u \in Tracks' |-> trackAges'[u]]
  <2>1. disappeared[t] \in Nat /\ MaxDisappeared \in Nat
    BY <1>2, TrackerAssumption DEF TrackerInv
  <2>2. boxes = [u \in Tracks |-> boxes[u]] /\ trackAges = [u \in Tracks |-> trackAges[u]]
    BY DEF TrackerInv
  <2>3. CASE disappeared[t] + 1 > MaxDisappeared
    BY <1>2, <2>3 DEF Miss, Without, Tracks
  <2>4. CASE ~(disappeared[t] + 1 > MaxDisappeared)
    <3>1. /\ disappeared' = [x \in Tracks |-> IF x = t THEN disappeared[t] + 1 ELSE disappeared[x]]
          /\ boxes' = boxes /\ trackAges' = trackAges
      <4>1. DOMAIN disappeared \union {t} = Tracks
        BY <1>2
      <4> QED
        BY <4>1, <2>4 DEF Miss, With
    <3>2. Tracks' = Tracks /\ gone = {}
      BY <3>1, <2>4 DEF Tracks
    <3>3. disappeared[t] + 1 <= MaxDisappeared
      BY <2>1, <2>4
    <3> QED
      BY <1>2, <2>2, <3>1, <3>2, <3>3
  <2> QED
    BY <2>3, <2>4
<1>4. TrackerInv'
  <2>1. \A u \in Tracks' : u \in Tracks /\ boxes[u] \in Box /\ trackAges[u] \in Nat
    BY <1>3 DEF TrackerInv
  <2>2. boxes' \in [Tracks' -> Box] /\ trackAges' \in [Tracks' -> Nat]
    BY <1>3, <2>1
  <2>3. \A u \in Tracks' : disappeared'[u] \in 0 .. MaxDisappeared
    BY <1>3, <2>1, TrackerAssumption DEF TrackerInv
  <2>4. disappeared' \in [Tracks' -> 0 .. MaxDisappeared]
    BY <1>3, <2>3
  <2>5. \A u \in Tracks' : disappeared'[u] <= trackAges'[u]
    BY <1>3, <2>1, TrackerAssumption DEF TrackerInv, Waiting
  <2>6. \A u \in pending' : u \in DOMAIN before' /\ boxes'[u] = before'[u]
    BY <1>1, <1>3 DEF TrackerInv
  <2>7. pending' \subseteq Tracks' /\ Tracks' \subseteq Tracks
    BY <1>1, <1>3 DEF TrackerInv
  <2> QED
    BY <1>1, <2>2, <2>4, <2>5, <2>6, <2>7 DEF TrackerInv
<1>5. Claims'
  <2>1. \A j \in DOMAIN owner : /\ owner[j] \in Tracks \ pending /\ owner[j] # t
                                /\ owner[j] \in Tracks' \ pending'
    BY <1>1, <1>3 DEF Claims
  <2>2. owner' \in [DOMAIN owner' -> Tracks' \ pending']
    BY <1>1, <2>1 DEF Claims
  <2>3. \A j \in DOMAIN owner' : /\ disappeared'[owner'[j]] = 0
                                 /\ boxes'[owner'[j]] = detections'[j]
    BY <1>1, <1>3, <2>1 DEF Claims
  <2>4. t \in Tracks' => disappeared'[t] # 0
    BY <1>2, <1>3, TrackerAssumption DEF TrackerInv
  <2>5. \A u \in Tracks' \ pending' :
            disappeared'[u] = 0 => u \in Tracks \ pending /\ disappeared[u] = 0
    BY <1>1, <1>3, <2>4
  <2> QED
    BY <1>1, <2>2, <2>3, <2>5 DEF Claims
<1>6. Pairs'
  <2> SUFFICES ASSUME NEW u \in DOMAIN before, NEW j \in DOMAIN detections,
                      Isolated(u, j)
               PROVE  \/ u \in pending' /\ j \notin DOMAIN owner
                      \/ j \in DOMAIN owner /\ owner[j] = u
    BY <1>1 DEF Pairs, Isolated, Overlaps
  <2>1. CASE u = t
    <3>1. CASE j \in Free
      BY <1>1, <2>1, <3>1, OnlyOneIsBest DEF Isolated
    <3>2. CASE j \notin Free
      BY <2>1, <3>2 DEF Free, Pairs
    <3> QED
      BY <3>1, <3>2
  <2>2. CASE u # t
    BY <1>1, <2>2 DEF Pairs
  <2> QED
    BY <2>1, <2>2
<1>7. Waiting'
  BY <1>1, <1>3 DEF Waiting, TrackerInv
<1> QED
  BY <1>4, <1>5, <1>6, <1>7

\* A new track gets a number no track has had.
LEMMA RegisterKeeps ==
    ASSUME IInv, NEW i \in DOMAIN detections, Register(i)
    PROVE  IInv'
<1> USE DEF IInv
<1>1. /\ step = "update" /\ step' = step /\ pending = {} /\ pending' = {}
      /\ nextId' = nextId + 1 /\ detections' = detections /\ before' = before
      /\ boxes' = [x \in DOMAIN boxes \union {nextId} |-> IF x = nextId THEN detections[i] ELSE boxes[x]]
      /\ disappeared' = [x \in DOMAIN disappeared \union {nextId} |->
                            IF x = nextId THEN 0 ELSE disappeared[x]]
      /\ trackAges' = [x \in DOMAIN trackAges \union {nextId} |-> IF x = nextId THEN 0 ELSE trackAges[x]]
      /\ owner' = [x \in DOMAIN owner \union {i} |-> IF x = i THEN nextId ELSE owner[x]]
      /\ i \notin DOMAIN owner
  BY DEF Register, With, Free
<1>2. /\ nextId \in Nat /\ nextId \notin Tracks
      /\ DOMAIN disappeared = Tracks /\ DOMAIN trackAges = Tracks
  BY DEF TrackerInv
<1>3. Tracks' = Tracks \union {nextId}
  BY <1>1 DEF Tracks
<1>4. TrackerInv'
  <2>1. detections[i] \in Box
    BY DetectionIsBox
  <2>2. boxes' \in [Tracks' -> Box]
    BY <1>1, <1>3, <2>1 DEF TrackerInv, Tracks
  <2>3. disappeared' \in [Tracks' -> 0 .. MaxDisappeared] /\ trackAges' \in [Tracks' -> Nat]
    BY <1>1, <1>2, <1>3, TrackerAssumption DEF TrackerInv
  <2>4. \A u \in Tracks' : disappeared'[u] <= trackAges'[u]
    BY <1>1, <1>2, <1>3 DEF TrackerInv
  <2>5. nextId' \in Nat /\ Tracks' \subseteq 0 .. nextId' - 1 /\ DOMAIN before' \subseteq 0 .. nextId' - 1
    BY <1>1, <1>2, <1>3 DEF TrackerInv
  <2> QED
    BY <1>1, <2>2, <2>3, <2>4, <2>5 DEF TrackerInv
<1>5. Claims'
  <2>1. \A j \in DOMAIN owner : owner[j] \in Tracks /\ owner[j] # nextId
    BY <1>2 DEF Claims
  <2>2. owner' \in [DOMAIN owner' -> Tracks' \ pending']
    BY <1>1, <1>3, <2>1
  <2>3. \A j, k \in DOMAIN owner' : owner'[j] = owner'[k] => j = k
    BY <1>1, <2>1 DEF Claims
  <2>4. \A j \in DOMAIN owner' : /\ disappeared'[owner'[j]] = 0
                                 /\ boxes'[owner'[j]] = detections'[j]
    BY <1>1, <1>2, <2>1 DEF Claims, Tracks
  <2>5. ASSUME NEW u \in Tracks' \ pending', disappeared'[u] = 0
        PROVE  \E j \in DOMAIN owner' : owner'[j] = u
    <3>1. CASE u = nextId
      BY <1>1, <3>1
    <3>2. CASE u # nextId
      <4>1. u \in Tracks \ pending /\ disappeared[u] = 0
        BY <1>1, <1>2, <1>3, <2>5, <3>2
      <4>2. PICK j \in DOMAIN owner : owner[j] = u
        BY <4>1 DEF Claims
      <4>3. j \in DOMAIN owner' /\ owner'[j] = u
        BY <1>1, <4>2
      <4> QED
        BY <4>3
    <3> QED
      BY <3>1, <3>2
  <2> QED
    BY <1>1, <2>2, <2>3, <2>4, <2>5 DEF Claims
<1>6. Pairs'
  BY <1>1 DEF Pairs, Isolated, Overlaps
<1>7. Waiting'
  BY <1>1 DEF Waiting
<1> QED
  BY <1>4, <1>5, <1>6, <1>7

\* update() returns when every detection has its track.
LEMMA ReturnKeeps ==
    ASSUME IInv, Return
    PROVE  IInv'
<1> USE DEF IInv
<1>1. /\ pending = {} /\ step' = "ready" /\ DOMAIN owner = DOMAIN detections
      /\ UNCHANGED <<boxes, disappeared, trackAges, nextId, detections, before, pending, owner>>
  BY DEF Return, Free, TrackerInv
<1>2. TrackerInv'
  BY <1>1 DEF TrackerInv, Tracks
<1>3. Claims'
  BY <1>1 DEF Claims, Tracks
<1>4. Pairs'
  BY <1>1 DEF Pairs, Isolated, Overlaps
<1>5. Waiting'
  BY <1>1 DEF Waiting
<1> QED
  BY <1>2, <1>3, <1>4, <1>5

LEMMA StepKeeps ==
    ASSUME IInv, [NextTracker]_tracker
    PROVE  IInv'
<1>1. ASSUME NEW frame \in Frame, Update(frame) PROVE IInv'
  BY <1>1, EmptyUpdateKeeps, FullUpdateKeeps
<1>2. ASSUME InUpdate PROVE IInv'
  BY <1>2, MatchKeeps, MissKeeps, RegisterKeeps, ReturnKeeps DEF InUpdate
<1>3. ASSUME UNCHANGED tracker PROVE IInv'
  BY SMTT(30), <1>3 DEF tracker, IInv, TrackerInv, Claims, Pairs, Waiting, Isolated, Overlaps, Tracks
<1> QED
  BY <1>1, <1>2, <1>3 DEF NextTracker

-----------------------------------------------------------------------------
(* What follows                                                            *)

\* Between calls the claims are the whole account of the frame.
LEMMA ImpliesAccounted == IInv => FrameAccounted
<1> SUFFICES ASSUME IInv, step = "ready" PROVE FrameAccounted
  BY DEF FrameAccounted
<1>1. pending = {}
  BY DEF IInv, TrackerInv
<1>2. {owner[i] : i \in DOMAIN owner} = {t \in Tracks : disappeared[t] = 0}
  BY <1>1 DEF IInv, Claims
<1> QED
  BY <1>2 DEF IInv, Claims, FrameAccounted

LEMMA ImpliesIdentity == IInv => IsolatedKeepsIdentity
BY DEF IInv, TrackerInv, Pairs, Isolated, IsolatedKeepsIdentity

\* Frames of any size, any number of tracks and any threshold: the tracker
\* (modules/visual/tracker.py: CentroidTracker.update) keeps its stores in step
\* and a track for at most MaxDisappeared frames without its object.
THEOREM TrackerCorrect == TrackerSpec => []TrackerInv
<1>1. InitTracker => IInv
  BY InitKeeps
<1>2. IInv /\ [NextTracker]_tracker => IInv'
  BY StepKeeps
<1>3. IInv => TrackerInv
  BY DEF IInv
<1> QED
  BY <1>1, <1>2, <1>3, PTL DEF TrackerSpec

\* Each detection of a frame goes to one track and each track seen in it has one
\* detection, whatever overlaps what.
THEOREM EveryFrameAccounted == TrackerSpec => []FrameAccounted
<1>1. InitTracker => IInv
  BY InitKeeps
<1>2. IInv /\ [NextTracker]_tracker => IInv'
  BY StepKeeps
<1> QED
  BY <1>1, <1>2, ImpliesAccounted, PTL DEF TrackerSpec

\* The greedy assignment never takes from a track the only object near it, when
\* no other track is near that object.
THEOREM IdentityKept == TrackerSpec => []IsolatedKeepsIdentity
<1>1. InitTracker => IInv
  BY InitKeeps
<1>2. IInv /\ [NextTracker]_tracker => IInv'
  BY StepKeeps
<1> QED
  BY <1>1, <1>2, ImpliesIdentity, PTL DEF TrackerSpec

-----------------------------------------------------------------------------
(* The pipeline                                                            *)

Kind == {"ZONE_ENTRY", "ZONE_EXIT", "LOITERING"}

\* The event may come after the one before it.
Follows(kind, prior) == \/ kind = "ZONE_ENTRY" /\ prior = "ZONE_EXIT"
                        \/ kind = "LOITERING" /\ prior = "ZONE_ENTRY"
                        \/ kind = "ZONE_EXIT" /\ prior # "ZONE_EXIT"

Stints(s) == \A i \in 1 .. Len(s) :
                 Follows(s[i], IF i = 1 THEN "ZONE_EXIT" ELSE s[i - 1])

\* The last event of a track in a zone says where it stands.
Stands(z, t) == /\ t \in inside[z] <=> LastOf(said[z][t]) # "ZONE_EXIT"
                /\ t \in loiterAlerted[z] <=> LastOf(said[z][t]) = "LOITERING"

\* A track that raised its alert is still marked, or gone for good: its number
\* is not given again.
Marked == \A t \in Id : /\ raced[t] <= 1
                        /\ raced[t] = 1 => \/ t \in speedAlerted
                                           \/ t \notin Tracks /\ t < nextId

\* Before the loop nothing is tracked; in it, who is inside is tracked once the
\* zones have been gone through.
SetUp == /\ at \in {"open", "setup"} => nextId = 0 /\ pushed = <<>>
         /\ at = "open" => source = "none"
         /\ at = "setup" => source = "open"
         /\ at = "speed" => \A z \in Zone : inside[z] \subseteq Tracks

VInv == /\ IInv /\ ZonesInv /\ Marked /\ ZoneStints
        /\ SetUp /\ SourceHeld /\ PushedWhole

-----------------------------------------------------------------------------
(* Series of events                                                        *)

LEMMA LastOfType ==
    ASSUME NEW s \in Seq(Kind)
    PROVE  LastOf(s) \in Kind
<1>1. CASE s = <<>>
  BY <1>1 DEF LastOf, Kind
<1>2. CASE s # <<>>
  <2>1. Len(s) \in Nat /\ Len(s) # 0 /\ DOMAIN s = 1 .. Len(s)
    BY <1>2, LenProperties, EmptySeq
  <2>2. Len(s) \in 1 .. Len(s)
    BY <2>1
  <2>3. s[Len(s)] \in Kind
    BY <2>2, ElementOfSeq
  <2> QED
    BY <1>2, <2>3 DEF LastOf
<1> QED
  BY <1>1, <1>2

\* One more event, at its place.
LEMMA AppendStint ==
    ASSUME NEW s \in Seq(Kind), NEW k \in Kind, Stints(s), Follows(k, LastOf(s))
    PROVE  /\ s \o <<k>> \in Seq(Kind)
           /\ Stints(s \o <<k>>)
           /\ LastOf(s \o <<k>>) = k
<1> DEFINE a == Append(s, k)
           n == Len(s)
<1>1. /\ a \in Seq(Kind) /\ a # <<>> /\ Len(a) = n + 1
      /\ \A i \in 1 .. n : a[i] = s[i]
      /\ a[n + 1] = k
  BY AppendProperties
<1>2. n \in Nat /\ (s = <<>> <=> n = 0)
  BY LenProperties, EmptySeq
<1>3. a = s \o <<k>>
  BY AppendIsConcat
<1> HIDE DEF a, n
<1>4. LastOf(a) = k
  BY <1>1 DEF LastOf
<1>5. ASSUME NEW i \in 1 .. n
      PROVE  Follows(a[i], IF i = 1 THEN "ZONE_EXIT" ELSE a[i - 1])
  <2>1. i = 1 \/ i - 1 \in 1 .. n
    BY <1>2
  <2>2. Follows(s[i], IF i = 1 THEN "ZONE_EXIT" ELSE s[i - 1])
    BY DEF Stints, n
  <2> QED
    BY <1>1, <2>1, <2>2
<1>6. Follows(a[n + 1], IF n + 1 = 1 THEN "ZONE_EXIT" ELSE a[n])
  <2>1. CASE n = 0
    BY <1>1, <1>2, <2>1 DEF LastOf
  <2>2. CASE n # 0
    <3>1. n \in 1 .. n
      BY <1>2, <2>2
    <3>2. LastOf(s) = s[n]
      BY <1>2, <2>2 DEF LastOf, n
    <3>3. Follows(k, a[n])
      BY <1>1, <3>1, <3>2
    <3> QED
      BY <1>1, <1>2, <2>2, <3>3
  <2> QED
    BY <2>1, <2>2
<1>7. Stints(a)
  <2> SUFFICES ASSUME NEW i \in 1 .. n + 1
               PROVE  Follows(a[i], IF i = 1 THEN "ZONE_EXIT" ELSE a[i - 1])
    BY <1>1 DEF Stints
  <2>1. CASE i \in 1 .. n
    BY <1>5, <2>1
  <2>2. CASE i = n + 1
    <3>1. i - 1 = n
      BY <1>2, <2>2
    <3> QED
      BY <1>6, <2>2, <3>1
  <2> QED
    BY <1>2, <2>1, <2>2
<1> QED
  BY <1>1, <1>3, <1>4, <1>7

LEMMA StintsOfZones ==
    TypeOK => (ZoneStints <=> \A z \in Zone, t \in Id : Stints(said[z][t]) /\ Stands(z, t))
BY DEF ZoneStints, Stints, Stands, Follows

-----------------------------------------------------------------------------
(* The tracker inside the pipeline                                         *)

\* Numbers are given once: a track that was not there is a new one.
LEMMA TracksGrow ==
    ASSUME TrackerInv, [NextTracker]_tracker
    PROVE  nextId' \in Nat /\ nextId <= nextId' /\ Tracks' \subseteq Tracks \union {nextId}
           /\ (nextId' = nextId => Tracks' \subseteq Tracks)
<1>1. ASSUME NEW frame \in Frame, Update(frame)
      PROVE  nextId' = nextId /\ Tracks' \subseteq Tracks
  BY <1>1 DEF Update, Without, Tracks
<1>2. ASSUME NEW t \in pending, NEW i \in DOMAIN detections, Match(t, i)
      PROVE  nextId' = nextId /\ Tracks' \subseteq Tracks
  BY <1>2 DEF Match, With, Tracks, TrackerInv
<1>3. ASSUME NEW t \in pending, Miss(t)
      PROVE  nextId' = nextId /\ Tracks' \subseteq Tracks
  BY <1>3 DEF Miss, Without, Tracks
<1>4. ASSUME NEW i \in DOMAIN detections, Register(i)
      PROVE  nextId' = nextId + 1 /\ Tracks' = Tracks \union {nextId}
  BY <1>4 DEF Register, With, Tracks
<1>5. ASSUME Return \/ UNCHANGED tracker
      PROVE  nextId' = nextId /\ Tracks' = Tracks
  BY <1>5 DEF Return, Tracks, tracker
<1>6. nextId \in Nat
  BY DEF TrackerInv
<1> QED
  BY <1>1, <1>2, <1>3, <1>4, <1>5, <1>6 DEF NextTracker, InUpdate

LEMMA PipelineInitKeeps == Init => VInv
<1> SUFFICES ASSUME Init PROVE VInv
  OBVIOUS
<1>1. DOMAIN <<>> = {}
  OBVIOUS
<1>2. IInv
  BY InitKeeps DEF Init, InitZones
<1>3. TypeOK
  <2>1. <<>> \in [{} -> Nat] /\ <<>> \in Seq(Kind)
        /\ <<>> \in [{} -> Seq([place : Int \X Int, time : Nat])]
    BY <1>1, EmptySeq
  <2> QED
    BY <1>1, <2>1 DEF Init, InitZones, TypeOK, Kind
<1>4. ZonesInv
  <2>1. Cardinality({}) = 0
    BY FS_EmptySet
  <2>2. ~(0 >= CrowdThreshold)
    BY PipelineAssumption
  <2>3. ASSUME NEW z \in Zone
        PROVE  /\ inside[z] \subseteq 0 .. nextId - 1
               /\ \A t \in inside[z] : dwellStart[z][t] <= now
               /\ loiterAlerted[z] \subseteq inside[z]
               /\ crowdAlerted[z] = (Cardinality(inside[z]) >= CrowdThreshold)
               /\ enterCount[z] = exitCount[z] + Cardinality(inside[z])
    <3>1. /\ inside[z] = {} /\ loiterAlerted[z] = {} /\ crowdAlerted[z] = FALSE
          /\ enterCount[z] = 0 /\ exitCount[z] = 0
      BY DEF Init, InitZones
    <3>2. Cardinality(inside[z]) = 0
      BY <2>1, <3>1
    <3>3. crowdAlerted[z] = (Cardinality(inside[z]) >= CrowdThreshold)
      <4>1. ~(Cardinality(inside[z]) >= CrowdThreshold)
        BY <2>2, <3>2
      <4>2. (Cardinality(inside[z]) >= CrowdThreshold) = FALSE
        <5> DEFINE crowded == Cardinality(inside[z]) >= CrowdThreshold
        <5>1. crowded \in BOOLEAN /\ ~crowded
          BY <4>1, <3>2, PipelineAssumption
        <5> HIDE DEF crowded
        <5>2. crowded = FALSE
          BY <5>1
        <5> QED
          BY <5>2 DEF crowded
      <4> QED
        BY <3>1, <4>2
    <3>4. enterCount[z] = exitCount[z] + Cardinality(inside[z])
      BY <3>1, <3>2
    <3> QED
      BY <3>1, <3>3, <3>4
  <2>4. step = "ready" /\ speedAlerted = {} /\ DOMAIN observed = {}
    BY <1>1 DEF Init, InitZones, InitTracker
  <2> QED
    BY <1>2, <1>3, <2>3, <2>4 DEF ZonesInv, IInv
<1>5. Marked
  BY DEF Init, InitZones, Marked
<1>6. ZoneStints
  <2>1. Len(<<>>) = 0
    BY EmptySeq
  <2>2. ASSUME NEW z \in Zone, NEW t \in Id
        PROVE  Stints(said[z][t]) /\ Stands(z, t)
    <3>1. said[z][t] = <<>> /\ inside[z] = {} /\ loiterAlerted[z] = {}
      BY DEF Init, InitZones
    <3> QED
      BY <2>1, <3>1 DEF Stints, Stands, LastOf
  <2> QED
    BY <1>3, <2>2, StintsOfZones
<1>7. SetUp /\ SourceHeld /\ PushedWhole
  <2>1. nextId = 0 /\ pushed = <<>> /\ at = "open" /\ source = "none" /\ DOMAIN pushed = {}
    BY <1>1 DEF Init, InitZones, InitTracker
  <2> QED
    BY <2>1 DEF SetUp, SourceHeld, PushedWhole
<1> QED
  BY <1>2, <1>4, <1>5, <1>6, <1>7 DEF VInv

\* A step of the tracker leaves zones and speeds alone and takes back no number.
LEMMA TrackerStepKeeps ==
    ASSUME VInv, [NextTracker]_tracker, UNCHANGED <<zones, speeds, pushed, now>>,
           frames' \in Nat, source' \in {"none", "open", "failed", "released"},
           at' \in {"open", "setup", "read", "track", "speed", "done"},
           at' \in {"open", "setup", "read", "speed"} => step' = "ready",
           SetUp', SourceHeld'
    PROVE  VInv'
<1> USE DEF VInv
<1>1. IInv'
  BY StepKeeps
<1>2. nextId \in Nat /\ nextId' \in Nat /\ nextId <= nextId'
      /\ Tracks' \subseteq Tracks \union {nextId} /\ (nextId' = nextId => Tracks' \subseteq Tracks)
  BY TracksGrow DEF IInv, TrackerInv
<1>3. TypeOK'
  BY DEF ZonesInv, TypeOK, zones, speeds
<1>4. ZonesInv'
  <2>1. \A z \in Zone : inside'[z] \subseteq 0 .. nextId' - 1
    BY <1>2 DEF ZonesInv, zones
  <2>2. DOMAIN observed' \subseteq 0 .. nextId' - 1
    BY <1>2 DEF ZonesInv, speeds
  <2> QED
    BY <1>1, <1>3, <2>1, <2>2 DEF ZonesInv, IInv, zones, speeds
<1>5. Marked'
  BY <1>2 DEF Marked, speeds, Id
<1>6. ZoneStints' /\ PushedWhole'
  BY DEF ZoneStints, PushedWhole, zones
<1> QED
  BY <1>1, <1>4, <1>5, <1>6

-----------------------------------------------------------------------------
(* Zones and speeds                                                        *)

\* How many enter and leave is how the number inside changes.
LEMMA Balance ==
    ASSUME NEW I, NEW C, IsFiniteSet(I), IsFiniteSet(C)
    PROVE  /\ Cardinality(C \ I) \in Nat /\ Cardinality(I \ C) \in Nat
           /\ Cardinality(I) \in Nat /\ Cardinality(C) \in Nat
           /\ Cardinality(C \ I) + Cardinality(I) = Cardinality(I \ C) + Cardinality(C)
<1>1. /\ IsFiniteSet(C \ I) /\ Cardinality(C \ I) = Cardinality(C) - Cardinality(C \cap I)
      /\ IsFiniteSet(I \ C) /\ Cardinality(I \ C) = Cardinality(I) - Cardinality(I \cap C)
  BY FS_Difference
<1>2. C \cap I = I \cap C
  OBVIOUS
<1>3. IsFiniteSet(C \cap I)
  BY FS_Subset
<1>4. /\ Cardinality(C \ I) \in Nat /\ Cardinality(I \ C) \in Nat
      /\ Cardinality(I) \in Nat /\ Cardinality(C) \in Nat /\ Cardinality(C \cap I) \in Nat
  BY <1>1, <1>3, FS_CardinalityType
<1> QED
  BY <1>1, <1>2, <1>4

LEMMA ZonesKeeps ==
    ASSUME VInv, Zones
    PROVE  VInv'
<1> USE DEF VInv
<1>1. /\ step = "ready" /\ at = "track" /\ at' = "speed"
      /\ UNCHANGED tracker /\ UNCHANGED speeds /\ UNCHANGED frames /\ UNCHANGED now
      /\ UNCHANGED pushed /\ UNCHANGED source
  BY DEF Zones
<1>2. IInv' /\ Tracks' = Tracks /\ nextId' = nextId /\ step' = "ready"
  <2>1. IInv'
    BY <1>1, StepKeeps
  <2> QED
    BY <1>1, <2>1 DEF tracker, Tracks
<1>3. nextId \in Nat /\ now \in Nat /\ Tracks \subseteq 0 .. nextId - 1
  BY DEF ZonesInv, TypeOK, TrackerInv
<1>4. ASSUME NEW z \in Zone
      PROVE  /\ inside'[z] = Current(z)
             /\ inside[z] \subseteq 0 .. nextId - 1 /\ Current(z) \subseteq 0 .. nextId - 1
             /\ DOMAIN dwellStart[z] = inside[z]
             /\ (DOMAIN dwellStart[z] \union Entered(z)) \ Exited(z) = Current(z)
             /\ Loiterers(z) \subseteq Current(z)
             /\ loiterAlerted'[z] = (loiterAlerted[z] \ Exited(z)) \union Loiterers(z)
             /\ loiterAlerted[z] \subseteq inside[z]
  BY <1>3 DEF Zones, ZonesInv, TypeOK, Current, Entered, Exited, Loiterers
<1>5. ASSUME NEW z \in Zone
      PROVE  /\ crowdAlerted'[z] = (Cardinality(Current(z)) >= CrowdThreshold)
             /\ enterCount'[z] \in Nat /\ exitCount'[z] \in Nat
             /\ enterCount'[z] = exitCount'[z] + Cardinality(Current(z))
  <2>1. IsFiniteSet(0 .. nextId - 1)
    BY <1>3, FS_Interval
  <2>2. IsFiniteSet(inside[z]) /\ IsFiniteSet(Current(z))
    BY <1>4, <2>1, FS_Subset
  <2> DEFINE I == Cardinality(inside[z])  C == Cardinality(Current(z))
             e == Cardinality(Entered(z)) x == Cardinality(Exited(z))
  <2>3. I \in Nat /\ C \in Nat /\ e \in Nat /\ x \in Nat /\ e + I = x + C
    BY <2>2, Balance DEF Entered, Exited
  <2>4. /\ enterCount[z] \in Nat /\ exitCount[z] \in Nat
        /\ enterCount[z] = exitCount[z] + I
    BY DEF ZonesInv, TypeOK
  <2>5. /\ crowdAlerted'[z] = (C >= CrowdThreshold)
        /\ enterCount'[z] = enterCount[z] + e /\ exitCount'[z] = exitCount[z] + x
    BY DEF Zones
  <2> HIDE DEF I, C, e, x
  <2>6. enterCount'[z] \in Nat /\ exitCount'[z] \in Nat /\ enterCount'[z] = exitCount'[z] + C
    BY <2>3, <2>4, <2>5
  <2> QED
    BY <2>5, <2>6 DEF C
<1>6. ASSUME NEW z \in Zone
      PROVE  /\ dwellStart'[z] \in [Current(z) -> Nat]
             /\ \A t \in Current(z) : dwellStart'[z][t] <= now
  <2>1. dwellStart'[z] = [t \in Current(z) |-> IF t \in Entered(z) THEN now ELSE dwellStart[z][t]]
    BY <1>4 DEF Zones
  <2>2. \A t \in Current(z) : t \in Entered(z) \/ t \in inside[z]
    BY DEF Entered
  <2>3. \A t \in inside[z] : dwellStart[z][t] \in Nat /\ dwellStart[z][t] <= now
    BY DEF ZonesInv, TypeOK
  <2> QED
    BY <1>3, <2>1, <2>2, <2>3
<1>7. ASSUME NEW z \in Zone, NEW t \in Id
      PROVE  /\ said'[z][t] \in Seq(Kind)
             /\ Stints(said'[z][t]) /\ Stands(z, t)'
  <2> DEFINE s == said[z][t]
             entry == IF t \in Entered(z) THEN <<"ZONE_ENTRY">> ELSE <<>>
             exit == IF t \in Exited(z) THEN <<"ZONE_EXIT">> ELSE <<>>
             loiter == IF t \in Loiterers(z) THEN <<"LOITERING">> ELSE <<>>
  <2>1. said'[z][t] = ((s \o entry) \o exit) \o loiter
    BY DEF Zones
  <2>2. s \in Seq(Kind)
    BY DEF ZonesInv, TypeOK, Kind
  <2>3. Stints(s) /\ Stands(z, t)
    BY StintsOfZones DEF ZonesInv
  <2>4. LastOf(s) \in Kind /\ "ZONE_ENTRY" \in Kind /\ "ZONE_EXIT" \in Kind /\ "LOITERING" \in Kind
    BY <2>2, LastOfType DEF Kind
  <2>5. /\ t \in inside[z] <=> LastOf(s) # "ZONE_EXIT"
        /\ t \in loiterAlerted[z] <=> LastOf(s) = "LOITERING"
    BY <2>3 DEF Stands
  <2>6. /\ t \in Entered(z) <=> t \in Current(z) /\ t \notin inside[z]
        /\ t \in Exited(z) <=> t \in inside[z] /\ t \notin Current(z)
        /\ t \in Loiterers(z) => t \in Current(z) /\ t \notin loiterAlerted[z]
    BY DEF Entered, Exited, Loiterers
  <2>7. \A r \in Seq(Kind) : r \o <<>> = r
    BY ConcatEmptySeq
  <2> HIDE DEF s
  <2>8. ASSUME NEW r \in Seq(Kind), Stints(r), said'[z][t] = r,
               t \in Current(z) <=> LastOf(r) # "ZONE_EXIT",
               t \in loiterAlerted'[z] <=> LastOf(r) = "LOITERING"
        PROVE  said'[z][t] \in Seq(Kind) /\ Stints(said'[z][t]) /\ Stands(z, t)'
    BY <1>4, <2>8 DEF Stands
  <2>9. CASE t \in Entered(z)
    <3> DEFINE r == s \o <<"ZONE_ENTRY">>
    <3>1. Follows("ZONE_ENTRY", LastOf(s))
      BY <2>5, <2>6, <2>9 DEF Follows
    <3>2. r \in Seq(Kind) /\ Stints(r) /\ LastOf(r) = "ZONE_ENTRY"
      BY <2>2, <2>3, <2>4, <3>1, AppendStint
    <3>3. s \o entry = r /\ r \o exit = r
      BY <2>6, <2>7, <2>9, <3>2
    <3> HIDE DEF r
    <3>4. CASE t \in Loiterers(z)
      <4>1. Follows("LOITERING", LastOf(r))
        BY <3>2 DEF Follows
      <4>2. r \o <<"LOITERING">> \in Seq(Kind) /\ Stints(r \o <<"LOITERING">>)
            /\ LastOf(r \o <<"LOITERING">>) = "LOITERING"
        BY <2>4, <3>2, <4>1, AppendStint
      <4>3. said'[z][t] = r \o <<"LOITERING">>
        BY <2>1, <3>3, <3>4
      <4>4. t \in Current(z) /\ t \in loiterAlerted'[z]
        BY <1>4, <2>6, <3>4
      <4> QED
        BY <2>8, <4>2, <4>3, <4>4
    <3>5. CASE t \notin Loiterers(z)
      <4>1. said'[z][t] = r
        BY <2>1, <2>7, <3>2, <3>3, <3>5
      <4>2. t \in Current(z) /\ t \notin loiterAlerted'[z]
        BY <1>4, <2>6, <2>9, <3>5
      <4> QED
        BY <2>8, <3>2, <4>1, <4>2
    <3> QED
      BY <3>4, <3>5
  <2>10. CASE t \in Exited(z)
    <3> DEFINE r == s \o <<"ZONE_EXIT">>
    <3>1. Follows("ZONE_EXIT", LastOf(s))
      BY <2>5, <2>6, <2>10 DEF Follows
    <3>2. r \in Seq(Kind) /\ Stints(r) /\ LastOf(r) = "ZONE_EXIT"
      BY <2>2, <2>3, <2>4, <3>1, AppendStint
    <3>3. s \o entry = s /\ s \o exit = r /\ r \o loiter = r
      BY <2>2, <2>6, <2>7, <2>10, <3>2
    <3>4. said'[z][t] = r
      BY <2>1, <3>3
    <3>5. t \notin Current(z) /\ t \notin loiterAlerted'[z]
      BY <1>4, <2>6, <2>10
    <3> HIDE DEF r
    <3> QED
      BY <2>8, <3>2, <3>4, <3>5
  <2>11. CASE t \notin Entered(z) /\ t \notin Exited(z) /\ t \in Loiterers(z)
    <3>1. t \in Current(z) /\ t \in inside[z] /\ t \notin loiterAlerted[z] /\ t \in loiterAlerted'[z]
      BY <1>4, <2>6, <2>11
    <3>2. Follows("LOITERING", LastOf(s))
      BY <2>4, <2>5, <3>1 DEF Follows, Kind
    <3>3. s \o <<"LOITERING">> \in Seq(Kind) /\ Stints(s \o <<"LOITERING">>)
          /\ LastOf(s \o <<"LOITERING">>) = "LOITERING"
      BY <2>2, <2>3, <2>4, <3>2, AppendStint
    <3>4. said'[z][t] = s \o <<"LOITERING">>
      BY <2>1, <2>2, <2>7, <2>11
    <3> QED
      BY <2>8, <3>1, <3>3, <3>4
  <2>12. CASE t \notin Entered(z) /\ t \notin Exited(z) /\ t \notin Loiterers(z)
    <3>1. said'[z][t] = s
      BY <2>1, <2>2, <2>7, <2>12
    <3>2. (t \in Current(z) <=> t \in inside[z]) /\ (t \in loiterAlerted'[z] <=> t \in loiterAlerted[z])
      BY <1>4, <2>6, <2>12
    <3> QED
      BY <2>2, <2>3, <2>5, <2>8, <3>1, <3>2
  <2> QED
    BY <2>9, <2>10, <2>11, <2>12
<1>8. TypeOK'
  <2>1. /\ inside' = [z \in Zone |-> inside'[z]] /\ loiterAlerted' = [z \in Zone |-> loiterAlerted'[z]]
        /\ crowdAlerted' = [z \in Zone |-> crowdAlerted'[z]] /\ DOMAIN dwellStart' = Zone
        /\ enterCount' = [z \in Zone |-> enterCount'[z]] /\ exitCount' = [z \in Zone |-> exitCount'[z]]
        /\ said' = [z \in Zone |-> [t \in Id |-> said'[z][t]]]
    BY DEF Zones
  <2>2. inside' \in [Zone -> SUBSET Nat]
    BY <1>3, <1>4, <2>1
  <2>3. loiterAlerted' \in [Zone -> SUBSET Nat]
    <3>1. \A z \in Zone : loiterAlerted'[z] \subseteq Nat
      BY <1>3, <1>4
    <3> QED
      BY <2>1, <3>1
  <2>4. crowdAlerted' \in [Zone -> BOOLEAN]
    BY DEF Zones
  <2>5. enterCount' \in [Zone -> Nat] /\ exitCount' \in [Zone -> Nat]
    BY <1>5, <2>1
  <2>6. said' \in [Zone -> [Id -> Seq({"ZONE_ENTRY", "ZONE_EXIT", "LOITERING"})]]
    BY <1>7, <2>1 DEF Kind
  <2>7. \A z \in Zone : dwellStart'[z] \in [inside'[z] -> Nat]
    BY <1>4, <1>6
  <2>8. /\ observed' \in [DOMAIN observed' -> Seq([place : Int \X Int, time : Nat])]
        /\ raced' \in [Id -> Nat] /\ frames' \in Nat /\ now' \in Nat
        /\ source' \in {"none", "open", "failed", "released"}
    BY <1>1 DEF ZonesInv, TypeOK, speeds
  <2> QED
    BY <1>1, <2>1, <2>2, <2>3, <2>4, <2>5, <2>6, <2>7, <2>8 DEF TypeOK
<1>9. ZonesInv'
  <2>1. \A z \in Zone : loiterAlerted'[z] \subseteq inside'[z]
    BY <1>4 DEF Exited
  <2>2. speedAlerted' \subseteq DOMAIN observed' /\ DOMAIN observed' \subseteq 0 .. nextId' - 1
    BY <1>1, <1>2 DEF ZonesInv, speeds
  <2> QED
    BY <1>1, <1>2, <1>4, <1>5, <1>6, <1>8, <2>1, <2>2 DEF ZonesInv, IInv
<1>10. Marked'
  BY <1>1, <1>2 DEF Marked, speeds
<1>11. ZoneStints'
  BY <1>7, <1>8, StintsOfZones DEF ZoneStints, Stints, Stands, Follows
<1>12. SetUp' /\ SourceHeld' /\ PushedWhole'
  <2>1. \A z \in Zone : inside'[z] \subseteq Tracks'
    BY <1>2, <1>4 DEF Current
  <2> QED
    BY <1>1, <2>1 DEF SetUp, SourceHeld, PushedWhole
<1> QED
  BY <1>2, <1>9, <1>10, <1>11, <1>12

\* The windows of the estimator stay what they are.
LEMMA ObservedType ==
    ASSUME VInv, NEW t \in DOMAIN Observed
    PROVE  Observed[t] \in Seq([place : Int \X Int, time : Nat])
<1> DEFINE Place == [place : Int \X Int, time : Nat]
           past == IF t \in DOMAIN observed THEN observed[t] ELSE <<>>
           here == [place |-> Centroid(boxes[t]), time |-> now]
           longer == Append(past, here)
<1>1. /\ DOMAIN Observed = DOMAIN observed \union Tracks
      /\ Observed[t] = IF t \notin Tracks THEN observed[t]
                       ELSE IF Len(longer) > HistoryLen THEN Tail(longer) ELSE longer
  BY DEF Observed
<1>2. t \in DOMAIN observed => observed[t] \in Seq(Place)
  BY DEF VInv, ZonesInv, TypeOK
<1>3. CASE t \notin Tracks
  BY <1>1, <1>2, <1>3
<1>4. CASE t \in Tracks
  <2>1. past \in Seq(Place)
    BY <1>2, EmptySeq
  <2>2. here \in Place
    <3>1. boxes[t] \in Box /\ now \in Nat
      BY <1>4 DEF VInv, ZonesInv, TypeOK, TrackerInv, Tracks
    <3> DEFINE x == boxes[t][1] + boxes[t][3]
               y == boxes[t][2] + boxes[t][4]
    <3>2. x \in Int /\ y \in Int
      BY <3>1 DEF Box
    <3> HIDE DEF x, y
    <3>3. x \div 2 \in Int /\ y \div 2 \in Int
      BY <3>2
    <3> QED
      BY <3>1, <3>3 DEF Centroid, x, y
  <2> HIDE DEF past, here, Place
  <2>3. longer \in Seq(Place) /\ longer # <<>>
    BY <2>1, <2>2, AppendProperties
  <2> HIDE DEF longer
  <2>4. Tail(longer) \in Seq(Place)
    BY <2>3, HeadTailProperties
  <2> QED
    BY <1>1, <1>4, <2>3, <2>4 DEF Place
<1> QED
  BY <1>3, <1>4

\* What the loop pushes after the zones is of one frame.
LEMMA PushedIsWhole ==
    ASSUME VInv, at = "speed", PushMetrics
    PROVE  PushedWhole'
<1> USE DEF VInv
<1> DEFINE metrics == [active_tracks |-> Cardinality(Tracks),
                       zone_stats |-> [z \in Zone |-> Stats(z)]]
<1>1. pushed' = <<metrics>>
  BY DEF PushMetrics
<1>2. ASSUME NEW z \in Zone
      PROVE  /\ Cardinality(inside[z]) <= Cardinality(Tracks)
             /\ enterCount[z] = exitCount[z] + Cardinality(inside[z])
  <2>1. nextId \in Nat /\ Tracks \subseteq 0 .. nextId - 1
    BY DEF ZonesInv, TrackerInv
  <2>2. IsFiniteSet(Tracks)
    <3>1. IsFiniteSet(0 .. nextId - 1)
      BY <2>1, FS_Interval
    <3> QED
      BY <2>1, <3>1, FS_Subset
  <2>3. inside[z] \subseteq Tracks
    BY DEF SetUp
  <2> QED
    BY <2>2, <2>3, FS_Subset DEF ZonesInv
<1>3. ASSUME NEW z \in Zone
      PROVE  LET stats == metrics.zone_stats[z]
             IN  /\ stats.occupancy <= metrics.active_tracks
                 /\ stats.enter_count = stats.exit_count + stats.occupancy
                 /\ stats.is_crowded <=> stats.occupancy >= CrowdThreshold
  BY <1>2 DEF Stats
<1> HIDE DEF metrics
<1>4. DOMAIN pushed' = {1} /\ pushed'[1] = metrics
  BY <1>1
<1> QED
  BY <1>3, <1>4 DEF PushedWhole

LEMMA SpeedsKeeps ==
    ASSUME VInv, Speeds
    PROVE  VInv'
<1> USE DEF VInv
<1> DEFINE fast == {t \in Tracks : IsAnomaly(t)}
<1>1. /\ raced' = [t \in Id |-> IF t \in fast \ speedAlerted THEN raced[t] + 1 ELSE raced[t]]
      /\ speedAlerted' = (speedAlerted \union fast) \intersect Tracks
      /\ observed' = Without(Observed, (speedAlerted \union fast) \ Tracks)
  BY DEF Speeds
<1>2. /\ at' = "read" /\ UNCHANGED tracker /\ UNCHANGED zones /\ UNCHANGED frames /\ UNCHANGED now
      /\ at = "speed" /\ UNCHANGED source /\ PushMetrics
  BY DEF Speeds
<1>3. IInv' /\ Tracks' = Tracks /\ nextId' = nextId /\ step' = step
  <2>1. IInv'
    BY <1>2, StepKeeps
  <2> QED
    BY <1>2, <2>1 DEF tracker, Tracks
<1>4. fast \subseteq Tracks /\ Tracks \subseteq 0 .. nextId - 1
  BY DEF ZonesInv, TrackerInv
<1> HIDE DEF fast
<1>5. /\ DOMAIN observed' = (DOMAIN observed \union Tracks) \ ((speedAlerted \union fast) \ Tracks)
      /\ observed' \in [DOMAIN observed' -> Seq([place : Int \X Int, time : Nat])]
  <2>1. DOMAIN Observed = DOMAIN observed \union Tracks
    BY DEF Observed
  <2>2. \A t \in DOMAIN Observed : Observed[t] \in Seq([place : Int \X Int, time : Nat])
    BY ObservedType
  <2> HIDE DEF VInv
  <2> QED
    BY <1>1, <2>1, <2>2 DEF Without
<1>6. raced' \in [Id -> Nat]
  BY <1>1 DEF ZonesInv, TypeOK
<1>7. TypeOK'
  BY <1>2, <1>5, <1>6 DEF ZonesInv, TypeOK, zones
<1>8. ZonesInv'
  <2>1. speedAlerted' \subseteq DOMAIN observed' /\ DOMAIN observed' \subseteq 0 .. nextId' - 1
    BY <1>1, <1>3, <1>4, <1>5 DEF ZonesInv
  <2>2. \A z \in Zone :
            /\ inside'[z] \subseteq 0 .. nextId' - 1
            /\ \A t \in inside'[z] : dwellStart'[z][t] <= now'
            /\ loiterAlerted'[z] \subseteq inside'[z]
            /\ crowdAlerted'[z] = (Cardinality(inside'[z]) >= CrowdThreshold)
            /\ enterCount'[z] = exitCount'[z] + Cardinality(inside'[z])
    BY <1>2, <1>3 DEF ZonesInv, zones
  <2>3. step' = "ready"
    BY <1>2, <1>3 DEF ZonesInv
  <2> QED
    BY <1>3, <1>7, <2>1, <2>2, <2>3 DEF ZonesInv, IInv
<1>9. Marked'
  <2> SUFFICES ASSUME NEW t \in Id
               PROVE  /\ raced'[t] <= 1
                      /\ raced'[t] = 1 => \/ t \in speedAlerted'
                                          \/ t \notin Tracks /\ t < nextId
    BY <1>3 DEF Marked
  <2>1. raced[t] \in Nat
    BY DEF ZonesInv, TypeOK
  <2>2. CASE t \in fast \ speedAlerted
    BY <1>1, <1>4, <2>1, <2>2 DEF Marked
  <2>3. CASE t \notin fast \ speedAlerted
    <3>1. t \in speedAlerted => t < nextId
      BY DEF ZonesInv, Id, TrackerInv
    <3> QED
      BY <1>1, <2>3, <3>1 DEF Marked
  <2> QED
    BY <2>2, <2>3
<1>10. ZoneStints'
  BY <1>2 DEF ZoneStints, zones
<1>11. SetUp' /\ SourceHeld'
  BY <1>2 DEF SetUp, SourceHeld
<1>12. PushedWhole'
  BY <1>2, PushedIsWhole
<1> QED
  BY <1>3, <1>8, <1>9, <1>10, <1>11, <1>12

LEMMA TickKeeps ==
    ASSUME VInv, Tick
    PROVE  VInv'
<1> USE DEF VInv
<1>1. /\ now' = now + 1 /\ UNCHANGED tracker /\ UNCHANGED zones /\ UNCHANGED speeds
      /\ UNCHANGED at /\ UNCHANGED frames /\ now \in Nat
      /\ UNCHANGED pushed /\ UNCHANGED source
  BY DEF Tick, ZonesInv, TypeOK
<1>2. IInv' /\ Tracks' = Tracks /\ nextId' = nextId /\ step' = step
  <2>1. IInv'
    BY <1>1, StepKeeps
  <2> QED
    BY <1>1, <2>1 DEF tracker, Tracks
<1>3. TypeOK'
  BY <1>1 DEF ZonesInv, TypeOK, zones, speeds
<1>4. \A z \in Zone : \A t \in inside'[z] : dwellStart'[z][t] <= now'
  BY <1>1 DEF ZonesInv, TypeOK, zones
<1>5. ZonesInv'
  BY <1>1, <1>2, <1>3, <1>4 DEF ZonesInv, IInv, zones, speeds
<1>6. Marked' /\ ZoneStints'
  BY <1>1, <1>2 DEF Marked, ZoneStints, zones, speeds
<1>7. SetUp' /\ SourceHeld' /\ PushedWhole'
  BY <1>1, <1>2 DEF SetUp, SourceHeld, PushedWhole, zones
<1> QED
  BY <1>2, <1>5, <1>6, <1>7

LEMMA PipelineStepKeeps ==
    ASSUME VInv, [Next]_vars
    PROVE  VInv'
<1>0. /\ frames \in Nat /\ at \in {"open", "setup", "read", "track", "speed", "done"}
      /\ at \in {"open", "setup", "read", "speed"} => step = "ready"
      /\ source \in {"none", "open", "failed", "released"}
  BY DEF VInv, ZonesInv, TypeOK
<1>1. ASSUME OpenSource \/ MakeZones \/ SetupFails PROVE VInv'
  <2>1. /\ UNCHANGED tracker /\ UNCHANGED <<zones, speeds, pushed, now>>
        /\ at \in {"open", "setup"} /\ frames' \in Nat
    BY <1>0, <1>1 DEF OpenSource, OpenDevice, MakeZones, SetupFails, ReadSource
  <2>2. /\ source' \in {"open", "failed", "released"}
        /\ (at' \in {"setup", "read"} /\ source' = "open") \/ at' = "done"
    BY <1>1 DEF OpenSource, OpenDevice, MakeZones, SetupFails, ReadSource, Release, VInv, SetUp
  <2>3. step' = "ready" /\ nextId' = 0 /\ pushed' = <<>>
    BY <1>0, <2>1 DEF tracker, VInv, SetUp
  <2>4. SetUp' /\ SourceHeld'
    BY <2>2, <2>3 DEF SetUp, SourceHeld
  <2> QED
    BY <2>1, <2>2, <2>3, <2>4, TrackerStepKeeps
<1>2. ASSUME Tick PROVE VInv'
  BY <1>2, TickKeeps
<1>3. ASSUME Track PROVE VInv'
  <2>1. SetUp' /\ SourceHeld'
    BY <1>3 DEF Track, VInv, SetUp, SourceHeld
  <2> QED
    BY <1>0, <1>3, <2>1, TrackerStepKeeps DEF Track, NextTracker
<1>4. ASSUME Zones PROVE VInv'
  BY <1>4, ZonesKeeps
<1>5. ASSUME Speeds PROVE VInv'
  BY <1>5, SpeedsKeeps
<1>6. ASSUME End PROVE VInv'
  <2>1. source' = "released" /\ at' = "done"
    BY <1>6 DEF End, Release, VInv, SourceHeld
  <2>2. SetUp' /\ SourceHeld'
    BY <2>1 DEF SetUp, SourceHeld
  <2> QED
    BY <1>0, <1>6, <2>1, <2>2, TrackerStepKeeps DEF End, tracker
<1>7. ASSUME NEW frame \in Frame, Read(frame) PROVE VInv'
  <2>1. SetUp' /\ SourceHeld' /\ frames' \in Nat
    BY <1>0, <1>7 DEF Read, ReadSource, SetUp, SourceHeld
  <2> QED
    BY <1>0, <1>7, <2>1, TrackerStepKeeps DEF Read, NextTracker
<1>8. ASSUME UNCHANGED vars PROVE VInv'
  <2>1. SetUp' /\ SourceHeld'
    BY <1>8 DEF vars, tracker, zones, VInv, SetUp, SourceHeld, Tracks
  <2> QED
    BY <1>0, <1>8, <2>1, TrackerStepKeeps DEF vars, tracker
<1> QED
  BY <1>1, <1>2, <1>3, <1>4, <1>5, <1>6, <1>7, <1>8 DEF Next

-----------------------------------------------------------------------------
(* What follows                                                            *)

\* Zones, dwell times, counters and estimates speak only of tracks that exist or
\* have existed, and a zone's counters agree with who is inside
\* (modules/visual/zone_manager.py: Zone.update).
THEOREM PipelineCorrect == Spec => []VisualInv
<1>1. VInv => VisualInv
  BY DEF VInv, VisualInv, Marked, SpeedOncePerTrack
<1> QED
  BY <1>1, PipelineInitKeeps, PipelineStepKeeps, PTL DEF Spec

\* The events of a track in a zone are whole stints, however the track is lost,
\* found, pruned or moved.
THEOREM StintsHold == Spec => []ZoneStints
<1>1. VInv => ZoneStints
  BY DEF VInv
<1> QED
  BY <1>1, PipelineInitKeeps, PipelineStepKeeps, PTL DEF Spec

\* One speed anomaly per track, for any frames and any loss in between.
THEOREM RacedOnce == Spec => []SpeedOncePerTrack
<1>1. VInv => SpeedOncePerTrack
  BY DEF VInv, Marked, SpeedOncePerTrack
<1> QED
  BY <1>1, PipelineInitKeeps, PipelineStepKeeps, PTL DEF Spec

\* The tracker in the pipeline accounts for every frame and keeps the identity
\* of objects that stand apart.
THEOREM PipelineTracks == Spec => [](FrameAccounted /\ IsolatedKeepsIdentity)
<1>1. VInv => FrameAccounted /\ IsolatedKeepsIdentity
  BY ImpliesAccounted, ImpliesIdentity DEF VInv
<1> QED
  BY <1>1, PipelineInitKeeps, PipelineStepKeeps, PTL DEF Spec
=============================================================================
