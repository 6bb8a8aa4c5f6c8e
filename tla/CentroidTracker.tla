--------------------------- MODULE CentroidTracker ---------------------------
(***************************************************************************)
(* modules/visual/tracker.py: CentroidTracker gives the boxes detected in  *)
(* a frame to the tracks it knows, by their overlap, and keeps a track     *)
(* that finds none for MaxDisappeared frames.                              *)
(*                                                                         *)
(* update() is the steps from Update to Return: a step per turn of its     *)
(* loops. Tracks are visited in the order of the dictionary boxes, which   *)
(* is the order of their numbers: a track keeps its place and a new one    *)
(* goes last. Centroids follow from the boxes; metadata stays empty.       *)
(*                                                                         *)
(* An operator marked "Mutant" is a variant of the operation after it with *)
(* a bug that is easily made; no specification uses it.                    *)
(***************************************************************************)
EXTENDS Integers, Sequences

CONSTANTS Frame,            \* what a frame may show: sequences of boxes
          MaxDisappeared,   \* frames a track may go unmatched
          IouNum, IouDen    \* iou_threshold = IouNum / IouDen

Box == Int \X Int \X Int \X Int      \* x1, y1, x2, y2

ASSUME TrackerAssumption ==
    /\ Frame \subseteq Seq(Box)
    /\ MaxDisappeared \in Nat
    /\ IouNum \in Nat /\ IouDen \in Nat \ {0}

VARIABLES boxes,         \* track -> its box
          disappeared,   \* track -> frames since it was last matched
          trackAges,     \* track -> frames since it was registered
          nextId,
          step,          \* "ready", or "update" inside update()
          detections,    \* the argument of update()
          before,        \* list(self.boxes.items()), read once
          pending,       \* tracks the loop over before has yet to visit
          owner          \* detection -> the track it went to; its domain is
                         \* matched_det_indices

tracker == <<boxes, disappeared, trackAges, nextId, step, detections, before,
             pending, owner>>

InitTracker == /\ boxes = <<>> /\ disappeared = <<>> /\ trackAges = <<>>
               /\ nextId = 0
               /\ step = "ready"
               /\ detections = <<>> /\ before = <<>> /\ pending = {} /\ owner = <<>>

-----------------------------------------------------------------------------
(* Boxes                                                                   *)

Least(a, b) == IF a <= b THEN a ELSE b
Most(a, b) == IF a >= b THEN a ELSE b
Area(b) == (b[3] - b[1]) * (b[4] - b[2])

Intersection(a, b) ==
    Most(0, Least(a[3], b[3]) - Most(a[1], b[1]))
        * Most(0, Least(a[4], b[4]) - Most(a[2], b[2]))

\* The overlap of two boxes, as a fraction.
Iou(a, b) == LET union == Area(a) + Area(b) - Intersection(a, b)
             IN  IF union <= 0 THEN [num |-> 0, den |-> 1]
                 ELSE [num |-> Intersection(a, b), den |-> union]

Greater(p, q) == p.num * q.den > q.num * p.den

\* The detection overlaps the box enough to be its track's next position.
Overlaps(box, i) == ~Greater([num |-> IouNum, den |-> IouDen], Iou(box, detections[i]))

-----------------------------------------------------------------------------
(* update()                                                                *)

With(f, k, v) == [x \in DOMAIN f \union {k} |-> IF x = k THEN v ELSE f[x]]
Without(f, gone) == [x \in DOMAIN f \ gone |-> f[x]]

\* The head of update(), with _handle_no_detections() for an empty frame.
Update(frame) ==
    /\ step = "ready"
    /\ detections' = frame /\ before' = boxes /\ owner' = <<>>
    /\ IF frame = <<>>
       THEN LET lost == {t \in DOMAIN disappeared : disappeared[t] + 1 > MaxDisappeared}
            IN  /\ disappeared' = [t \in DOMAIN disappeared \ lost |-> disappeared[t] + 1]
                /\ trackAges' = [t \in DOMAIN trackAges \ lost |-> trackAges[t] + 1]
                /\ boxes' = Without(boxes, lost)
                /\ UNCHANGED <<step, pending>>
       ELSE /\ step' = "update" /\ pending' = DOMAIN boxes
            /\ trackAges' = [t \in DOMAIN trackAges |-> trackAges[t] + 1]
            /\ UNCHANGED <<boxes, disappeared>>
    /\ UNCHANGED nextId

Due(t) == /\ step = "update"
          /\ t \in pending /\ \A u \in pending : t <= u

\* Detections no track has been given yet.
Free == DOMAIN detections \ DOMAIN owner

\* The first of the free detections that overlap the box most.
Best(box, i) ==
    /\ i \in Free
    /\ \A j \in Free : IF j < i
                       THEN Greater(Iou(box, detections[i]), Iou(box, detections[j]))
                       ELSE ~Greater(Iou(box, detections[j]), Iou(box, detections[i]))

Matching(t, i) == Best(before[t], i) /\ Overlaps(before[t], i)

\* Mutant: a detection may go to several tracks.
MatchShared(t, i) ==
    /\ Due(t) /\ i \in DOMAIN detections /\ Overlaps(before[t], i)
    /\ boxes' = With(boxes, t, detections[i])
    /\ disappeared' = With(disappeared, t, 0)
    /\ owner' = With(owner, i, t)
    /\ pending' = pending \ {t}
    /\ UNCHANGED <<trackAges, nextId, step, detections, before>>

\* Mutant: the free detection that overlaps least is taken.
MatchWorst(t, i) ==
    /\ Due(t) /\ i \in Free
    /\ \A j \in Free : ~Greater(Iou(before[t], detections[i]), Iou(before[t], detections[j]))
    /\ boxes' = With(boxes, t, detections[i])
    /\ disappeared' = With(disappeared, t, 0)
    /\ owner' = With(owner, i, t)
    /\ pending' = pending \ {t}
    /\ UNCHANGED <<trackAges, nextId, step, detections, before>>

\* The track finds its object.
Match(t, i) ==
    /\ Due(t) /\ Matching(t, i)
    /\ boxes' = With(boxes, t, detections[i])
    /\ disappeared' = With(disappeared, t, 0)
    /\ owner' = With(owner, i, t)
    /\ pending' = pending \ {t}
    /\ UNCHANGED <<trackAges, nextId, step, detections, before>>

\* It finds none, and goes when that has happened too often.
Miss(t) ==
    /\ Due(t) /\ ~\E i \in Free : Matching(t, i)
    /\ IF disappeared[t] + 1 > MaxDisappeared
       THEN /\ boxes' = Without(boxes, {t})
            /\ disappeared' = Without(disappeared, {t})
            /\ trackAges' = Without(trackAges, {t})
       ELSE /\ disappeared' = With(disappeared, t, disappeared[t] + 1)
            /\ UNCHANGED <<boxes, trackAges>>
    /\ pending' = pending \ {t}
    /\ UNCHANGED <<nextId, step, detections, before, owner>>

\* A detection that is left becomes a new track.
Register(i) ==
    /\ step = "update" /\ pending = {}
    /\ i \in Free /\ \A j \in Free : i <= j
    /\ boxes' = With(boxes, nextId, detections[i])
    /\ disappeared' = With(disappeared, nextId, 0)
    /\ trackAges' = With(trackAges, nextId, 0)
    /\ owner' = With(owner, i, nextId)
    /\ nextId' = nextId + 1
    /\ UNCHANGED <<step, detections, before, pending>>

Return == /\ step = "update" /\ pending = {} /\ Free = {}
          /\ step' = "ready"
          /\ UNCHANGED <<boxes, disappeared, trackAges, nextId, detections, before,
                         pending, owner>>

\* update() after its head.
InUpdate == \/ \E t \in pending : \/ \E i \in DOMAIN detections : Match(t, i)
                                  \/ Miss(t)
            \/ \E i \in DOMAIN detections : Register(i)
            \/ Return

NextTracker == (\E frame \in Frame : Update(frame)) \/ InUpdate

TrackerSpec == InitTracker /\ [][NextTracker]_tracker

-----------------------------------------------------------------------------
(* Properties                                                              *)

Tracks == DOMAIN boxes

\* Types, the stores of a track in step, and where a track can stand.
TrackerInv ==
    /\ nextId \in Nat
    /\ Tracks \subseteq 0 .. nextId - 1
    /\ boxes \in [Tracks -> Box]
    /\ disappeared \in [Tracks -> 0 .. MaxDisappeared]
    /\ trackAges \in [Tracks -> Nat]
    /\ \A t \in Tracks : disappeared[t] <= trackAges[t]
    /\ step \in {"ready", "update"}
    /\ detections \in Frame \union {<<>>}
    /\ before \in [DOMAIN before -> Box]
    /\ DOMAIN before \subseteq 0 .. nextId - 1
    /\ DOMAIN owner \subseteq DOMAIN detections
    /\ pending \subseteq Tracks /\ (step = "ready" => pending = {})
    /\ \A t \in pending : t \in DOMAIN before /\ boxes[t] = before[t]

\* When update() returns, the detections of the frame and the tracks seen in it
\* correspond one to one: no object is counted twice, none is left out.
FrameAccounted ==
    step = "ready" =>
        /\ DOMAIN owner = DOMAIN detections
        /\ \A i, j \in DOMAIN owner : owner[i] = owner[j] => i = j
        /\ {owner[i] : i \in DOMAIN owner} = {t \in Tracks : disappeared[t] = 0}
        /\ \A i \in DOMAIN owner : boxes[owner[i]] = detections[i]

\* An object that overlaps its own track and no other, while nothing else
\* overlaps that track, keeps its identity, also when it returns after frames
\* without it.
IsolatedKeepsIdentity ==
    step = "ready" =>
        \A t \in DOMAIN before, i \in DOMAIN detections :
            /\ Overlaps(before[t], i)
            /\ \A j \in DOMAIN detections : Overlaps(before[t], j) => j = i
            /\ \A u \in DOMAIN before : Overlaps(before[u], i) => u = t
            => i \in DOMAIN owner /\ owner[i] = t
=============================================================================
