--------------------------- MODULE MonitorsProofs ---------------------------
(***************************************************************************)
(* The two polling modules side by side, for log files of any length, any  *)
(* prices, settings and limits: what the one publishes of the log, and     *)
(* what the other's change-point sums are.                                 *)
(***************************************************************************)
EXTENDS Monitors, SequenceTheorems, TLAPS

Piece == [line : Nat, part : {"whole", "head", "tail"}, kind : LineKind, fits : BOOLEAN]

\* What holds in a snapshot, of either module.
Condition == Limit \union {"baseline_ready"}
CollectedOK == collected \in [Monitor -> Seq(SUBSET Condition)]

IInv == CollectedOK /\ LogInv /\ FinanceInv

-----------------------------------------------------------------------------
(* The collector                                                           *)

\* After a push a module's latest snapshot is the one pushed, and another
\* module's is what it was.
LEMMA PushIsLatest ==
    ASSUME CollectedOK, NEW m \in Monitor, NEW s \in SUBSET Condition, Push(m, s)
    PROVE  /\ CollectedOK' /\ Latest(m)' = <<s>>
           /\ \A o \in Monitor : o # m => Latest(o)' = Latest(o)
  <1> DEFINE longer == Append(collected[m], s)
             new == IF Len(longer) > HistorySize THEN Tail(longer) ELSE longer
             k == Len(collected[m])
  <1>1. collected[m] \in Seq(SUBSET Condition) /\ k \in Nat
    BY LenProperties DEF CollectedOK
  <1>2. /\ longer \in Seq(SUBSET Condition) /\ longer # <<>> /\ Len(longer) = k + 1
        /\ longer[k + 1] = s
    BY <1>1, AppendProperties
  <1>3. collected' = [collected EXCEPT ![m] = new]
    BY DEF Push
  <1> HIDE DEF longer, k
  <1>4. /\ Tail(longer) \in Seq(SUBSET Condition) /\ Len(Tail(longer)) = k
        /\ \A i \in 1 .. k : Tail(longer)[i] = longer[i + 1]
    BY <1>1, <1>2, HeadTailProperties
  <1>5. HistorySize \in Nat /\ HistorySize # 0
    BY CollectorAssumption
  <1>6. new \in Seq(SUBSET Condition) /\ Len(new) \in Nat /\ Len(new) # 0 /\ new[Len(new)] = s
    <2>1. CASE Len(longer) > HistorySize
      <3>1. k # 0 /\ k \in 1 .. k
        BY <1>1, <1>2, <1>5, <2>1
      <3> QED
        BY <1>1, <1>2, <1>4, <2>1, <3>1
    <2>2. CASE ~(Len(longer) > HistorySize)
      BY <1>1, <1>2, <2>2
    <2> QED
      BY <2>1, <2>2
  <1> HIDE DEF new
  <1>7. collected'[m] = new /\ \A o \in Monitor : o # m => collected'[o] = collected[o]
    BY <1>3 DEF CollectedOK
  <1>8. CollectedOK'
    BY <1>3, <1>6 DEF CollectedOK
  <1>9. new # <<>>
    BY <1>6, EmptySeq
  <1> QED
    BY <1>6, <1>7, <1>8, <1>9 DEF Latest, Last

-----------------------------------------------------------------------------
(* The log                                                                 *)

\* A piece of the file is one, and its line has a number.
LEMMA PiecesTyped ==
    ASSUME LogTypeOK
    PROVE  /\ file \in Seq(Piece) /\ Len(file) \in Nat
           /\ \A p \in 1 .. Len(file) : file[p] \in Piece /\ file[p].line \in Nat
  <1>1. file \in Seq(Piece) /\ Len(file) \in Nat
    BY LenProperties DEF LogTypeOK, Piece
  <1>2. ASSUME NEW p \in 1 .. Len(file) PROVE file[p] \in Piece
    BY <1>1, ElementOfSeq
  <1> QED
    BY <1>1, <1>2 DEF Piece

\* One more piece at the end of the file; those before keep their places.
LEMMA PieceAppended ==
    ASSUME LogInv, NEW piece \in Piece, file' = Append(file, piece)
    PROVE  /\ file' \in Seq(Piece) /\ Len(file) \in Nat /\ Len(file') = Len(file) + 1
           /\ \A p \in 1 .. Len(file) : file'[p] = file[p]
           /\ file'[Len(file) + 1] = piece
  <1>1. file \in Seq(Piece)
    BY DEF LogInv, LogTypeOK, Piece
  <1> QED
    BY <1>1, AppendProperties, LenProperties

\* Writing more changes nothing of what a poll has read.
LEMMA WritesKeep ==
    ASSUME LogInv, NEW piece \in Piece, file' = Append(file, piece), lines' \in Nat,
           lines <= lines', piece.line <= lines',
           piece.part # "tail" => lines < piece.line,
           UNCHANGED <<rotated, going, poll, thresholds, reading, polls, collected>>
    PROVE  LogInv'
  <1> DEFINE n == Len(file)
  <1>1. /\ file' \in Seq(Piece) /\ n \in Nat /\ Len(file') = n + 1
        /\ \A p \in 1 .. n : file'[p] = file[p]
        /\ file'[n + 1] = piece
    BY PieceAppended
  <1>2. LogTypeOK /\ LogOrdered /\ LogReported /\ piece.line \in Nat
    BY DEF LogInv, Piece
  <1>3. LogTypeOK'
    <2>1. file' \in Seq([line : Nat, part : {"whole", "head", "tail"}, kind : LineKind,
                         fits : BOOLEAN])
      BY <1>1 DEF Piece
    <2> QED
      BY <1>2, <2>1 DEF LogTypeOK, thresholds, reading
  <1>4. \A p \in 1 .. n : file[p].line \in Nat
    BY <1>2, PiecesTyped
  <1>5. LogOrdered'
    <2>1. lines \in Nat
      BY <1>2 DEF LogTypeOK
    <2>2. ASSUME NEW p \in 1 .. n + 1 PROVE file'[p].line <= lines'
      <3>1. CASE p \in 1 .. n
        BY <1>1, <1>2, <1>4, <2>1, <3>1 DEF LogOrdered
      <3>2. CASE p = n + 1
        BY <1>1, <3>2
      <3> QED
        BY <1>1, <3>1, <3>2
    <2>3. ASSUME NEW p \in 1 .. n + 1, NEW q \in 1 .. n + 1, p < q, file'[q].part # "tail"
          PROVE  file'[p].line < file'[q].line
      <3>1. p \in 1 .. n /\ file'[p] = file[p] /\ file[p].line <= lines
        BY <1>1, <1>2, <2>3 DEF LogOrdered
      <3>2. CASE q \in 1 .. n
        BY <1>1, <1>2, <2>3, <3>1, <3>2 DEF LogOrdered
      <3>3. CASE q = n + 1
        BY <1>1, <1>2, <1>4, <2>1, <2>3, <3>1, <3>3
      <3> QED
        BY <1>1, <3>2, <3>3
    <2>4. UNCHANGED <<cuts, position, poll, anomalies, breaches, collected>>
      BY DEF reading, thresholds
    <2> QED
      BY <1>1, <1>2, <2>2, <2>3, <2>4 DEF LogOrdered, Latest
  <1>6. LogReported'
    <2>1. UNCHANGED <<rotated, position, cuts, published, anomalies, poll, raised, collected>>
      BY DEF reading, thresholds
    <2>2. ASSUME ~rotated
          PROVE  position <= Len(file') /\ Owed' = Owed
      <3>1. position \in Nat /\ position <= n
        BY <1>2, <2>2 DEF LogTypeOK, LogReported
      <3>2. \A p \in 1 .. position : file'[p] = file[p]
        BY <1>1, <3>1
      <3> QED
        BY <1>1, <2>1, <3>1, <3>2 DEF Owed
    <2>3. Published' = Published /\ Latest("infrastructure")' = Latest("infrastructure")
      BY <2>1 DEF Published, Latest
    <2>4. poll' \in {"read", "publish"} => Latest("infrastructure")' = <<raised'>>
      BY <1>2, <2>1, <2>3 DEF LogReported
    <2>5. ~rotated' => /\ position' <= Len(file') /\ Published' \union anomalies' = Owed'
                       /\ \A i, j \in 1 .. Len(published') : i < j => published'[i] < published'[j]
                       /\ \A x \in Published', m \in anomalies' : x < m
      BY <1>2, <2>1, <2>2, <2>3 DEF LogReported
    <2> QED
      BY <2>4, <2>5 DEF LogReported
  <1> QED
    BY <1>3, <1>5, <1>6 DEF LogInv

\* A new line has a new number; the rest of a line has that of its head.
LEMMA WriterKeeps ==
    ASSUME LogInv, (\E kind \in LineKind : WriteLine(kind)) \/ WriteRest
    PROVE  LogInv'
  <1>1. lines \in Nat /\ file \in Seq(Piece) /\ LogOrdered
    BY DEF LogInv, LogTypeOK, Piece
  <1>2. ASSUME NEW kind \in LineKind, WriteLine(kind) PROVE LogInv'
    <2>1. PICK part \in {"whole", "head"}, fits \in BOOLEAN :
              file' = Append(file, [line |-> lines', part |-> part, kind |-> kind, fits |-> fits])
      BY <1>2 DEF WriteLine
    <2>2. lines' = lines + 1
      BY <1>2 DEF WriteLine
    <2> DEFINE piece == [line |-> lines', part |-> part, kind |-> kind, fits |-> fits]
    <2>3. /\ piece \in Piece /\ piece.line = lines + 1 /\ piece.part # "tail"
          /\ file' = Append(file, piece)
      BY <1>1, <2>1, <2>2 DEF Piece
    <2> HIDE DEF piece
    <2> QED
      BY <1>1, <1>2, <2>2, <2>3, WritesKeep DEF WriteLine
  <1>3. ASSUME WriteRest PROVE LogInv'
    <2> DEFINE head == file[Len(file)]
               piece == [head EXCEPT !.part = "tail"]
    <2>1. Len(file) \in 1 .. Len(file)
      BY <1>1, <1>3, EmptySeq, LenProperties DEF WriteRest, HalfWritten
    <2>2. head \in Piece /\ head.line <= lines
      BY <1>1, <2>1, ElementOfSeq DEF LogOrdered
    <2>3. file' = Append(file, piece) /\ lines' = lines
      BY <1>3 DEF WriteRest, Last
    <2> HIDE DEF head
    <2>4. piece \in Piece /\ piece.part = "tail" /\ piece.line <= lines
      BY <2>2 DEF Piece
    <2> HIDE DEF piece
    <2> QED
      BY <1>1, <1>3, <2>3, <2>4, WritesKeep DEF WriteRest
  <1> QED
    BY <1>2, <1>3

\* What the pattern fits lies after what has been read, and is what is owed of
\* it, because the poll ends where the file does.
LEMMA AnalyzeKeeps ==
    ASSUME LogInv, AnalyzeNewLines
    PROVE  LogInv'
  <1> DEFINE n == Len(file)
  <1>1. /\ LogTypeOK /\ LogOrdered /\ LogReported /\ n \in Nat /\ position \in Nat
        /\ poll = "read" /\ anomalies = {}
        /\ file \in Seq(Piece)
        /\ \A p \in 1 .. n : file[p].line \in Nat
    <2>1. LogTypeOK /\ LogOrdered /\ LogReported
      BY DEF LogInv
    <2>2. position \in Nat /\ poll = "read"
      BY <2>1 DEF LogTypeOK, AnalyzeNewLines
    <2> QED
      BY <2>1, <2>2, PiecesTyped DEF LogOrdered
  <1>2. UNCHANGED <<file, lines, rotated, going, breaches, raised, polls, collected, published>>
    BY DEF AnalyzeNewLines, log, thresholds, reading
  <1>3. CASE poll' = "top" /\ UNCHANGED reading
    <2>1. UNCHANGED <<position, cuts, anomalies>>
      BY <1>3 DEF reading
    <2>2. Owed' = Owed /\ Published' = Published
          /\ Latest("infrastructure")' = Latest("infrastructure")
      BY <1>2, <2>1 DEF Owed, Published, Latest
    <2>3. LogTypeOK'
      BY <1>1, <1>2, <1>3, <2>1 DEF LogTypeOK
    <2>4. LogOrdered'
      BY <1>1, <1>2, <1>3, <2>1 DEF LogOrdered
    <2>5. LogReported'
      BY <1>1, <1>2, <1>3, <2>1, <2>2 DEF LogReported
    <2> QED
      BY <2>3, <2>4, <2>5 DEF LogInv
  <1>4. CASE /\ poll' = "publish" /\ position > n /\ cuts' = cuts \union {position}
             /\ UNCHANGED <<position, anomalies>>
    <2>1. rotated
      BY <1>1, <1>4 DEF LogReported
    <2> QED
      <3>1. LogTypeOK'
        BY <1>1, <1>2, <1>4 DEF LogTypeOK
      <3>2. \A c \in cuts' : c <= position
        <4>1. (\A c \in cuts : c <= position) /\ position <= position
          BY <1>1 DEF LogOrdered
        <4>2. cuts' = cuts \union {position}
          BY <1>4
        <4> QED
          BY <4>1, <4>2
      <3>3. LogOrdered'
        BY <1>1, <1>2, <1>4, <3>2 DEF LogOrdered
      <3>4. LogReported'
        BY <1>1, <1>2, <1>4, <2>1 DEF LogReported, Latest
      <3> QED
        BY <3>1, <3>3, <3>4 DEF LogInv
  <1>5. CASE /\ poll' = "publish" /\ ~(position > n) /\ cuts' = cuts \union {n}
             /\ anomalies' = Fitting(position, n) /\ position' = n
    <2>1. LogTypeOK'
      <3>1. Fitting(position, n) \subseteq Nat
        BY <1>1 DEF Fitting
      <3> QED
        BY <1>1, <1>2, <1>5, <3>1 DEF LogTypeOK
    <2>2. LogOrdered'
      <3>1. \A c \in cuts : c \in Nat /\ c <= position
        BY <1>1 DEF LogOrdered, LogTypeOK
      <3>2. \A c \in cuts' : c <= n
        BY <1>1, <1>5, <3>1
      <3> QED
        BY <1>1, <1>2, <1>5, <3>2 DEF LogOrdered
    <2>3. LogReported'
      <3>1. ASSUME NEW q \in 1 .. position PROVE q \in cuts' <=> q \in cuts
        BY <1>1, <1>5 DEF LogOrdered
      <3>2. ASSUME NEW q \in position + 1 .. n PROVE q \in cuts' <=> ~(q < n)
        BY <1>1, <1>5 DEF LogOrdered, LogTypeOK
      <3> DEFINE Due(q, c) == /\ file[q].kind = "alarm"
                              /\ \/ file[q].part = "whole"
                                 \/ file[q].part = "head" /\ (file[q].fits \/ q \notin c)
      <3>3. Owed = {file[p].line : p \in {q \in 1 .. position : Due(q, cuts)}}
        BY DEF Owed
      <3>4. Owed' = {file[p].line : p \in {q \in 1 .. n : Due(q, cuts')}}
        BY <1>2, <1>5 DEF Owed
      <3>5. Fitting(position, n) = {file[p].line : p \in {q \in position + 1 .. n : Due(q, cuts')}}
        BY <3>2 DEF Fitting
      <3>6. \A q \in 1 .. position : Due(q, cuts') <=> Due(q, cuts)
        BY <3>1
      <3> HIDE DEF Due
      <3>7. Owed' = Owed \union Fitting(position, n)
        <4>1. \A q : q \in 1 .. n <=> q \in 1 .. position \/ q \in position + 1 .. n
          BY <1>1, <1>5
        <4> QED
          BY <3>3, <3>4, <3>5, <3>6, <4>1
      <3>8. ASSUME ~rotated, NEW x \in Owed, NEW y \in Fitting(position, n) PROVE x < y
        <4>1. PICK p \in 1 .. position : x = file[p].line
          BY <3>3, <3>8
        <4>2. PICK q \in position + 1 .. n : y = file[q].line /\ file[q].part # "tail"
          BY <3>8 DEF Fitting
        <4>3. p < q /\ p \in 1 .. n /\ q \in 1 .. n
          BY <1>1, <1>5
        <4> QED
          BY <1>1, <4>1, <4>2, <4>3 DEF LogOrdered
      <3>9. Published' = Published
        BY <1>2 DEF Published
      <3> QED
        BY <1>1, <1>2, <1>5, <3>7, <3>8, <3>9 DEF LogReported, Latest
    <2> QED
      BY <2>1, <2>2, <2>3 DEF LogInv
  <1> QED
    BY <1>3, <1>4, <1>5 DEF AnalyzeNewLines

\* The least of the lines found comes next, after all those published.
LEMMA PublishKeeps ==
    ASSUME LogInv, PublishAnomaly
    PROVE  LogInv'
  <1> DEFINE k == Len(published)
  <1>1. LogTypeOK /\ LogOrdered /\ LogReported
    BY DEF LogInv
  <1>2. PICK n \in anomalies : /\ \A m \in anomalies : n <= m
                               /\ published' = Append(published, n)
                               /\ anomalies' = anomalies \ {n}
    BY DEF PublishAnomaly
  <1>3. /\ UNCHANGED <<file, lines, rotated, going, poll, breaches, raised, position, cuts, polls,
                       collected>>
        /\ poll = "publish"
    BY DEF PublishAnomaly, log, thresholds
  <1>4. n \in Nat /\ published \in Seq(Nat) /\ k \in Nat /\ anomalies \subseteq Nat
    BY <1>1, LenProperties DEF LogTypeOK
  <1>5. /\ published' \in Seq(Nat) /\ Len(published') = k + 1
        /\ \A i \in 1 .. k : published'[i] = published[i]
        /\ published'[k + 1] = n
    BY <1>2, <1>4, AppendProperties
  <1>6. LogTypeOK'
    BY <1>1, <1>2, <1>3, <1>5 DEF LogTypeOK
  <1>7. LogOrdered'
    BY <1>1, <1>3 DEF LogOrdered, Latest
  <1>8. LogReported'
    <2> SUFFICES ASSUME ~rotated
                 PROVE  /\ position <= Len(file) /\ Published' \union anomalies' = Owed'
                        /\ \A i, j \in 1 .. Len(published') : i < j => published'[i] < published'[j]
                        /\ \A x \in Published', m \in anomalies' : x < m
      BY <1>1, <1>3 DEF LogReported, Latest
    <2>1. /\ position <= Len(file) /\ Published \union anomalies = Owed
          /\ \A i, j \in 1 .. k : i < j => published[i] < published[j]
          /\ \A x \in Published, m \in anomalies : x < m
      BY <1>1 DEF LogReported
    <2>2. Published' = Published \union {n}
      <3>1. \A i : i \in 1 .. k + 1 <=> i \in 1 .. k \/ i = k + 1
        BY <1>4
      <3> QED
        BY <1>5, <3>1 DEF Published
    <2>3. Owed' = Owed
      BY <1>3 DEF Owed
    <2>4. \A x \in Published', m \in anomalies' : x < m
      BY <1>2, <1>4, <2>1, <2>2
    <2>5. ASSUME NEW i \in 1 .. k + 1, NEW j \in 1 .. k + 1, i < j
          PROVE  published'[i] < published'[j]
      <3>1. i \in 1 .. k /\ published[i] \in Published
        BY <1>4, <2>5 DEF Published
      <3>2. CASE j \in 1 .. k
        BY <1>5, <2>1, <2>5, <3>1, <3>2
      <3>3. CASE j = k + 1
        BY <1>5, <2>1, <3>1, <3>3
      <3> QED
        BY <1>4, <3>2, <3>3
    <2> QED
      BY <1>2, <1>5, <2>1, <2>2, <2>3, <2>4, <2>5
  <1> QED
    BY <1>6, <1>7, <1>8 DEF LogInv

\* The other steps of the loop read nothing of the file.
LEMMA LoopKeeps ==
    ASSUME IInv, \/ StopMonitor \/ Top \/ CollectRaises \/ CheckThresholds \/ Sleep
    PROVE  LogInv'
  <1>1. LogTypeOK /\ LogOrdered /\ LogReported
    BY DEF IInv, LogInv
  <1>2. UNCHANGED <<file, lines, rotated, breaches, position, cuts, anomalies, published, polls,
                    collected>>
    BY DEF StopMonitor, Top, CollectRaises, CheckThresholds, Sleep, log, thresholds, reading
  <1>3. Owed' = Owed /\ Published' = Published
        /\ Latest("infrastructure")' = Latest("infrastructure")
    BY <1>2 DEF Owed, Published, Latest
  <1>4. CASE StopMonitor
    <2>1. going' \in BOOLEAN /\ UNCHANGED <<poll, raised>>
      BY <1>4 DEF StopMonitor, thresholds
    <2> QED
      BY <1>1, <1>2, <1>3, <2>1 DEF LogInv, LogTypeOK, LogOrdered, LogReported
  <1>5. CASE Top \/ CollectRaises \/ Sleep
    <2>1. /\ UNCHANGED <<going, raised>> /\ poll' \in {"top", "collect", "down"} /\ anomalies = {}
      BY <1>1, <1>5 DEF Top, CollectRaises, Sleep, thresholds, LogOrdered
    <2> QED
      BY <1>1, <1>2, <1>3, <2>1 DEF LogInv, LogTypeOK, LogOrdered, LogReported
  <1>6. CASE CheckThresholds
    <2>1. /\ UNCHANGED going /\ poll = "check" /\ poll' = "read" /\ raised' = breaches
          /\ anomalies = {}
      BY <1>1, <1>6 DEF CheckThresholds, LogOrdered
    <2> QED
      BY <1>1, <1>2, <1>3, <2>1 DEF LogInv, LogTypeOK, LogOrdered, LogReported
  <1> QED
    BY <1>4, <1>5, <1>6

\* What is pushed is what the limits are compared with.
LEMMA CollectKeeps ==
    ASSUME IInv, Collect
    PROVE  LogInv' /\ CollectedOK'
  <1>1. LogTypeOK /\ LogOrdered /\ LogReported /\ CollectedOK
    BY DEF IInv, LogInv
  <1>2. PICK over \in SUBSET Limit : breaches' = over /\ Push("infrastructure", over)
    BY DEF Collect, Snapshot
  <1>3. /\ UNCHANGED <<file, lines, rotated, going, position, cuts, anomalies, published>>
        /\ raised' = {} /\ polls' = polls + 1 /\ poll = "collect" /\ poll' = "check"
        /\ anomalies = {}
    BY <1>1 DEF Collect, log, reading, LogOrdered
  <1>4. CollectedOK' /\ Latest("infrastructure")' = <<over>>
    <2>1. over \in SUBSET Condition /\ "infrastructure" \in Monitor
      BY LogAssumption DEF Condition
    <2> QED
      BY <1>1, <1>2, <2>1, PushIsLatest
  <1>5. Owed' = Owed /\ Published' = Published
    BY <1>3 DEF Owed, Published
  <1>6. LogTypeOK' /\ LogOrdered' /\ LogReported'
    BY <1>1, <1>2, <1>3, <1>4, <1>5 DEF LogTypeOK, LogOrdered, LogReported
  <1> QED
    BY <1>4, <1>6 DEF LogInv

\* A run begins with nothing read, and an emptied file has nothing to read.
LEMMA AnewKeeps ==
    ASSUME LogInv, StartMonitor \/ Rotate
    PROVE  LogInv'
  <1>1. LogTypeOK /\ LogOrdered /\ LogReported
    BY DEF LogInv
  <1>2. Len(<<>>) = 0 /\ <<>> \in Seq(Nat) /\ <<>> \in Seq(Piece)
    BY EmptySeq
  <1>3. CASE StartMonitor
    <2>1. /\ UNCHANGED <<file, lines, breaches, raised, polls, collected>>
          /\ going' = TRUE /\ poll' = "top" /\ position' = 0 /\ cuts' = {} /\ anomalies' = {}
          /\ published' = <<>> /\ rotated' = FALSE
      BY <1>3 DEF StartMonitor, thresholds
    <2>2. Owed' = {} /\ Published' = {} /\ Len(file) \in Nat
      BY <1>1, <1>2, <2>1, LenProperties DEF Owed, Published, LogTypeOK
    <2>3. LogTypeOK'
      <3>1. {rotated', going'} \subseteq BOOLEAN /\ {lines', position', polls'} \subseteq Nat
        <4>1. lines' \in Nat /\ position' \in Nat /\ polls' \in Nat
          BY <1>1, <2>1 DEF LogTypeOK
        <4>2. rotated' \in BOOLEAN /\ going' \in BOOLEAN
          BY <2>1
        <4> QED
          BY <4>1, <4>2
      <3>2. breaches' \subseteq Limit /\ raised' \subseteq Limit /\ cuts' \subseteq Nat
            /\ anomalies' \subseteq Nat /\ published' \in Seq(Nat)
        BY <1>1, <1>2, <2>1 DEF LogTypeOK
      <3> QED
        BY <1>1, <2>1, <3>1, <3>2 DEF LogTypeOK
    <2>4. LogOrdered'
      BY <1>1, <2>1 DEF LogOrdered
    <2> QED
      BY <1>2, <2>1, <2>2, <2>3, <2>4 DEF LogInv, LogReported
  <1>4. CASE Rotate
    <2>1. /\ UNCHANGED <<lines, going, poll, breaches, raised, position, cuts, anomalies, published,
                         polls, collected>>
          /\ file' = <<>> /\ rotated' = TRUE
      BY <1>4 DEF Rotate, thresholds, reading
    <2>2. LogTypeOK'
      BY <1>1, <1>2, <2>1 DEF LogTypeOK, Piece
    <2>3. LogOrdered'
      BY <1>1, <1>2, <2>1 DEF LogOrdered, Latest
    <2> QED
      BY <1>1, <2>1, <2>2, <2>3 DEF LogInv, LogReported, Latest
  <1> QED
    BY <1>3, <1>4

-----------------------------------------------------------------------------
(* The prices                                                              *)

\* A tick adds one total, and every stretch of ticks up to now grows by its
\* deviation beyond the drift, either way.
LEMMA TickExtends ==
    ASSUME path \in Seq(Int), path # <<>>, NEW dev \in Int,
           path' = Append(path, Last(path) + dev)
    PROVE  /\ path' \in Seq(Int) /\ path' # <<>>
           /\ Len(path) \in Nat /\ Len(path') = Len(path) + 1
           /\ \A i \in 1 .. Len(path) : /\ Rise(i) \in Int /\ Rise(i)' = Rise(i) + dev - Drift
                                        /\ Fall(i) \in Int /\ Fall(i)' = Fall(i) - dev - Drift
           /\ \A k \in Nat : k = Len(path) + 1 => Rise(k)' = 0 /\ Fall(k)' = 0
  <1> DEFINE n == Len(path)
             last == path[n]
  <1>1. n \in Nat /\ n \in 1 .. n /\ Drift \in Int
    BY EmptySeq, LenProperties, FinanceAssumption
  <1>2. last \in Int /\ \A i \in 1 .. n : path[i] \in Int
    BY <1>1, ElementOfSeq
  <1>3. /\ path' \in Seq(Int) /\ path' # <<>> /\ Len(path') = n + 1
        /\ \A i \in 1 .. n : path'[i] = path[i]
        /\ path'[n + 1] = last + dev
    <2>1. Last(path) + dev \in Int /\ Last(path) = last
      BY <1>2 DEF Last
    <2> QED
      BY <2>1, AppendProperties
  <1> HIDE DEF n, last
  <1>4. ASSUME NEW i \in 1 .. n
        PROVE  /\ Rise(i) \in Int /\ Rise(i)' = Rise(i) + dev - Drift
               /\ Fall(i) \in Int /\ Fall(i)' = Fall(i) - dev - Drift
    <2> DEFINE total == path[i]
               slope == Drift * (n - i)
    <2>1. total \in Int /\ slope \in Int /\ Drift * ((n + 1) - i) = slope + Drift
      BY <1>1, <1>2
    <2>2. Len(path') = n + 1 /\ path'[Len(path')] = last + dev /\ path'[i] = total
      BY <1>3
    <2> HIDE DEF slope
    <2>3. Rise(i) = last - total - slope
      BY DEF Rise, last, n, slope
    <2>4. Fall(i) = total - last - slope
      BY DEF Fall, last, n, slope
    <2> HIDE DEF total
    <2>5. Rise(i)' = (last + dev) - total - (slope + Drift)
      BY <2>1, <2>2 DEF Rise
    <2>6. Fall(i)' = total - (last + dev) - (slope + Drift)
      BY <2>1, <2>2 DEF Fall
    <2>7. Rise(i) \in Int /\ Fall(i) \in Int
      BY <1>2, <2>1, <2>3, <2>4
    <2>8. (last + dev) - total - (slope + Drift) = (last - total - slope) + dev - Drift
      BY <1>1, <1>2, <2>1
    <2>9. total - (last + dev) - (slope + Drift) = (total - last - slope) - dev - Drift
      BY <1>1, <1>2, <2>1
    <2>10. Rise(i)' = Rise(i) + dev - Drift
      BY <2>3, <2>5, <2>8
    <2>11. Fall(i)' = Fall(i) - dev - Drift
      BY <2>4, <2>6, <2>9
    <2> QED
      BY <2>7, <2>10, <2>11
  <1>5. ASSUME NEW k \in Nat, k = n + 1 PROVE Rise(k)' = 0 /\ Fall(k)' = 0
    <2>1. k = Len(path') /\ path'[k] \in Int /\ Drift * (k - k) = 0
      BY <1>1, <1>2, <1>3, <1>5
    <2> QED
      BY <2>1 DEF Rise, Fall
  <1> QED
    BY <1>1, <1>3, <1>4, <1>5 DEF n

\* The largest of some numbers, each of which moves by the same step while 0
\* joins them, is the old largest moved and kept at zero or above.
LEMMA LargestMoves ==
    ASSUME NEW n \in Nat, NEW old, NEW new, NEW x \in Int, NEW step \in Int,
           \A i \in 1 .. n : old[i] \in Int /\ new[i] = old[i] + step,
           new[n + 1] = 0,
           \E i \in 1 .. n : x = old[i],
           \A i \in 1 .. n : old[i] <= x
    PROVE  /\ \E i \in 1 .. n + 1 : AtLeastZero(x + step) = new[i]
           /\ \A i \in 1 .. n + 1 : new[i] <= AtLeastZero(x + step)
  <1>1. PICK k \in 1 .. n : x = old[k]
    OBVIOUS
  <1>2. \E i \in 1 .. n + 1 : AtLeastZero(x + step) = new[i]
    <2>1. k \in 1 .. n + 1 /\ n + 1 \in 1 .. n + 1 /\ new[k] = x + step
      BY <1>1
    <2> QED
      BY <2>1 DEF AtLeastZero
  <1>3. ASSUME NEW i \in 1 .. n + 1 PROVE new[i] <= AtLeastZero(x + step)
    <2>1. CASE i \in 1 .. n
      <3>1. new[i] <= x + step
        BY <2>1
      <3> QED
        BY <2>1, <3>1 DEF AtLeastZero
    <2>2. CASE i = n + 1
      BY <2>2 DEF AtLeastZero
    <2> QED
      BY <2>1, <2>2
  <1> QED
    BY <1>2, <1>3

\* From the one total 0 nothing has risen or fallen.
LEMMA PathAnew ==
    ASSUME path = << 0 >>
    PROVE  /\ path \in Seq(Int) /\ path # <<>>
           /\ IsLargest(0, {Rise(i) : i \in 1 .. Len(path)})
           /\ IsLargest(0, {Fall(i) : i \in 1 .. Len(path)})
  <1>1. path \in Seq(Int) /\ path # <<>> /\ Len(path) = 1 /\ path[1] = 0
    OBVIOUS
  <1>2. Drift \in Int
    BY FinanceAssumption
  <1>3. \A i \in 1 .. Len(path) : Rise(i) = 0 /\ Fall(i) = 0
    BY <1>1, <1>2 DEF Rise, Fall
  <1>4. 1 \in 1 .. Len(path)
    BY <1>1
  <1> QED
    BY <1>1, <1>3, <1>4 DEF IsLargest

\* The change-point test keeps both sums the largest, and cuts them off before
\* they pass the threshold.
LEMMA CusumKeeps ==
    ASSUME FinanceInv, NEW dev \in Deviation, Cusum(dev), ready, ticks' \in Nat,
           UNCHANGED <<replaying, replay, baseline, ready>>
    PROVE  FinanceInv'
  <1> DEFINE n == Len(path)
             pos == AtLeastZero(cusumPos + dev - Drift)
             neg == AtLeastZero(cusumNeg - dev - Drift)
  <1>1. /\ FinanceTypeOK /\ CusumExact /\ path \in Seq(Int) /\ path # <<>>
        /\ cusumPos \in Nat /\ cusumNeg \in Nat
    BY DEF FinanceInv, FinanceTypeOK
  <1>2. dev \in Int /\ Drift \in Nat /\ CusumThreshold \in Nat
    BY FinanceAssumption
  <1>3. /\ pos \in Nat /\ neg \in Nat
        /\ pos = 0 \/ pos = cusumPos + dev - Drift
        /\ neg = 0 \/ neg = cusumNeg - dev - Drift
    BY <1>1, <1>2 DEF AtLeastZero
  <1>4. \/ /\ pos > CusumThreshold \/ neg > CusumThreshold
           /\ cusumPos' = 0 /\ cusumNeg' = 0 /\ path' = <<0>>
        \/ /\ ~(pos > CusumThreshold \/ neg > CusumThreshold)
           /\ cusumPos' = pos /\ cusumNeg' = neg /\ path' = Append(path, Last(path) + dev)
    BY DEF Cusum
  <1>5. anomaly' \in {"VOLATILITY_REGIME_SHIFT", "UNSUPERVISED_ANOMALY", "NONE"}
    BY DEF Cusum
  <1>6. CASE cusumPos' = 0 /\ cusumNeg' = 0 /\ path' = <<0>>
    <2>1. /\ path' \in Seq(Int) /\ path' # <<>>
          /\ IsLargest(0, {Rise(i)' : i \in 1 .. Len(path')})
          /\ IsLargest(0, {Fall(i)' : i \in 1 .. Len(path')})
      <3>1. Len(path') = 1 /\ path'[1] = 0 /\ path' \in Seq(Int) /\ path' # <<>>
        BY <1>6
      <3>2. \A i \in 1 .. Len(path') : Rise(i)' = 0 /\ Fall(i)' = 0
        BY <1>2, <3>1 DEF Rise, Fall
      <3>3. 1 \in 1 .. Len(path')
        BY <3>1
      <3> QED
        BY <3>1, <3>2, <3>3 DEF IsLargest
    <2>2. FinanceTypeOK'
      BY <1>1, <1>5, <1>6, <2>1 DEF FinanceTypeOK, Anomaly
    <2>3. CusumExact'
      BY <1>1, <1>2, <1>6, <2>1 DEF CusumExact
    <2> QED
      BY <2>2, <2>3 DEF FinanceInv
  <1>7. CASE /\ ~(pos > CusumThreshold \/ neg > CusumThreshold)
             /\ cusumPos' = pos /\ cusumNeg' = neg /\ path' = Append(path, Last(path) + dev)
    <2>1. /\ path' \in Seq(Int) /\ path' # <<>>
          /\ n \in Nat /\ Len(path') = n + 1
          /\ \A i \in 1 .. n : /\ Rise(i) \in Int /\ Rise(i)' = Rise(i) + dev - Drift
                               /\ Fall(i) \in Int /\ Fall(i)' = Fall(i) - dev - Drift
          /\ \A k \in Nat : k = n + 1 => Rise(k)' = 0 /\ Fall(k)' = 0
      BY <1>1, <1>2, <1>7, TickExtends
    <2> HIDE DEF n
    <2>2. IsLargest(pos, {Rise(i)' : i \in 1 .. Len(path')})
      <3> DEFINE old == [i \in 1 .. n |-> Rise(i)]
                 new == [i \in 1 .. n + 1 |-> Rise(i)']
      <3>1. \A i \in 1 .. n : old[i] \in Int /\ new[i] = old[i] + (dev - Drift)
        BY <1>2, <2>1
      <3>2. new[n + 1] = 0
        BY <2>1
      <3>3. (\E i \in 1 .. n : cusumPos = old[i]) /\ (\A i \in 1 .. n : old[i] <= cusumPos)
        <4>1. IsLargest(cusumPos, {Rise(i) : i \in 1 .. n})
          BY <1>1 DEF CusumExact, n
        <4> QED
          BY <4>1 DEF IsLargest
      <3>4. \A i \in 1 .. Len(path') : i \in 1 .. n + 1 /\ Rise(i)' = new[i]
        BY <2>1
      <3> HIDE DEF old, new
      <3>5. dev - Drift \in Int /\ cusumPos + (dev - Drift) = cusumPos + dev - Drift
        BY <1>1, <1>2
      <3>6. /\ \E i \in 1 .. n + 1 : AtLeastZero(cusumPos + (dev - Drift)) = new[i]
            /\ \A i \in 1 .. n + 1 : new[i] <= AtLeastZero(cusumPos + (dev - Drift))
        BY ZenonT(40), <1>1, <2>1, <3>1, <3>2, <3>3, <3>5, LargestMoves
      <3> QED
        BY <2>1, <3>4, <3>5, <3>6 DEF IsLargest
    <2>3. IsLargest(neg, {Fall(i)' : i \in 1 .. Len(path')})
      <3> DEFINE old == [i \in 1 .. n |-> Fall(i)]
                 new == [i \in 1 .. n + 1 |-> Fall(i)']
      <3>1. \A i \in 1 .. n : old[i] \in Int /\ new[i] = old[i] + (0 - dev - Drift)
        BY <1>2, <2>1
      <3>2. new[n + 1] = 0
        BY <2>1
      <3>3. (\E i \in 1 .. n : cusumNeg = old[i]) /\ (\A i \in 1 .. n : old[i] <= cusumNeg)
        <4>1. IsLargest(cusumNeg, {Fall(i) : i \in 1 .. n})
          BY <1>1 DEF CusumExact, n
        <4> QED
          BY <4>1 DEF IsLargest
      <3>4. \A i \in 1 .. Len(path') : i \in 1 .. n + 1 /\ Fall(i)' = new[i]
        BY <2>1
      <3> HIDE DEF old, new
      <3>5. 0 - dev - Drift \in Int /\ cusumNeg + (0 - dev - Drift) = cusumNeg - dev - Drift
        BY <1>1, <1>2
      <3>6. /\ \E i \in 1 .. n + 1 : AtLeastZero(cusumNeg + (0 - dev - Drift)) = new[i]
            /\ \A i \in 1 .. n + 1 : new[i] <= AtLeastZero(cusumNeg + (0 - dev - Drift))
        BY ZenonT(40), <1>1, <2>1, <3>1, <3>2, <3>3, <3>5, LargestMoves
      <3> QED
        BY <2>1, <3>4, <3>5, <3>6 DEF IsLargest
    <2>4. pos + neg <= CusumThreshold
      <3>1. cusumPos + cusumNeg <= CusumThreshold
        BY <1>1 DEF CusumExact
      <3> HIDE DEF pos, neg
      <3>2. pos <= CusumThreshold /\ neg <= CusumThreshold
        BY <1>2, <1>3, <1>7
      <3> QED
        BY <1>1, <1>2, <1>3, <3>1, <3>2
    <2>5. FinanceTypeOK'
      BY <1>1, <1>3, <1>5, <1>7, <2>1 DEF FinanceTypeOK, Anomaly
    <2>6. CusumExact'
      BY <1>1, <1>7, <2>2, <2>3, <2>4 DEF CusumExact
    <2> QED
      BY <2>5, <2>6 DEF FinanceInv
  <1> QED
    BY <1>4, <1>6, <1>7

\* No step of the replay but a tick past the baseline touches the sums.
LEMMA FinanceKeeps ==
    ASSUME IInv, FinanceNext
    PROVE  FinanceInv'
  <1>1. /\ FinanceInv /\ FinanceTypeOK /\ CusumExact /\ ticks \in Nat /\ baseline \in Nat
        /\ BaselineTicks \in Nat \ {0} /\ CusumThreshold \in Nat
    BY FinanceAssumption DEF IInv, FinanceInv, FinanceTypeOK
  <1>2. ASSUME UNCHANGED <<baseline, ready, anomaly, cusum>>, ticks' \in Nat,
               replaying' \in BOOLEAN, replay' \in {"down", "next"}
        PROVE  FinanceInv'
    <2>1. UNCHANGED <<cusumPos, cusumNeg, path>>
      BY <1>2 DEF cusum
    <2>2. FinanceTypeOK'
      BY <1>1, <1>2, <2>1 DEF FinanceTypeOK
    <2>3. CusumExact'
      BY <1>1, <1>2, <2>1 DEF CusumExact, Rise, Fall
    <2> QED
      BY <2>2, <2>3 DEF FinanceInv
  <1>3. CASE StopReplay \/ EndReplay \/ BreakReplay
    <2>1. /\ UNCHANGED <<baseline, ready, anomaly, cusum, ticks>>
          /\ replaying' \in {replaying, FALSE} /\ replay' \in {replay, "down"}
      BY <1>3 DEF StopReplay, EndReplay, BreakReplay
    <2> QED
      BY <1>1, <1>2, <2>1 DEF FinanceTypeOK
  <1>4. CASE Gather
    BY <1>1, <1>2, <1>4 DEF Gather, TakeTick, FinanceTypeOK
  <1>5. CASE StartReplay
    <2>1. /\ replaying' = TRUE /\ replay' = "next" /\ ticks' = 0 /\ baseline' = 0
          /\ ready' = FALSE /\ cusumPos' = 0 /\ cusumNeg' = 0 /\ path' = <<0>>
          /\ anomaly' = "NONE"
      BY <1>5 DEF StartReplay
    <2>2. /\ path' \in Seq(Int) /\ path' # <<>> /\ Len(path') = 1 /\ path'[1] = 0
      BY <2>1
    <2>3. \A i \in 1 .. Len(path') : Rise(i)' = 0 /\ Fall(i)' = 0
      BY <2>2, FinanceAssumption DEF Rise, Fall
    <2>4. 1 \in 1 .. Len(path')
      BY <2>2
    <2>5. CusumExact'
      BY <1>1, <2>1, <2>3, <2>4 DEF CusumExact, IsLargest
    <2>6. FinanceTypeOK'
      <3>1. replaying' \in BOOLEAN /\ ready' \in BOOLEAN /\ replay' \in {"down", "next"}
            /\ anomaly' \in Anomaly
        BY <2>1 DEF Anomaly
      <3>2. ticks' \in Nat /\ baseline' \in Nat /\ cusumPos' \in Nat /\ cusumNeg' \in Nat
        BY <2>1
      <3> QED
        BY <2>2, <3>1, <3>2 DEF FinanceTypeOK
    <2> QED
      BY <2>5, <2>6 DEF FinanceInv
  <1>6. CASE Learn
    <2>0. ready' = (baseline' >= BaselineTicks)
      BY <1>6 DEF Learn
    <2>1. /\ UNCHANGED <<replaying, replay, cusumPos, cusumNeg, path>> /\ ticks' = ticks + 1
          /\ ~ready /\ baseline' = baseline + 1 /\ anomaly' = "NONE"
          /\ ready' <=> baseline' >= BaselineTicks
      BY <1>6, <2>0 DEF Learn, TakeTick, cusum
    <2>2. baseline < BaselineTicks
      BY <1>1, <2>1 DEF CusumExact
    <2>3. IF ready' THEN baseline' = BaselineTicks ELSE baseline' < BaselineTicks
      <3>1. (baseline' >= BaselineTicks => baseline' = BaselineTicks)
            /\ (~(baseline' >= BaselineTicks) => baseline' < BaselineTicks)
        BY <1>1, <2>1, <2>2
      <3> QED
        BY <2>1, <3>1
    <2>4. FinanceTypeOK'
      <3>1. ready' \in BOOLEAN
        BY <2>0
      <3>2. replaying' \in BOOLEAN /\ replay' \in {"down", "next"} /\ anomaly' \in Anomaly
            /\ path' \in Seq(Int) /\ path' # <<>>
        BY <1>1, <2>1 DEF FinanceTypeOK, Anomaly
      <3>3. ticks' \in Nat /\ baseline' \in Nat /\ cusumPos' \in Nat /\ cusumNeg' \in Nat
        BY <1>1, <2>1 DEF FinanceTypeOK
      <3> QED
        BY <3>1, <3>2, <3>3 DEF FinanceTypeOK
    <2>5. CusumExact'
      BY <1>1, <2>1, <2>3 DEF CusumExact, Rise, Fall
    <2> QED
      BY <2>4, <2>5 DEF FinanceInv
  <1>7. CASE Detect
    <2>1. /\ UNCHANGED <<replaying, replay, baseline, ready>> /\ ready /\ ticks' \in Nat
      BY <1>1, <1>7 DEF Detect, TakeTick
    <2>2. PICK f \in Features : \/ anomaly' = "FLASH_CRASH_SUSPECT" /\ UNCHANGED cusum
                                \/ Cusum(f.dev)
      BY <1>7 DEF Detect
    <2>3. f.dev \in Deviation
      BY DEF Features
    <2>4. CASE Cusum(f.dev)
      BY <1>1, <2>1, <2>3, <2>4, CusumKeeps
    <2>5. CASE anomaly' = "FLASH_CRASH_SUSPECT" /\ UNCHANGED cusum
      <3>1. UNCHANGED <<cusumPos, cusumNeg, path>>
        BY <2>5 DEF cusum
      <3>2. FinanceTypeOK'
        BY <1>1, <2>1, <2>5, <3>1 DEF FinanceTypeOK, Anomaly
      <3>3. CusumExact'
        BY <1>1, <2>1, <3>1 DEF CusumExact, Rise, Fall
      <3> QED
        BY <3>2, <3>3 DEF FinanceInv
    <2> QED
      BY <2>2, <2>4, <2>5
  <1> QED
    BY <1>3, <1>4, <1>5, <1>6, <1>7 DEF FinanceNext

\* The replay pushes snapshots of its own and touches no other module's.
LEMMA FinancePushes ==
    ASSUME IInv, FinanceNext
    PROVE  CollectedOK' /\ Latest("infrastructure")' = Latest("infrastructure")
  <1>1. CollectedOK
    BY DEF IInv
  <1>2. CASE UNCHANGED collected
    BY <1>1, <1>2 DEF CollectedOK, Latest
  <1>3. ASSUME NEW s \in SUBSET {"baseline_ready"}, Push("timeseries", s)
        PROVE  CollectedOK' /\ Latest("infrastructure")' = Latest("infrastructure")
    <2>1. s \in SUBSET Condition /\ "timeseries" \in Monitor /\ "infrastructure" \in Monitor
          /\ "infrastructure" # "timeseries"
      BY LogAssumption, FinanceAssumption DEF Condition
    <2> QED
      BY <1>1, <1>3, <2>1, PushIsLatest
  <1>4. UNCHANGED collected \/ \E s \in SUBSET {"baseline_ready"} : Push("timeseries", s)
    <2>1. CASE Learn
      <3>1. PICK s : /\ s = (IF ready' THEN {"baseline_ready"} ELSE {})
                     /\ Push("timeseries", s)
        BY <2>1 DEF Learn
      <3> QED
        BY <3>1
    <2>2. CASE Detect
      BY <2>2 DEF Detect
    <2>3. CASE ~Learn /\ ~Detect
      BY <2>3 DEF FinanceNext, StartReplay, StopReplay, EndReplay, BreakReplay, Gather
    <2> QED
      BY <2>1, <2>2, <2>3
  <1> QED
    BY <1>2, <1>3, <1>4

-----------------------------------------------------------------------------
(* The two together                                                        *)

\* A step of the one leaves the other's invariant alone.
LEMMA LogUntouched ==
    ASSUME LogInv, UNCHANGED logVars, Latest("infrastructure")' = Latest("infrastructure")
    PROVE  LogInv'
  <1>1. LogTypeOK /\ LogOrdered /\ LogReported
    BY DEF LogInv
  <1>2. UNCHANGED <<file, lines, rotated, going, poll, breaches, raised, position, cuts, anomalies,
                    published, polls>>
    BY DEF logVars, log, thresholds, reading
  <1>3. Owed' = Owed /\ Published' = Published
    BY <1>2 DEF Owed, Published
  <1>4. LogTypeOK'
    BY <1>1, <1>2 DEF LogTypeOK
  <1>5. LogOrdered'
    BY <1>1, <1>2 DEF LogOrdered
  <1>6. LogReported'
    BY <1>1, <1>2, <1>3 DEF LogReported
  <1> QED
    BY <1>4, <1>5, <1>6 DEF LogInv

LEMMA FinanceUntouched ==
    ASSUME FinanceInv, UNCHANGED financeVars
    PROVE  FinanceInv'
  <1>1. FinanceTypeOK /\ CusumExact
    BY DEF FinanceInv
  <1>2. UNCHANGED <<replaying, replay, ticks, baseline, ready, anomaly, cusumPos, cusumNeg, path>>
    BY DEF financeVars, cusum
  <1>3. FinanceTypeOK'
    BY <1>1, <1>2 DEF FinanceTypeOK
  <1>4. CusumExact'
    BY <1>1, <1>2 DEF CusumExact, Rise, Fall
  <1> QED
    BY <1>3, <1>4 DEF FinanceInv

\* Nothing is read, pushed or summed up at first.
LEMMA InitKeeps == Init => IInv
  <1> SUFFICES ASSUME Init PROVE IInv
    OBVIOUS
  <1>1. InitCollector /\ InitLog /\ InitFinance
    BY DEF Init
  <1>2. CollectedOK
    BY <1>1, EmptySeq DEF InitCollector, CollectedOK
  <1>3. LogInv
    <2>1. LogTypeOK
      <3>1. <<>> \in Seq(Nat) /\ <<>> \in Seq(Piece)
        BY EmptySeq
      <3>2. /\ file \in Seq([line : Nat, part : {"whole", "head", "tail"}, kind : LineKind,
                             fits : BOOLEAN])
            /\ published \in Seq(Nat)
        BY <1>1, <3>1 DEF InitLog, Piece
      <3>3. {rotated, going} \subseteq BOOLEAN /\ {lines, position, polls} \subseteq Nat
        <4>1. rotated \in BOOLEAN /\ going \in BOOLEAN
          BY <1>1 DEF InitLog
        <4>2. lines \in Nat /\ position \in Nat /\ polls \in Nat
          BY <1>1 DEF InitLog
        <4> QED
          BY <4>1, <4>2
      <3> QED
        BY <1>1, <3>2, <3>3 DEF InitLog, LogTypeOK
    <2>2. Len(file) = 0 /\ Len(published) = 0
      BY <1>1 DEF InitLog
    <2>3. LogOrdered
      BY <1>1, <2>2 DEF InitLog, LogOrdered
    <2>4. Owed = {} /\ Published = {}
      BY <1>1, <2>2 DEF InitLog, Owed, Published
    <2>5. LogReported
      BY <1>1, <2>2, <2>4 DEF InitLog, LogReported
    <2> QED
      BY <2>1, <2>3, <2>5 DEF LogInv
  <1>4. FinanceInv
    <2>1. path = <<0>> /\ cusumPos = 0 /\ cusumNeg = 0
      BY <1>1 DEF InitFinance
    <2>2. /\ path \in Seq(Int) /\ path # <<>>
          /\ IsLargest(0, {Rise(i) : i \in 1 .. Len(path)})
          /\ IsLargest(0, {Fall(i) : i \in 1 .. Len(path)})
      BY <2>1, PathAnew
    <2>3. FinanceTypeOK
      <3>1. replaying \in BOOLEAN /\ ready \in BOOLEAN /\ replay \in {"down", "next"}
            /\ anomaly \in Anomaly
        BY <1>1 DEF InitFinance, Anomaly
      <3>2. ticks \in Nat /\ baseline \in Nat /\ cusumPos \in Nat /\ cusumNeg \in Nat
        BY <1>1 DEF InitFinance
      <3> QED
        BY <2>2, <3>1, <3>2 DEF FinanceTypeOK
    <2>4. BaselineTicks \in Nat \ {0} /\ CusumThreshold \in Nat
      BY FinanceAssumption
    <2>5. CusumExact
      BY <1>1, <2>1, <2>2, <2>4 DEF InitFinance, CusumExact
    <2> QED
      BY <2>3, <2>5 DEF FinanceInv
  <1> QED
    BY <1>2, <1>3, <1>4 DEF IInv

\* Every step keeps the invariants of both.
LEMMA StepKeeps == IInv /\ [Next]_vars => IInv'
  <1> SUFFICES ASSUME IInv, [Next]_vars PROVE IInv'
    OBVIOUS
  <1>1. LogInv /\ FinanceInv /\ CollectedOK
    BY DEF IInv
  <1>2. CASE LogNext /\ UNCHANGED financeVars
    <2>1. FinanceInv'
      BY <1>1, <1>2, FinanceUntouched
    <2>2. CASE Collect
      BY <2>1, <2>2, CollectKeeps DEF IInv
    <2>3. CASE ~Collect
      <3>1. UNCHANGED collected
        BY <1>2, <2>3 DEF LogNext, Poll, WriteLine, WriteRest, Rotate, StartMonitor, StopMonitor,
                          Top, CollectRaises, CheckThresholds, AnalyzeNewLines, PublishAnomaly,
                          Sleep
      <3>2. LogInv'
        <4>1. CASE (\E kind \in LineKind : WriteLine(kind)) \/ WriteRest
          BY <1>1, <4>1, WriterKeeps
        <4>2. CASE StartMonitor \/ Rotate
          BY <1>1, <4>2, AnewKeeps
        <4>3. CASE StopMonitor \/ Top \/ CollectRaises \/ CheckThresholds \/ Sleep
          BY <4>3, LoopKeeps
        <4>4. CASE AnalyzeNewLines
          BY <1>1, <4>4, AnalyzeKeeps
        <4>5. CASE PublishAnomaly
          BY <1>1, <4>5, PublishKeeps
        <4> QED
          BY <1>2, <2>3, <4>1, <4>2, <4>3, <4>4, <4>5 DEF LogNext, Poll
      <3> QED
        BY <1>1, <2>1, <3>1, <3>2 DEF IInv, CollectedOK
    <2> QED
      BY <2>2, <2>3
  <1>3. CASE FinanceNext /\ UNCHANGED logVars
    <2>1. FinanceInv' /\ CollectedOK' /\ Latest("infrastructure")' = Latest("infrastructure")
      BY <1>3, FinanceKeeps, FinancePushes
    <2>2. LogInv'
      BY <1>1, <1>3, <2>1, LogUntouched
    <2> QED
      BY <2>1, <2>2 DEF IInv
  <1>4. CASE UNCHANGED vars
    <2>1. UNCHANGED logVars /\ UNCHANGED financeVars /\ UNCHANGED collected
      BY <1>4 DEF vars
    <2>2. Latest("infrastructure")' = Latest("infrastructure") /\ CollectedOK'
      BY <1>1, <2>1 DEF Latest, CollectedOK
    <2> QED
      BY <1>1, <2>1, <2>2, LogUntouched, FinanceUntouched DEF IInv
  <1> QED
    BY <1>2, <1>3, <1>4 DEF Next

\* The invariants of both hold in every reachable state.
LEMMA BothHold == Spec => []IInv
  BY InitKeeps, StepKeeps, PTL DEF Spec

\* While its file is only appended to, a run of the infrastructure module
\* publishes exactly the alarms it has read, once each and in their order, and
\* has announced the limits its metrics show, for any file and any interleaving
\* with its writer.
THEOREM LogReportedThm == Spec => []LogInv
  <1>1. IInv => LogInv
    BY DEF IInv
  <1> QED
    BY <1>1, BothHold, PTL

\* The change-point sums are the largest deviations beyond the drift of any
\* stretch of ticks since the last shift, for any prices, drift and threshold.
THEOREM CusumExactThm == Spec => []FinanceInv
  <1>1. IInv => FinanceInv
    BY DEF IInv
  <1> QED
    BY <1>1, BothHold, PTL
=============================================================================
