----------------------------- MODULE LogMonitor -----------------------------
(***************************************************************************)
(* modules/infrastructure: the polling loop of InfrastructurePipeline, the *)
(* LogAnalyzer, which tails a log file another program writes, and that    *)
(* program.                                                                *)
(*                                                                         *)
(* The file is a sequence of pieces: whole lines, and lines written in two *)
(* pieces. A poll may read the first piece without the second; the pattern *)
(* then fits it or not, according to how far it goes, and never fits the   *)
(* second alone. Lines are numbered as they are begun: the numbers of a    *)
(* file grow, and a list of its lines in their order is a set of numbers.  *)
(*                                                                         *)
(* An operator marked "Mutant" is a variant of the operation after it with *)
(* a bug that is easily made; no specification uses it.                    *)
(***************************************************************************)
EXTENDS MetricsCollector

CONSTANTS MaxLines, MaxPolls    \* bounds

\* Lines of severity ERROR or CRITICAL, other lines, and lines that cannot be
\* decoded.
LineKind == {"alarm", "note", "bad"}
Limit == {"cpu", "ram"}

ASSUME LogAssumption == /\ MaxLines \in Nat /\ MaxPolls \in Nat
                        /\ "infrastructure" \in Monitor

VARIABLES file,       \* pieces [line, part, kind, fits]
          lines,      \* lines begun
          rotated,    \* the file was emptied in this run
          going,      \* _running
          poll,       \* where the loop stands
          breaches,   \* the limits its last snapshot is over
          raised,     \* those it has published an event of
          position,   \* _last_position
          cuts,       \* the positions where this run's polls ended
          anomalies,  \* lines found and not yet published
          published,  \* published in this run
          polls

log == <<file, lines, rotated>>
thresholds == <<breaches, raised>>
reading == <<position, cuts, anomalies, published>>
logVars == <<log, going, poll, thresholds, reading, polls>>

InitLog == /\ file = <<>> /\ lines = 0 /\ rotated = FALSE
           /\ going = FALSE /\ poll = "down"
           /\ breaches = {} /\ raised = {}
           /\ position = 0 /\ cuts = {} /\ anomalies = {} /\ published = <<>>
           /\ polls = 0

-----------------------------------------------------------------------------
(* The program that writes the log                                         *)

HalfWritten == file # <<>> /\ Last(file).part = "head"

WriteLine(kind) ==
    /\ ~HalfWritten /\ lines < MaxLines
    /\ lines' = lines + 1
    /\ \E part \in {"whole"} \union {"head" : k \in {kind} \ {"bad"}}, fits \in BOOLEAN :
           /\ fits => part = "head" /\ kind = "alarm"
           /\ file' = Append(file, [line |-> lines', part |-> part, kind |-> kind,
                                    fits |-> fits])
    /\ UNCHANGED <<rotated, going, poll, thresholds, reading, polls, collected>>

WriteRest ==
    /\ HalfWritten
    /\ file' = Append(file, [Last(file) EXCEPT !.part = "tail"])
    /\ UNCHANGED <<lines, rotated, going, poll, thresholds, reading, polls, collected>>

Rotate == /\ file # <<>>
          /\ file' = <<>> /\ rotated' = TRUE
          /\ UNCHANGED <<lines, going, poll, thresholds, reading, polls, collected>>

-----------------------------------------------------------------------------
(* The module                                                              *)

\* A run has a LogAnalyzer of its own, which begins at the head of the file.
StartMonitor == /\ poll = "down" /\ ~going
                /\ going' = TRUE /\ poll' = "top"
                /\ position' = 0 /\ cuts' = {} /\ anomalies' = {} /\ published' = <<>>
                /\ rotated' = FALSE
                /\ UNCHANGED <<file, lines, thresholds, polls, collected>>

StopMonitor == /\ going
               /\ going' = FALSE
               /\ UNCHANGED <<log, poll, thresholds, reading, polls, collected>>

\* The flag is looked at between two polls and nowhere else.
Top == /\ poll = "top"
       /\ poll' = IF going THEN "collect" ELSE "down"
       /\ UNCHANGED <<log, going, thresholds, reading, polls, collected>>

\* What a snapshot of the machine is to the loop: the limits it is over.
Snapshot == SUBSET Limit

\* collect() and push(), ...
Collect == /\ poll = "collect" /\ polls < MaxPolls
           /\ \E over \in Snapshot : /\ breaches' = over
                                         /\ Push("infrastructure", over)
           /\ raised' = {}
           /\ polls' = polls + 1
           /\ poll' = "check"
           /\ UNCHANGED <<log, going, reading>>

\* ... unless psutil raises: nothing more in this poll.
CollectRaises == /\ poll = "collect"
                 /\ poll' = "top"
                 /\ UNCHANGED <<log, going, thresholds, reading, polls, collected>>

\* _check_thresholds()
CheckThresholds == /\ poll = "check"
                   /\ raised' = breaches
                   /\ poll' = "read"
                   /\ UNCHANGED <<log, going, breaches, reading, polls, collected>>

\* The lines that the pattern fits, among the pieces after i up to j.
Fitting(i, j) ==
    {file[p].line : p \in {q \in i + 1 .. j :
        /\ file[q].kind = "alarm"
        /\ \/ file[q].part = "whole"
           \/ file[q].part = "head" /\ (file[q].fits \/ q < j)}}

\* Mutant: the position moves by the lines found, not by the lines read.
AnalyzeByResults ==
    /\ poll = "read"
    /\ IF \E p \in position + 1 .. Len(file) : file[p].kind = "bad"
       THEN poll' = "top" /\ UNCHANGED reading
       ELSE /\ poll' = "publish"
            /\ IF position > Len(file) THEN UNCHANGED <<position, anomalies>>
               ELSE /\ anomalies' = Fitting(position, Len(file))
                    /\ position' = position + Cardinality(anomalies')
            /\ cuts' = cuts \union {position'}
            /\ UNCHANGED published
    /\ UNCHANGED <<log, going, thresholds, polls, collected>>

\* analyze_new_lines(): nothing, if the file is shorter by now; the exception,
\* if a line cannot be decoded; what is new otherwise.
AnalyzeNewLines ==
    /\ poll = "read"
    /\ IF \E p \in position + 1 .. Len(file) : file[p].kind = "bad"
       THEN poll' = "top" /\ UNCHANGED reading
       ELSE /\ poll' = "publish"
            /\ IF position > Len(file) THEN UNCHANGED <<position, anomalies>>
               ELSE /\ anomalies' = Fitting(position, Len(file))
                    /\ position' = Len(file)
            /\ cuts' = cuts \union {position'}
            /\ UNCHANGED published
    /\ UNCHANGED <<log, going, thresholds, polls, collected>>

\* "for anomaly in log_anomalies": one event after another.
PublishAnomaly ==
    /\ poll = "publish"
    /\ \E n \in anomalies : /\ \A m \in anomalies : n <= m
                           /\ published' = Append(published, n)
                           /\ anomalies' = anomalies \ {n}
    /\ UNCHANGED <<log, going, poll, thresholds, position, cuts, polls, collected>>

\* The poll is over: "time.sleep(self.config.infra_poll_interval)"
Sleep == /\ poll = "publish" /\ anomalies = {}
         /\ poll' = "top"
         /\ UNCHANGED <<log, going, thresholds, reading, polls, collected>>

Poll == \/ Top \/ Collect \/ CollectRaises \/ CheckThresholds \/ AnalyzeNewLines
        \/ PublishAnomaly \/ Sleep

LogNext == \/ \E kind \in LineKind : WriteLine(kind)
           \/ WriteRest \/ Rotate
           \/ StartMonitor \/ StopMonitor \/ Poll

-----------------------------------------------------------------------------
(* Properties                                                              *)

LogTypeOK ==
    /\ file \in Seq([line : Nat, part : {"whole", "head", "tail"}, kind : LineKind,
                     fits : BOOLEAN])
    /\ poll \in {"down", "top", "collect", "check", "read", "publish"}
    /\ {rotated, going} \subseteq BOOLEAN
    /\ breaches \subseteq Limit /\ raised \subseteq Limit
    /\ {lines, position, polls} \subseteq Nat /\ cuts \subseteq Nat
    /\ anomalies \subseteq Nat /\ published \in Seq(Nat)

\* What the file says up to the position: the alarms written whole, and of
\* those written in two pieces the ones that no poll came between, or that fit
\* before it.
Owed == {file[p].line : p \in {q \in 1 .. position :
            /\ file[q].kind = "alarm"
            /\ \/ file[q].part = "whole"
               \/ file[q].part = "head" /\ (file[q].fits \/ q \notin cuts)}}

Published == {published[i] : i \in 1 .. Len(published)}

\* As long as the file is only appended to, a run publishes these and no
\* others, once each and in the order of the file, however polls and writes
\* interleave, polls fail, and a stop comes in the middle of one. And what it
\* has announced of the limits is what its metrics show.
LogReported ==
    /\ ~rotated => /\ position <= Len(file) /\ Published \union anomalies = Owed
                   /\ \A i, j \in 1 .. Len(published) : i < j => published[i] < published[j]
                   /\ \A n \in Published, m \in anomalies : n < m
    /\ poll \in {"read", "publish"} => Latest("infrastructure") = <<raised>>

\* The strengthening behind the theorems of MonitorsProofs: what the numbers
\* mean, and how far a poll has come.
LogOrdered ==
    /\ \A p \in 1 .. Len(file) : file[p].line <= lines
    /\ \A p, q \in 1 .. Len(file) :
           p < q /\ file[q].part # "tail" => file[p].line < file[q].line
    /\ \A c \in cuts : c <= position
    /\ position \in cuts \union {0}
    /\ poll # "publish" => anomalies = {}
    /\ poll = "check" => Latest("infrastructure") = <<breaches>>

\* The types, and that.
LogInv == LogTypeOK /\ LogOrdered /\ LogReported
=============================================================================
