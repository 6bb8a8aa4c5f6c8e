--------------------------- MODULE VisualPipeline ---------------------------
(***************************************************************************)
(* modules/visual: the loop of VisualPipeline._run over the tracker        *)
(* (CentroidTracker), the zones (zone_manager.py) and the speed estimates  *)
(* (speed_estimator.py) of what the detector sees. One run of the module;  *)
(* the next one starts from nothing.                                       *)
(*                                                                         *)
(* The loop is one thread. It ends at its head, when stop() has cleared    *)
(* the flag or the source has no more frames, or anywhere by an exception. *)
(* The region of a zone is a set of points. Frames that are skipped show   *)
(* nothing; the frame rate and the heatmap are left out of the metrics.    *)
(***************************************************************************)
EXTENDS CentroidTracker, FiniteSets

CONSTANTS Zone,             \* of the zone file, or the default one
          Region,           \* Region[z]: the points of z, its border included
          CrowdThreshold,
          LoiterSeconds,
          HistoryLen,       \* observations kept of a track, 30 in the code
          MinHistory,       \* observations an estimate needs, 5 in the code
          SpeedNum, SpeedDen,    \* body heights a second that raise the alert
          MaxFrames, MaxTracks, MaxTime    \* bounds

ASSUME PipelineAssumption ==
    /\ LoiterSeconds \in Nat /\ CrowdThreshold \in Nat \ {0}
    /\ HistoryLen \in Nat \ {0} /\ MinHistory \in Nat
    /\ SpeedNum \in Nat /\ SpeedDen \in Nat \ {0}
    /\ MaxFrames \in Nat /\ MaxTracks \in Nat /\ MaxTime \in Nat

VARIABLES at,             \* where _run stands
          source,         \* the capture device
          frames,         \* frames read
          now,            \* the clock, in seconds
          inside,         \* inside[z]: inside_ids
          dwellStart,     \* dwellStart[z]: track -> when it entered
          loiterAlerted,  \* loiterAlerted[z]
          crowdAlerted,   \* crowdAlerted[z]
          enterCount, exitCount,
          observed,       \* track -> its last places and their times
          speedAlerted,
          said,           \* said[z][t]: the zone events published of a track
          raced,          \* raced[t]: the speed anomalies published of it
          pushed          \* the metrics of the last frame, if there was one

zones == <<inside, dwellStart, loiterAlerted, crowdAlerted, enterCount, exitCount, said>>
speeds == <<observed, speedAlerted, raced>>
vars == <<tracker, zones, speeds, pushed, at, source, frames, now>>

Id == 0 .. MaxTracks - 1

InitZones == /\ inside = [z \in Zone |-> {}]
             /\ dwellStart = [z \in Zone |-> <<>>]
             /\ loiterAlerted = [z \in Zone |-> {}]
             /\ crowdAlerted = [z \in Zone |-> FALSE]
             /\ enterCount = [z \in Zone |-> 0]
             /\ exitCount = [z \in Zone |-> 0]
             /\ said = [z \in Zone |-> [t \in Id |-> <<>>]]

Init == /\ InitTracker /\ InitZones
        /\ at = "open" /\ source = "none" /\ frames = 0 /\ now = 0
        /\ observed = <<>> /\ speedAlerted = {}
        /\ raced = [t \in Id |-> 0] /\ pushed = <<>>

-----------------------------------------------------------------------------

(* The source                                                              *)

\* FrameSource.open()
OpenDevice(success) == source' = IF success THEN "open" ELSE "failed"

\* The device opens, or SOURCE_ERROR is published and the run is over.
OpenSource == /\ at = "open"
              /\ \E success \in BOOLEAN :
                     OpenDevice(success) /\ at' = IF success THEN "setup" ELSE "done"
              /\ UNCHANGED <<tracker, zones, speeds, pushed, frames, now>>

\* FrameSource.read()
ReadSource == source = "open" /\ frames < MaxFrames /\ frames' = frames + 1

\* release()
Release == source' = IF source = "open" THEN "released" ELSE source

\* The default zone is the central half of the frame, in both directions.
DefaultRegion(width, height) ==
    (width \div 4 .. (3 * width) \div 4) \X (height \div 4 .. (3 * height) \div 4)

\* The zones come from their file. Without one a frame is read, for the
\* measures of the default zone, and not processed; if it does not come, the
\* run is over.
MakeZones == /\ at = "setup"
             /\ \/ at' = "read" /\ UNCHANGED <<source, frames>>
                \/ at' = "read" /\ ReadSource /\ UNCHANGED source
                \/ at' = "done" /\ Release /\ UNCHANGED frames
             /\ UNCHANGED <<tracker, zones, speeds, pushed, now>>

\* The model or the zone file cannot be loaded: this is before the "try" that
\* releases the source.
SetupFails == /\ at = "setup"
              /\ at' = "done"
              /\ UNCHANGED <<tracker, zones, speeds, pushed, source, frames, now>>

-----------------------------------------------------------------------------
(* The loop                                                                *)

\* time.time()
Tick == /\ at = "read" /\ now < MaxTime
        /\ now' = now + 1
        /\ UNCHANGED <<tracker, zones, speeds, pushed, at, source, frames>>

\* A frame is read, its objects are detected and given to the tracker.
Read(frame) == /\ at = "read" /\ ReadSource
               /\ nextId + Len(frame) <= MaxTracks
               /\ Update(frame)
               /\ at' = "track"
               /\ UNCHANGED <<zones, speeds, pushed, source, now>>

Track == /\ at = "track"
         /\ InUpdate
         /\ UNCHANGED <<zones, speeds, pushed, at, source, frames, now>>

Centroid(b) == <<(b[1] + b[3]) \div 2, (b[2] + b[4]) \div 2>>

PointInside(z, point) == point \in Region[z]

\* currently_inside, for the tracks of this frame, seen in it or not.
Current(z) == {t \in Tracks : PointInside(z, Centroid(boxes[t]))}
Entered(z) == Current(z) \ inside[z]
Exited(z) == inside[z] \ Current(z)

\* The time a track has been inside, if that is known.
Dwell(z, t) == IF t \in Entered(z) \/ t \notin DOMAIN dwellStart[z]
               THEN 0 ELSE now - dwellStart[z][t]

Loiterers(z) == {t \in Current(z) : /\ t \notin loiterAlerted[z]
                                    /\ Dwell(z, t) >= LoiterSeconds}

\* Mutant: the exit does not clear the loitering alert.
ZonesForgetful ==
    /\ at = "track" /\ step = "ready"
    /\ inside' = [z \in Zone |-> Current(z)]
    /\ dwellStart' = [z \in Zone |->
           [t \in (DOMAIN dwellStart[z] \union Entered(z)) \ Exited(z) |->
               IF t \in Entered(z) THEN now ELSE dwellStart[z][t]]]
    /\ loiterAlerted' = [z \in Zone |-> loiterAlerted[z] \union Loiterers(z)]
    /\ crowdAlerted' = [z \in Zone |-> Cardinality(Current(z)) >= CrowdThreshold]
    /\ enterCount' = [z \in Zone |-> enterCount[z] + Cardinality(Entered(z))]
    /\ exitCount' = [z \in Zone |-> exitCount[z] + Cardinality(Exited(z))]
    /\ said' = [z \in Zone |-> [t \in Id |->
           said[z][t] \o (IF t \in Entered(z) THEN <<"ZONE_ENTRY">> ELSE <<>>)
                      \o (IF t \in Exited(z) THEN <<"ZONE_EXIT">> ELSE <<>>)
                      \o (IF t \in Loiterers(z) THEN <<"LOITERING">> ELSE <<>>)]]
    /\ at' = "speed"
    /\ UNCHANGED <<tracker, speeds, pushed, source, frames, now>>

\* zone_manager.update() and the publication of its events.
Zones ==
    /\ at = "track" /\ step = "ready"
    /\ inside' = [z \in Zone |-> Current(z)]
    /\ dwellStart' = [z \in Zone |->
           [t \in (DOMAIN dwellStart[z] \union Entered(z)) \ Exited(z) |->
               IF t \in Entered(z) THEN now ELSE dwellStart[z][t]]]
    /\ loiterAlerted' = [z \in Zone |-> (loiterAlerted[z] \ Exited(z)) \union Loiterers(z)]
    /\ crowdAlerted' = [z \in Zone |-> Cardinality(Current(z)) >= CrowdThreshold]
    /\ enterCount' = [z \in Zone |-> enterCount[z] + Cardinality(Entered(z))]
    /\ exitCount' = [z \in Zone |-> exitCount[z] + Cardinality(Exited(z))]
    /\ said' = [z \in Zone |-> [t \in Id |->
           said[z][t] \o (IF t \in Entered(z) THEN <<"ZONE_ENTRY">> ELSE <<>>)
                      \o (IF t \in Exited(z) THEN <<"ZONE_EXIT">> ELSE <<>>)
                      \o (IF t \in Loiterers(z) THEN <<"LOITERING">> ELSE <<>>)]]
    /\ at' = "speed"
    /\ UNCHANGED <<tracker, speeds, pushed, source, frames, now>>

\* One more observation of every track of the frame, the oldest dropped.
Observed == [t \in DOMAIN observed \union Tracks |->
    IF t \notin Tracks THEN observed[t]
    ELSE LET past == IF t \in DOMAIN observed THEN observed[t] ELSE <<>>
             longer == Append(past, [place |-> Centroid(boxes[t]), time |-> now])
         IN  IF Len(longer) > HistoryLen THEN Tail(longer) ELSE longer]

\* The way from the oldest place to the newest one, in heights of the box,
\* over the time between them. Below a tenth of a second, which is no time
\* here, there is no estimate.
IsAnomaly(t) ==
    LET seen == Observed[t]
        last == seen[Len(seen)]
        dx == last.place[1] - seen[1].place[1]
        dy == last.place[2] - seen[1].place[2]
        dt == last.time - seen[1].time
        height == boxes[t][4] - boxes[t][2]
        limit == SpeedNum * dt * height
    IN  /\ Len(seen) >= MinHistory /\ dt > 0 /\ height > 0
        /\ (dx * dx + dy * dy) * SpeedDen * SpeedDen > limit * limit

\* What the frame's metrics say of a zone.
Stats(z) == [occupancy |-> Cardinality(inside[z]),
             enter_count |-> enterCount[z], exit_count |-> exitCount[z],
             is_crowded |-> Cardinality(inside[z]) >= CrowdThreshold]

PushMetrics == pushed' = <<[active_tracks |-> Cardinality(Tracks),
                            zone_stats |-> [z \in Zone |-> Stats(z)]]>>

\* Mutant: the marks of a track that is not seen in the frame are dropped.
SpeedsForgetUnseen ==
    LET fast == {t \in Tracks : IsAnomaly(t)}
        alerted == speedAlerted \union fast
    IN  /\ at = "speed" /\ at' = "read"
        /\ raced' = [t \in Id |-> IF t \in fast \ speedAlerted THEN raced[t] + 1 ELSE raced[t]]
        /\ speedAlerted' = {t \in alerted \intersect Tracks : disappeared[t] = 0}
        /\ observed' = Without(Observed, alerted \ Tracks)
        /\ PushMetrics
        /\ UNCHANGED <<tracker, zones, source, frames, now>>

\* The estimates and their alerts, the clean-up after them, and the metrics:
\* only tracks that had raised an alert are stale.
Speeds ==
    LET fast == {t \in Tracks : IsAnomaly(t)}
        alerted == speedAlerted \union fast
    IN  /\ at = "speed" /\ at' = "read"
        /\ raced' = [t \in Id |-> IF t \in fast \ speedAlerted THEN raced[t] + 1 ELSE raced[t]]
        /\ speedAlerted' = alerted \intersect Tracks
        /\ observed' = Without(Observed, alerted \ Tracks)
        /\ PushMetrics
        /\ UNCHANGED <<tracker, zones, source, frames, now>>

\* The loop ends; the source is released.
End == /\ at \in {"read", "track", "speed"}
       /\ at' = "done"
       /\ Release
       /\ UNCHANGED <<tracker, zones, speeds, pushed, frames, now>>

Next == \/ OpenSource \/ MakeZones \/ SetupFails
        \/ Tick \/ Track \/ Zones \/ Speeds \/ End
        \/ \E frame \in Frame : Read(frame)

Spec == Init /\ [][Next]_vars

-----------------------------------------------------------------------------
(* Properties                                                              *)

TypeOK == /\ at \in {"open", "setup", "read", "track", "speed", "done"}
          /\ source \in {"none", "open", "failed", "released"}
          /\ frames \in Nat /\ now \in Nat
          /\ inside \in [Zone -> SUBSET Nat]
          /\ DOMAIN dwellStart = Zone
          /\ \A z \in Zone : dwellStart[z] \in [inside[z] -> Nat]
          /\ loiterAlerted \in [Zone -> SUBSET Nat]
          /\ crowdAlerted \in [Zone -> BOOLEAN]
          /\ enterCount \in [Zone -> Nat] /\ exitCount \in [Zone -> Nat]
          /\ observed \in [DOMAIN observed -> Seq([place : Int \X Int, time : Nat])]
          /\ said \in [Zone -> [Id -> Seq({"ZONE_ENTRY", "ZONE_EXIT", "LOITERING"})]]
          /\ raced \in [Id -> Nat]

\* How zones and estimates stand to the tracks: only tracks that have existed
\* are counted, timed or remembered, and the counters of a zone agree with who
\* is inside.
ZonesInv ==
    /\ TrackerInv
    /\ TypeOK
    /\ at \in {"open", "setup", "read", "speed"} => step = "ready"
    /\ \A z \in Zone :
           /\ inside[z] \subseteq 0 .. nextId - 1
           /\ \A t \in inside[z] : dwellStart[z][t] <= now
           /\ loiterAlerted[z] \subseteq inside[z]
           /\ crowdAlerted[z] = (Cardinality(inside[z]) >= CrowdThreshold)
           /\ enterCount[z] = exitCount[z] + Cardinality(inside[z])
    /\ speedAlerted \subseteq DOMAIN observed /\ DOMAIN observed \subseteq 0 .. nextId - 1

LastOf(s) == IF s = <<>> THEN "ZONE_EXIT" ELSE s[Len(s)]

\* What is published of a track in a zone is a series of stints: an entry, at
\* most one loitering alert, an exit. A track that has gone has been taken out.
ZoneStints ==
    \A z \in Zone, t \in Id :
        LET s == said[z][t]
        IN  /\ \A i \in 1 .. Len(s) :
                   LET prior == IF i = 1 THEN "ZONE_EXIT" ELSE s[i - 1]
                   IN  \/ s[i] = "ZONE_ENTRY" /\ prior = "ZONE_EXIT"
                       \/ s[i] = "LOITERING" /\ prior = "ZONE_ENTRY"
                       \/ s[i] = "ZONE_EXIT" /\ prior # "ZONE_EXIT"
            /\ t \in inside[z] <=> LastOf(s) # "ZONE_EXIT"
            /\ t \in loiterAlerted[z] <=> LastOf(s) = "LOITERING"

\* A track raises its speed anomaly once, though it is lost and found again
\* (modules/visual/pipeline.py: "once per track").
SpeedOncePerTrack == \A t \in Id : raced[t] <= 1

\* The device is open while frames are processed, and stays so after the run
\* only if the run never came to process one.
SourceHeld == /\ at \in {"read", "track", "speed"} => source = "open"
              /\ at = "done" /\ source = "open" => nextId = 0 /\ pushed = <<>>

\* The metrics are those of one frame: who is inside was tracked, and a zone's
\* counters agree.
PushedWhole ==
    \A i \in DOMAIN pushed : \A z \in Zone :
        LET stats == pushed[i].zone_stats[z]
        IN  /\ stats.occupancy <= pushed[i].active_tracks
            /\ stats.enter_count = stats.exit_count + stats.occupancy
            /\ stats.is_crowded <=> stats.occupancy >= CrowdThreshold

\* How zones, estimates, metrics and the source stand to the tracks, and to
\* what was published.
VisualInv == ZonesInv /\ SpeedOncePerTrack /\ SourceHeld /\ PushedWhole
=============================================================================
