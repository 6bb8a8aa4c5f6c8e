---------------------------- MODULE AlertManager ----------------------------
(***************************************************************************)
(* core/alert_manager.py: what becomes of a WARNING or CRITICAL event.     *)
(* _process_event runs in the thread of whoever publishes, and several     *)
(* threads run it at once: only the append to the alerts is under a lock.  *)
(* Each of its reads and writes of shared state is a step here.            *)
(*                                                                         *)
(* The thread of a module publishes that module's events, so a key (module *)
(* and type) belongs to one thread, unless an earlier loop of the module   *)
(* outlived its stop(), see ModuleLifecycle: Source says which.            *)
(*                                                                         *)
(* The clock stands for time.time() and does not run backwards. The value  *)
(* 0 stands for "never", as the default of the lookups does. No            *)
(* notification callback is registered by the program.                     *)
(*                                                                         *)
(* An operator marked "Mutant" is a variant of the operation after it with *)
(* a bug that is easily made; no specification uses it.                    *)
(***************************************************************************)
EXTENDS Integers, Sequences, FiniteSets

CONSTANTS Thread,
          Source,           \* Source[t]: the module whose events t publishes
          Event,            \* records [type, object, severity]
          NoObject,         \* the event's data names no object
          Cooldown,         \* alert_cooldown_seconds
          Window,           \* alert_escalation_window
          Count,            \* alert_escalation_count
          MaxAlerts,        \* alert_max_history
          StartTime, MaxTime,   \* bounds of the clock
          MaxEvents         \* bound: events processed in a behaviour

ASSUME AlertAssumption ==
    /\ {Cooldown, Window, Count, MaxAlerts, MaxTime, MaxEvents} \subseteq Nat
    /\ StartTime \in Nat \ {0} /\ Cooldown <= StartTime
    /\ Event # {} /\ \A e \in Event : e.severity \in {"WARNING", "CRITICAL"}

Type == {e.type : e \in Event}
Key == {Source[t] : t \in Thread} \X Type
Object == {e.object : e \in Event} \ {NoObject}

\* Threads between the append to the warnings and their count.
Counting == {"prune", "head", "pop", "count"}
Step == {"idle", "cooldown", "dedup", "warn", "store", "mark", "markObject"}
            \union Counting

VARIABLES clock,
          cooldowns,        \* _cooldowns
          dedupCache,       \* _dedup_cache
          warningWindow,    \* _warning_window
          alerts,           \* _alerts
          at,               \* at[t]: what t does next
          job,              \* job[t]: the event t processes
          now,              \* now[t]: when t began
          escalated,        \* escalated[t]: t raised the severity to CRITICAL
          received,         \* events processed so far
          fired,            \* every alert stored, in order
          warned,           \* every warning counted, in order
          orderly           \* warnings were counted one after another

tables == <<cooldowns, dedupCache>>
local == <<job, now, escalated, received>>
warnings == <<warningWindow, warned, orderly>>
vars == <<clock, tables, warnings, alerts, at, local, fired>>

Init == /\ clock = StartTime
        /\ cooldowns = [k \in Key |-> 0]
        /\ dedupCache = [ko \in Key \X Object |-> 0]
        /\ warningWindow = <<>>
        /\ alerts = <<>>
        /\ at = [t \in Thread |-> "idle"]
        /\ job = [t \in Thread |-> CHOOSE e \in Event : TRUE]
        /\ now = [t \in Thread |-> 0]
        /\ escalated = [t \in Thread |-> FALSE]
        /\ received = 0
        /\ fired = <<>>
        /\ warned = <<>>
        /\ orderly = TRUE
-----------------------------------------------------------------------------

KeyOf(t) == <<Source[t], job[t].type>>
ObjectKey(t) == <<KeyOf(t), job[t].object>>
Goto(t, step) == at' = [at EXCEPT ![t] = step]

Tick == /\ clock < MaxTime
        /\ clock' = clock + 1
        /\ UNCHANGED <<tables, warnings, alerts, at, local, fired>>

\* The event bus calls _process_event: "now = time.time()".
Receive(t, e) == /\ at[t] = "idle" /\ received < MaxEvents
                 /\ Goto(t, "cooldown")
                 /\ received' = received + 1
                 /\ job' = [job EXCEPT ![t] = e]
                 /\ now' = [now EXCEPT ![t] = clock]
                 /\ escalated' = [escalated EXCEPT ![t] = FALSE]
                 /\ UNCHANGED <<clock, tables, warnings, alerts, fired>>

\* Mutant: the event that passes starts the cooldown at once.
CheckCooldownAndMark(t) ==
    /\ at[t] = "cooldown"
    /\ IF now[t] - cooldowns[KeyOf(t)] < Cooldown
       THEN Goto(t, "idle") /\ UNCHANGED cooldowns
       ELSE Goto(t, "dedup") /\ cooldowns' = [cooldowns EXCEPT ![KeyOf(t)] = now[t]]
    /\ UNCHANGED <<clock, dedupCache, warnings, alerts, local, fired>>

\* Mutant: the cooldown is over a second early.
CheckCooldownShort(t) ==
    /\ at[t] = "cooldown"
    /\ Goto(t, IF now[t] - cooldowns[KeyOf(t)] + 1 < Cooldown THEN "idle" ELSE "dedup")
    /\ UNCHANGED <<clock, tables, warnings, alerts, local, fired>>

CheckCooldown(t) ==
    /\ at[t] = "cooldown"
    /\ Goto(t, IF now[t] - cooldowns[KeyOf(t)] < Cooldown THEN "idle" ELSE "dedup")
    /\ UNCHANGED <<clock, tables, warnings, alerts, local, fired>>

CheckDedup(t) ==
    /\ at[t] = "dedup"
    /\ Goto(t, IF job[t].object # NoObject /\ now[t] - dedupCache[ObjectKey(t)] < Cooldown
               THEN "idle"
               ELSE IF job[t].severity = "WARNING" THEN "warn" ELSE "store")
    /\ UNCHANGED <<clock, tables, warnings, alerts, local, fired>>

\* "self._warning_window.append(now)"
Warn(t) ==
    /\ at[t] = "warn"
    /\ Goto(t, "prune")
    /\ warningWindow' = Append(warningWindow, now[t])
    /\ warned' = Append(warned, now[t])
    /\ orderly' = (/\ orderly
                   /\ \A u \in Thread : at[u] \notin Counting
                   /\ warned # <<>> => now[t] >= warned[Len(warned)])
    /\ UNCHANGED <<clock, tables, alerts, local, fired>>

\* The loop that drops what is older than the window: is there anything, ...
Prune(t) ==
    /\ at[t] = "prune"
    /\ Goto(t, IF warningWindow = <<>> THEN "count" ELSE "head")
    /\ UNCHANGED <<clock, tables, warnings, alerts, local, fired>>

\* Mutant: what is exactly as old as the window goes too.
LookAtHeadEarly(t) ==
    /\ at[t] = "head"
    /\ Goto(t, IF warningWindow = <<>> THEN "idle"
               ELSE IF Head(warningWindow) <= now[t] - Window THEN "pop" ELSE "count")
    /\ UNCHANGED <<clock, tables, warnings, alerts, local, fired>>

\* ... is its first element older, ... (IndexError if it is gone meanwhile,
\* which ends the callback: the bus swallows it)
LookAtHead(t) ==
    /\ at[t] = "head"
    /\ Goto(t, IF warningWindow = <<>> THEN "idle"
               ELSE IF Head(warningWindow) < now[t] - Window THEN "pop" ELSE "count")
    /\ UNCHANGED <<clock, tables, warnings, alerts, local, fired>>

\* ... then popleft(): what is the first element by now.
Pop(t) ==
    /\ at[t] = "pop"
    /\ Goto(t, IF warningWindow = <<>> THEN "idle" ELSE "prune")
    /\ warningWindow' = IF warningWindow = <<>> THEN <<>> ELSE Tail(warningWindow)
    /\ UNCHANGED <<clock, tables, warned, orderly, alerts, local, fired>>

\* "if len(self._warning_window) >= ...count: severity = CRITICAL"
CountWarnings(t) ==
    /\ at[t] = "count"
    /\ Goto(t, "store")
    /\ escalated' = [escalated EXCEPT ![t] = Len(warningWindow) >= Count]
    /\ UNCHANGED <<clock, tables, warnings, alerts, job, now, received, fired>>

Alert(t) == [key |-> KeyOf(t), object |-> job[t].object,
             time |-> now[t], escalated |-> escalated[t]]

\* Mutant: an alert too many is kept.
KeepOneMore(d, a) == IF Len(d) <= MaxAlerts THEN Append(d, a) ELSE Tail(Append(d, a))

\* deque(maxlen).append
Keep(d, a) == IF Len(d) < MaxAlerts THEN Append(d, a) ELSE Tail(Append(d, a))

\* Mutant: an alert that cannot be written to the database is given up.
StoreRecorded(t) ==
    /\ at[t] = "store"
    /\ \/ /\ Goto(t, "mark")
          /\ alerts' = Keep(alerts, Alert(t))
          /\ fired' = Append(fired, Alert(t))
       \/ Goto(t, "idle") /\ UNCHANGED <<alerts, fired>>
    /\ UNCHANGED <<clock, tables, warnings, local>>

\* _persist_alert may fail and the alert is stored all the same. Which session
\* the row it writes names is in Sessions.
Store(t) == /\ at[t] = "store"
            /\ Goto(t, "mark")
            /\ alerts' = Keep(alerts, Alert(t))
            /\ fired' = Append(fired, Alert(t))
            /\ UNCHANGED <<clock, tables, warnings, local>>

Mark(t) == /\ at[t] = "mark"
           /\ Goto(t, IF job[t].object = NoObject THEN "idle" ELSE "markObject")
           /\ cooldowns' = [cooldowns EXCEPT ![KeyOf(t)] = now[t]]
           /\ UNCHANGED <<clock, dedupCache, warnings, alerts, local, fired>>

MarkObject(t) == /\ at[t] = "markObject"
                 /\ Goto(t, "idle")
                 /\ dedupCache' = [dedupCache EXCEPT ![ObjectKey(t)] = now[t]]
                 /\ UNCHANGED <<clock, cooldowns, warnings, alerts, local, fired>>

Proceed(t) == \/ CheckCooldown(t) \/ CheckDedup(t)
              \/ Warn(t) \/ Prune(t) \/ LookAtHead(t) \/ Pop(t) \/ CountWarnings(t)
              \/ Store(t) \/ Mark(t) \/ MarkObject(t)

Next == \/ Tick
        \/ \E t \in Thread : Proceed(t) \/ \E e \in Event : Receive(t, e)

Spec == Init /\ [][Next]_vars

\* A thread that runs the callback gets through it.
FairSpec == Spec /\ \A t \in Thread : WF_vars(Proceed(t))
-----------------------------------------------------------------------------
(* Properties                                                              *)

AlertType == [key : Key, object : Object \union {NoObject},
              time : Nat, escalated : BOOLEAN]

TypeOK == /\ clock \in Nat
          /\ cooldowns \in [Key -> Nat]
          /\ dedupCache \in [Key \X Object -> Nat]
          /\ warningWindow \in Seq(Nat) /\ warned \in Seq(Nat)
          /\ alerts \in Seq(AlertType) /\ fired \in Seq(AlertType)
          /\ at \in [Thread -> Step]
          /\ job \in [Thread -> Event]
          /\ now \in [Thread -> Nat]
          /\ escalated \in [Thread -> BOOLEAN]
          /\ received \in Nat
          /\ orderly \in BOOLEAN

Passed(t) == at[t] \notin {"idle", "cooldown"}
Sole(t) == \A u \in Thread : Source[u] = Source[t] => u = t
Firing == 1 .. Len(fired)

\* No mark without its alert: an event is only ever suppressed for an alert of
\* the same type (and object) that has been stored, never for one on its way.
MarksStandForAlerts ==
    /\ \A k \in Key : cooldowns[k] # 0 =>
           \E i \in Firing : fired[i].key = k /\ fired[i].time = cooldowns[k]
    /\ \A k \in Key, o \in Object : dedupCache[<<k, o>>] # 0 =>
           \E i \in Firing : /\ fired[i].key = k /\ fired[i].object = o
                             /\ fired[i].time = dedupCache[<<k, o>>]

\* "Same alert type won't fire again within N seconds", for the modules that
\* have one thread.
CooldownHeld == \A i, j \in Firing : \A t \in Thread :
    i < j /\ fired[i].key = fired[j].key /\ fired[i].key[1] = Source[t] /\ Sole(t)
        => fired[j].time - fired[i].time >= Cooldown

\* For those modules the second filter never drops an event: what is too soon
\* for its object was already too soon for its type.
DedupAddsNothing == \A t \in Thread :
    Sole(t) /\ at[t] = "dedup" /\ job[t].object # NoObject =>
        now[t] - dedupCache[ObjectKey(t)] >= Cooldown

\* What escalates is exactly the number of warnings within the window, as long
\* as warnings are counted one after another.
EscalationExact == \A t \in Thread :
    orderly /\ at[t] = "count" =>
        Len(warningWindow) =
            Cardinality({i \in 1 .. Len(warned) : warned[i] >= now[t] - Window})

\* An event that passes the filters becomes an alert, though other threads
\* drop warnings it has not looked at and the database may fail, provided no
\* thread takes longer over its warnings than the window is wide: popleft()
\* then always finds something.
NoStall == \A t \in Thread : at[t] \in Counting => clock - now[t] <= Window
PassedFires ==
    []NoStall => \A t \in Thread : at[t] \in {"warn", "store"} ~> at[t] = "mark"

\* The alerts served are the latest ones, in the order they were stored.
AlertsAreRecent ==
    /\ Len(alerts) = IF Len(fired) < MaxAlerts THEN Len(fired) ELSE MaxAlerts
    /\ \A i \in 1 .. Len(alerts) : alerts[i] = fired[Len(fired) - Len(alerts) + i]

\* The strengthening behind the theorems of AlertManagerProofs: a thread's
\* clock reading, the alert behind a mark, and for a module with one thread
\* how alerts, marks and that reading are ordered in time.
TimesInv ==
    /\ \A t \in Thread : at[t] # "idle" => now[t] <= clock
    /\ \A k \in Key : cooldowns[k] <= clock
StoredInv ==
    \A t \in Thread : at[t] \in {"mark", "markObject"} =>
        \E i \in Firing : /\ fired[i].key = KeyOf(t) /\ fired[i].time = now[t]
                          /\ fired[i].object = job[t].object
SoleInv == \A t \in Thread, y \in Type : Sole(t) =>
    LET k == <<Source[t], y>>
    IN  /\ at[t] # "idle" => cooldowns[k] <= now[t]
        /\ \A o \in Object : dedupCache[<<k, o>>] <= cooldowns[k]
        /\ \A i \in Firing : fired[i].key = k =>
               \/ fired[i].time <= cooldowns[k]
               \/ at[t] = "mark" /\ KeyOf(t) = k /\ fired[i].time <= now[t]
        /\ Passed(t) /\ KeyOf(t) = k =>
               IF at[t] = "markObject" THEN cooldowns[k] = now[t]
               ELSE now[t] - cooldowns[k] >= Cooldown
CoolingInv == TypeOK /\ TimesInv /\ StoredInv /\ SoleInv

\* And behind the escalation: as long as warnings are counted one after another,
\* the window is what is left of them, what was dropped had to go, and the one
\* thread that counts has come to the first that may stay or has it before it.
Dropped == Len(warned) - Len(warningWindow)
WindowInv == orderly =>
    /\ Len(warningWindow) <= Len(warned)
    /\ \A i \in 1 .. Len(warningWindow) : warningWindow[i] = warned[Dropped + i]
    /\ \A i, j \in 1 .. Len(warned) : i < j => warned[i] <= warned[j]
    /\ \A i \in 1 .. Dropped : warned[i] < warned[Len(warned)] - Window
    /\ \A t \in Thread : at[t] \in Counting =>
           /\ \A u \in Thread : at[u] \in Counting => u = t
           /\ warned # <<>> /\ now[t] = warned[Len(warned)]
           /\ at[t] = "pop" => warningWindow[1] < now[t] - Window
           /\ at[t] = "count" => warningWindow[1] >= now[t] - Window

\* Times, marks and alerts agree, the alerts served are the latest, and the
\* window holds the warnings that count.
AlertInv == CoolingInv /\ AlertsAreRecent /\ WindowInv
=============================================================================
