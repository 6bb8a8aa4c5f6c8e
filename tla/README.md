# IRMDS in TLA+

A verification project for IRMDS, the Intelligent Real-Time Monitoring and
Decision System: a Python process that runs monitoring modules (video, network,
finance, infrastructure) in background threads, passes their events over an
in-process bus to an alert manager and to WebSocket clients, keeps alerts,
sessions and device commands in SQLite, and is operated through a FastAPI
application. Paths below are relative to the repository.

The TLA+ modules follow the code: a guard is a condition or an early return, an
action is what runs without another thread seeing anything in between, and the
order of the writes is the code's. `PROJECT.json` says for every definition
which lines it stands for.

## 1. The system

One process. Its threads are the request threads of FastAPI (the routes are
plain functions and run in a thread pool), one daemon thread per running
module, a second one in the network module (its traffic generator), the polling
thread of the actuation gateway, and the event loop with the WebSocket clients.
`api/main.py` creates everything at startup; the modules are started by
requests.

| Component | State | Operations | Talks to |
|---|---|---|---|
| Command ledger `core/command_bus.py` | `commands` table, one lock | propose, get, list, transition_state | routes and gateway call it |
| Actuation gateway `core/actuation_gateway.py` | flag, thread | start, stop, polling loop, execute_once | ledger, event bus |
| Module lifecycle `core/base_module.py` | status, flag, thread, error | start, stop, restart, `_safe_run` | registry calls it, `_run` of each module |
| Registry `core/plugin_registry.py`, `api/routes/modules.py` | dictionary of modules | discover, start/stop/restart, start_all, stop_all | modules |
| Event bus `core/event_bus.py` | subscribers, bounded history, counter, lock | publish, subscribe, unsubscribe, get_history | publishers' threads run the callbacks |
| Alert manager `core/alert_manager.py` | cooldowns, dedup cache, warning window, alerts | `_process_event`, start, stop, queries | subscribed to the bus; writes alert rows |
| Sessions `api/routes/sessions.py`, `core/database.py` | `sessions` and `alerts` tables | start, stop, list | the alert manager reads the active one |
| `core/session.py` | current session, history | start, stop | used by nothing but its tests |
| Metrics `core/metrics_collector.py` | latest and bounded history per module | push, queries, clear | module threads push, routes read |
| WebSocket stream `api/routes/ws.py` | a queue and a subscription per client | connect, forward, disconnect | bus callback hands over to the event loop |
| Visual module `modules/visual/` | tracks, zones, speed histories | frame loop | event bus, metrics |
| Network module `modules/network/` | packet queue, window accumulators, baseline | generator thread, window loop | event bus, metrics |
| Time-series module `modules/timeseries/` | replay position, baseline, change-point sums | replay loop | event bus, metrics |
| Infrastructure module `modules/infrastructure/` | log position | polling loop | event bus, metrics, a log file others write |
| Dashboard `dashboard/` | events shown, connection flag | WebSocket client, polling | WebSocket stream, routes |
| CLI, scripts | none of their own | call the API or the components | |

What is hard in it:

* **Unlocked state shared by threads.** `BaseModule` has no lock at all;
  `AlertManager` locks only the append to its list; the bus calls its
  subscribers after it has released its lock.
* **Joins that give up.** `stop()` of a module waits ten seconds and of the
  gateway two; both go on if the thread is still there. A start after that
  gives the old thread its flag back.
* **Batches and stale reads.** The gateway works through a batch it read
  earlier, with a delay per command; `publish()` through a snapshot of the
  subscribers.
* **Crashes.** The command table outlives the process; flags, threads and
  announcements do not. A locked database makes any ledger call raise.
* **Long sequences of frames** in which objects vanish, return and crowd.
* **Two threads inside one module.** The network module's generator has a flag of
  its own, which it sets itself; queue and accumulators outlive a run.
* **Look, then commit.** A session request reads the table in one transaction and
  writes it in another, and so does the tag of an alert.
* **Hand-overs.** An event goes from a publishing thread through the event loop
  and a queue to a client that may be gone; a log line is read while it is written.

`PROJECT.json` lists each hazard at the line where it bites, with the
properties that would catch it going wrong.

### What makes each part correct

* *Ledger and gateway*: every command goes through its lifecycle in order; it is
  executed at most once per gateway thread; its announcement is true and stays
  true; approved commands are taken up; a stop ends the threads.
* *Module lifecycle*: RUNNING always has a thread; used one call at a time there
  is one loop, STOPPED holds nothing and an ERROR has its exception; no call
  hangs.
* *Event bus*: each subscription gets exactly what was published while it was
  subscribed and passes its filters, once, in the order of each publisher.
* *Alert manager*: an event is dropped only on account of an alert that exists;
  alerts of one type are a cooldown apart; what escalates is the number of
  recent warnings; what passes the filters becomes an alert.
* *Visual module*: detections and tracks correspond one to one; an object that
  is alone keeps its identity; the events of a track in a zone form stints.
* *Sessions*: a session starts when those its request could see are over, and
  alerts carry one that was active while they were processed.
* *Lifespan*: the shutdown ends and leaves no module running, with the exceptions
  the code makes.
* *Stream*: a client gets what its subscription was called with, in order, once,
  as long as its line is up; a subscription ends with its client.
* *Network module*: every packet is counted in one window, which covers its time;
  every window is judged or given up; a stop ends both threads; the forest is
  recent and the scores are bounded.
* *Time-series, infrastructure*: no verdict before the baseline; the change-point
  sums are the largest deviations; every alarm in the log is announced once.

## 2. Modules

| TLA+ module | Models | Proofs |
|---|---|---|
| `CommandLifecycle` | what the ledger promises of a command (abstract) | |
| `CommandLedger` | ledger, approve and propose routes, gateway threads | `CommandLedgerProofs` |
| `ModuleLifecycle` | one `BaseModule` under concurrent calls | `ModuleLifecycleProofs` |
| `EventBus`, `MCEventBus` | publish, subscribe, unsubscribe, history | in `EventStreamProofs` |
| `Delivery` | what a connection promises its client (abstract) | |
| `EventStream`, `MCEventStream` | WebSocket endpoint and dashboard client, over `EventBus` | `EventStreamProofs` |
| `AlertManager`, `MCAlertManager` | `_process_event` in concurrent threads | `AlertManagerProofs` |
| `Sessions` | session requests, alert rows and their tags | in `ServiceProofs` |
| `Service`, `MCService` | lifespan, registry, module requests, process end, over `Sessions` | `ServiceProofs` |
| `CentroidTracker` | the tracker's `update()` | in `VisualPipelineProofs` |
| `VisualPipeline`, `MCVisualPipeline` | camera, frame loop, zones, speed alerts, metrics, over the tracker | `VisualPipelineProofs` |
| `AnomalyDetector`, `MCAnomalyDetector` | the network module's detector | in `NetworkProofs` |
| `Network`, `MCNetwork` | generator threads, queue, windows, loop, stop and restart, over the detector | `NetworkProofs` |
| `MetricsCollector` | push and the latest snapshot | in `MonitorsProofs` |
| `LogMonitor`, `FinanceReplay` | the polling loops of the infrastructure and time-series modules | in `MonitorsProofs` |
| `Monitors`, `MCMonitors` | the two side by side, over one collector | `MonitorsProofs` |

An operator whose comment begins with "Mutant" is a variant of the operation
that follows it, with a plausible bug. No specification uses it; replacing the
operation by it must break the property it is listed with in `PROJECT.json`.

### CommandLedger

`state[c]` is the row's state column ("absent" before the insert). Every ledger
call holds the bus's lock for its whole transaction, so `Propose`, `Approve`,
`Poll` (the SELECT), `Claim` (to EXECUTING) and `Finish` (to COMPLETED) are one
step each. A gateway thread is `pc[p]` with the batch it still has, the command
in hand and the state its last transition returned. `TransitionState` is the
rule of `transition_state`: a missing row, the same state and a final state
stay; a move that the table does not have makes the command FAILED. `Start` may
create a new thread while one that outlived `stop()`'s join is still working.
`DatabaseError` makes a transition raise; `Crash` ends the process and keeps the
table. Rows are stored as dry-run only, so the gateway's branch for others never
runs and is left out. `claims` and `announced` are history variables.

`CommandLifecycle` is the abstract specification: stages in order, final ones
for ever, reports of the final stage only. `ImplementsLifecycle` is the
refinement.

### ModuleLifecycle

Every attribute write of `start()`, `stop()` and `_safe_run()` is a step, since
nothing is locked: `cpc[k]` is where a request thread stands, `wpc[w]` where a
background thread does. `StartLaunch` reads `_thread` again, as the code does.
`StopJoin` merges the reads of `_thread` before the join (test, `is_alive`, `join`):
that another stop sets it to None there, so that this one raises, is modelled only
at the read after the join (`StopJoined`).
`JoinTimeout` is allowed when `SlowLoops`. The history variable `clean` records
whether the calls so far were careful: one at a time, no join gave up, and
`start()` went ahead only from STOPPED, or from ERROR with the failed thread
gone. The code promises little outside of that, and `CleanUse` says what it does
promise within: one loop, a STOPPED that holds nothing, an ERROR with its
exception.

### EventBus

`Publish` is the locked part of `publish()`: history, counter, and the snapshot
of the matching subscribers, `todo[p]`. `Dispatch` is one callback. A callback
that raises is swallowed by the bus, so calling it is the same step. `log`,
`calls`, `since` and `until` are history variables.

### EventStream and Delivery

`EventStream` extends the bus; a subscription is a connection. `Enter` and
`Leave` are the subscribe and the unsubscribe of `websocket_events`, `Callback`
is the bus's dispatch together with the filters of the closure and
`call_soon_threadsafe`, `PutNoWait` the event loop's next callback for that
connection, `Get` and `Send` the handler's loop. The loop runs its callbacks in the
order they were left with it; a callback touches one queue only, so that their
order is kept by connection (`ready[c]`). Only a failing send tells the handler that its client
has gone, so a cut line goes from "cut" to "noticed" by the transport, and what
is sent in between is lost. The dashboard's consumer loop (`_ws_consumer_loop`) is
`Connect`, `ShowConnected` (the flag `ws_connected`), `Receive`, which shows the
newest events first, and its ends: `GiveUp` when the connection is closed,
`ConnectFails` when none comes about, `CatchAll` for any other exception. The last
closes the connection and leaves the flag, so `connected` may be TRUE with nothing
in `using`; no property relies on it.

Merged or left out: the insert of an event and the truncation of the list are one
step, as no other thread of the client changes the list between them; the tests
whether the session state and its queue exist; and a `send_json` that raises for a
payload it cannot serialise, which no module publishes.

`Delivery` is the abstract promise: offered events arrive in the order of the
offers, each once, all of them while the line is up. `ImplementsDelivery` maps
what waits for a client to callbacks, queue, hand and wire in that order.

### AlertManager

One action per read or write of shared state in `_process_event`: cooldown,
dedup, the append to the warning window, the loop that prunes it (test, first
element, popleft), the count, the store, the two marks. `Source[t]` is the module
whose events thread `t` publishes. Two threads with one source are a module whose
earlier loop outlived its `stop()`. The database write cannot fail the alert
(`_persist_alert` catches everything); the row it writes is in `Sessions`, the
subscription and its end in `Service`.

### Sessions and Service

`Sessions` has the table (`sessions[i].over`), the requests in two transactions
each (`LookForActive`, `Insert`; `LookForStop`, `Complete`; a commit may raise),
and an alert's way into the database: `LookUp` of an active session, then `Write`
or `Skip`. Rows have no order, so a lookup may find any active one. `born` of a
session is what its start saw, `truths` of an alert which sessions were active
since its event came; both are history.

`Service` is the process: `Subscribe`, `Discover`, `Serve` at startup, in the
order of `lifespan()`; requests that start, stop and restart modules; the
modules' threads, which publish events that raise alerts while the manager is
subscribed; `Shutdown`, `Unsubscribe`, then `StopNext` for each module in the
registry's order, with a join that may give up. `ProcessEnds` is a crash or the
end, at any time, and the next startup: threads and registry are gone, the tables
stay. A module is seen from outside here; requests for one module come one at a
time (their overlaps are in `ModuleLifecycle`).

### CentroidTracker and VisualPipeline

`update()` of the tracker is a step per turn of its loops: `Update` (its head,
and the whole of an empty frame), `Match` or `Miss` for each track in the order
of the dictionary, `Register` for each detection that is left, `Return`. Boxes
are integer corners and the overlap a fraction that is compared by
cross-multiplication, in place of the floating-point quotient. `owner` has the
domain `matched_det_indices` and remembers the track as well.

`VisualPipeline` is one run of the module, camera included. `OpenSource` opens
the device or ends the run; `MakeZones` loads the zone file, or reads a first
frame for the measures of the default zone; `SetupFails` is an exception before
the `try` that releases the camera. Then the tracker's steps are its own, and it
adds `Zones` (`Zone.update` of every zone and the publication of the events) and
`Speeds` (the estimates, the alerts, the clean-up, the metrics). An estimate is
the distance between the oldest and the newest observed place over their time,
in body heights, compared by cross-multiplication (`IsAnomaly`). A run starts
from nothing, since all of this state is local to `_run`. `said` and `raced` are
history variables.

### AnomalyDetector and Network

`AnomalyDetector.Process` is `NetworkAnomalyDetector.process()` for one window:
moving mean and variance, scores, the history with its recalibration, the
verdict. The code computes the moving statistics in doubles. In the model the mean
is an integer in units of 1 / `Grid`, the variance one in the units that belong to
it, and what alpha (1 / `Smoothing`) makes of a number is rounded up or down, either
way (`Share`): whatever holds of all these roundings holds of the machine's. A score
is kept as the fraction that is its square, so that the comparisons become ones of
integers. What a double loses in a product, a part in 10^16, is not in the model;
the bounds below leave far more room than that. The forest is the windows it was
fitted with; its opinion is free.
`processed` is history.

`Network` extends it. A generator thread (one per run, `gen[r]`) sets its own
flag when it gets to run (`GenStart`), makes a batch, puts packets into the
bounded queue and rests when the batch is done, the flag falls or the queue stays
full. The loop pumps packets into the open window (`Pump` seals a window when a
packet lies beyond it), judges the sealed windows (`Judge`, or `Fail` for an
exception) and, in its `finally` block, stops and joins the generator (`Close`,
`Join`). `Stop` is `NetworkPipeline.stop()`, flag by flag. Queue and accumulators
outlive a run, as in the code. `put`, `sealed`, `skipped` and `late` are history.

### MetricsCollector, LogMonitor, FinanceReplay, Monitors

`LogMonitor` has the polling loop of the infrastructure module and, beside it,
the program that writes the log: whole lines, lines in two pieces with a poll
possibly in between, lines that cannot be decoded, rotation. `AnalyzeNewLines` is
one `readlines()` from the last position. `FinanceReplay` is the replay loop, the
baseline, and the two change-point sums in units of half a standard deviation;
the indicators enter as free values. `path` is history: the running total of the
deviations since the last shift. Both push to `MetricsCollector`, which is all they
share (`Monitors`).

## 3. Runs

| Run | Shows | Distinct states |
|---|---|---|
| `ledger` | two commands, two gateway threads, one fault | 45 thousand |
| `module` | two callers, two background threads, slow loops | 131 thousand |
| `module_twice` | **violated**: start, start gives two loops | |
| `event_bus` | two publishers, two filtering subscribers, three events | 50 thousand |
| `stream` | two publishers, two connections of one client, a line that is cut or closed | 248 thousand |
| `alerts` | the threads of two modules, three events, stalls | 317 thousand |
| `service` | two clients, two modules, two sessions, one end of the process | 385 thousand |
| `visual` | five frames of up to two objects, in and out of a zone | 717 thousand |
| `detector` | seven windows, a first fit and a recalibration, every rounding | 150 thousand |
| `exfil` | **violated**: a huge spike is not reported as exfiltration | |
| `network` | two runs with a generator each, a stop at any point | 269 thousand |
| `monitors` | a log written, torn, rotated; a replay of six ticks | 872 thousand |

The properties are stated and explained in the modules. The less obvious ones:

* `ClaimsBounded` is what at-most-once execution amounts to: the second
  gateway thread may execute a command again, since it read the batch before
  the first one wrote EXECUTING and `transition_state` answers EXECUTING to
  both. With one thread it is at most once (theorem `AtMostOnce`).
* `AnnouncementsAccounted`: executions and announcements match, up to what a
  crash or a database error loses.
* `ApprovedIsTaken` survives faults: a command whose EXECUTING write failed is
  polled again. A command that a crash leaves EXECUTING stays so for ever;
  `ExecutingIsHeld` says that only faults do this.
* `CleanSettles`, `Quiesces`: in careful use no call leaves STARTING or STOPPING
  behind, and once the flag stays cleared all threads end. `CallsReturn` needs no
  care: no overlap of calls makes one of them wait for ever.
* `PassedFires` has a premise, `NoStall`: no thread takes longer over its
  warnings than the escalation window. Without it three threads can empty the
  window under each other, `popleft()` raises IndexError, the bus swallows it
  and the alert is lost.
* `CooldownHeld` is about modules with one thread; `EscalationExact` counts the
  warnings within the window while warnings are processed one after another. When
  they overlap the count may be off (section 4).
* `FrameAccounted`, `IsolatedKeepsIdentity`: greedy matching may swap the
  identities of objects that overlap each other; the promise is for objects
  that do not.
* `ZoneStints`: entry, at most one loitering alert, exit, whatever happens to
  the track, including its pruning inside the zone.
* `VisualInv` has the promises of the whole loop: a track raises its speed alert
  once, the metrics of a frame agree with themselves, and the camera is released
  by every run that processed a frame.
* `ScoresBounded`: the square of a score is at most 1 / alpha + 2, because the
  value has widened the variance it is divided by. Without rounding the bound is
  1 / alpha - 1, which is 9 in the code, and it is met by every second window that
  differs from the first; a mean rounded the worst way makes it
  1 / (alpha * (1 - alpha)). What follows for the verdict, that the
  score above 5 that it asks for does not occur, is a theorem (`NoExfiltrationThm`).
* `OneGenerator`, and the first part of `PacketsInTheirWindow`, have the premise
  `late = {}`: no generator set its flag after its run was over. The code does not exclude it
  (section 4), and `Halts` says what a stop is worth then.
* `StartedAlone`, a part of `ServiceInv`, is what "only one session" amounts to: a new session may be
  beside an active one only if their start requests overlapped.
* `TaggedTruly`: the row of an alert names a session that was active at some
  moment while the alert was processed.
* `ShownInOrder`: what the dashboard shows of one publisher is in its order, over
  any number of connections, and nothing twice.
* `GoneEnds`: a client that has gone costs one more event; without one its
  subscription stays.
* `LogInv`: as long as the file only grows, a run announces exactly the alarms in
  it, once and in order, except lines that a poll tore before the pattern fits.
* `FinanceInv`: the sums kept from tick to tick are the largest total deviations
  of any run of ticks up to now.

### Bounds, and why they are enough

Two of each actor suffice for the races the runs look for: one acts between two
steps of the other. (The loss of an alert by three threads at the warning window, above, is
what the premise of `PassedFires` excludes.) Two commands show a batch with something left in it. One fault at any
point is enough to lose or repeat anything once, and nothing in the code counts
faults. The cooldown and the window are two ticks, so that "too early",
"exactly" and "too late" differ. The histories are smaller than the number of
events, so that they overflow. `MaxDisappeared = 1` and five frames let a track
be lost, found again, or pruned and replaced, and let the speed history of three
observations overflow; neighbouring boxes overlap by exactly a third, above the
threshold of 3/10, so that two detections can contend for a track and two tracks
for a detection. `detector` has a baseline of two windows, so that seven windows
pass the first fit and the recalibration at six. It has the coarsest grid there is (`Grid = 1`), on which a
rounding moves a mean the most, and an alpha of 1/4. `exfil` uses the code's alpha and
threshold. `network` has windows of two ticks, a queue of one packet, so that the
generator blocks, and six ticks: a window can be ended by the next packet, by one
after a gap, or by one of the second run. `stream` has two connections because
the second can see what the first left behind. In `service` two sessions and two
clients let starts and stops overlap (three sessions were run as well, without a
difference), and one end of the process meets every state of a request. In
`monitors` three lines and three polls let a line be torn, completed and
followed. Counters that grow without bound in the code (events, frames, tracks,
the clock, starts) are bounded in guards; runs whose bound ends the behaviour
switch the deadlock check off, the others check it.

### Fairness

Weak fairness of the steps a thread takes by itself: the gateway's loop, the
callers and background threads of a module, the publisher's loop over its
snapshot, the alert manager's callback, the generator and the loop of the network
module, the event loop with its callbacks and handlers, the client that receives,
the server's transport, and `lifespan()`. This is what the operating system's
scheduler gives to a thread that is not blocked; the only waits in these paths
are joins, queue operations and sleeps with a timeout. A `stop()` of the network
module that has begun is carried through. No fairness is given to clients,
operators, faults, exceptions, the clock, the network line, a module's loop in
`Service`, or a `_run` that decides to return: nothing in the code makes those
happen. `LoopExit` is fair because `_run`'s contract is to test the flag on every
iteration (`core/base_module.py:153-174`), which the four modules do.

## 4. Divergences between the code and its documentation

Two are shown by runs:

1. `module_twice`: `start()` refuses RUNNING only, not STARTING; its docstring
   promises an error "if the module is already active".
2. `exfil`: the exfiltration branch of the network detector wants a score above
   5, and with alpha = 0.1 none exceeds 3.34 (theorem `NoExfiltrationThm`): this
   rule decides nothing. The threshold of the scores themselves, 3.0 by default, is
   the exact bound, and a score passes it by rounding alone: 100.0 packets per
   second and then 101.0 give 3.00000000000002, and a GENERIC_TRAFFIC_ANOMALY.

The others were met while modelling. The models contain them, and the properties
say what does hold:

* `start()` reads `_thread` again to start it. The last line of an overlapping
  `stop()` may have set it to None; the module then stays STARTING until someone
  stops it (`core/base_module.py:121`).
* "Same alert type won't fire again within N seconds", but two threads of one module
  can both pass the check before either marks (`core/alert_manager.py:175-198`).
* "3+ WARNINGs in 60 seconds auto-escalates", but two threads that find the same old
  warning drop it and the one behind it (`core/alert_manager.py:190-191`).
* The generator's `stop()` "cleanly halts" it, but the generator sets its flag itself,
  over a `stop()` that came first, and outlives its loop
  (`modules/network/traffic_generator.py:90`).
* "Only one session can be active at a time", but two starts that overlap both
  succeed (`api/routes/sessions.py:50-60`).
* A callback may run after `unsubscribe()` has returned (`core/event_bus.py`).
* A command approved again while it executes becomes FAILED, and the gateway
  announces COMMAND_EXECUTED for it. The log line of a failed transition always
  reads "from failed" (`core/command_bus.py:200-204`).
* The speed estimator forgets only tracks that raised an alert; the histories of
  all others stay (`modules/visual/pipeline.py:192`).
* `core/session.py` has a `SessionManager` that nothing constructs and whose rules
  differ from the routes'.
* `stop_all()` passes over modules that are STARTING. What modules publish between
  the alert manager's stop and their own raises no alert.
* After an exception it does not expect, the dashboard's client leaves
  `ws_connected` set: the page says "EVENT STREAM CONNECTED" without a connection.
* A camera is not released when the model or the zone file fails to load after it
  was opened (`modules/visual/pipeline.py:85`).
* `packets_per_second` and its bytes are totals of a window, whatever its length.
* The WebSocket endpoint unsubscribes "ALWAYS", but a handler whose client has
  gone waits for one more event before it notices.
* `MetricsCollector.clear` is documented to be called when a module stops and is
  called by nothing: after a restart the visual module's health check answers from
  the frame rate of the run before.
* A log line that cannot be decoded stops the tail of the log for good, since the
  position stays before it; a rotated log is read again only once it is longer
  than before.

## 5. Proofs

TLAPS checks the theorems for every value of the constants that satisfies the
named assumptions. Each proof is by an inductive invariant: an invariant of
the run and what strengthens it.

* `CommandLedgerProofs`. `LedgerInv` says for every thread which states its
  command can be in (`HandInv`) and bounds, for every command, its executions
  plus the threads that still hold it in batch or hand by the number of threads
  (`ClaimInv`): executions alone are not inductive, since a batch read earlier
  permits one more. From it: `ClaimsBounded`, `AtMostOnce`, `ExecutingIsHeld`,
  `AnnouncementsAccounted`, and `LedgerRefinesLifecycle`, a step simulation.
  Assumptions: finitely many threads.
* `ModuleLifecycleProofs`. `RunningHasThread` holds whatever overlaps.
  `CleanInv` describes careful use: one caller acts, only the thread in
  `_thread` can be alive, and it is over whenever a start is under way, a stop
  has joined or STOPPED is shown. From it `CleanUse`.
* `EventStreamProofs`, the bus. `BusIInv` is inductive: delivery, subscription
  intervals within the log, and that a publisher's pending event is younger than
  any of its that a pending subscriber was called with. `PublisherOrderThm` follows
  from it, and `HistoryThm` is about the deque.
* `EventStreamProofs`, the stream. A step of the stream is a step of the bus or
  leaves it alone (`StreamUsesBus`), so that the bus's theorems hold under it. The
  wire, the hand, the queue and what the loop still has are one row (`Row`): a step
  from one part to the next leaves the row as it is, a callback adds at its end, a
  client receives its head, and only a send into a cut line takes something out
  (`WayStays`, `WayGrows`, `WayShrinks`, `WayLoses`). The row without one item keeps
  its order (`Thins`). `ShownInOrder` is not inductive: what is shown must be older,
  of each publisher, than all that may still come to the dashboard, on the way or in
  a publisher's hand; that is the last part of `WayInOrder`. It is established at a
  reconnection because a new connection has not been called with anything
  (`NothingYet`, by the bus's `CalledAsOwed`). `StreamDelivers` is the refinement of
  `Delivery` without its fairness, action by action: a callback is an offer or a
  stutter, a receive a delivery, a lost send a loss.
* `AlertManagerProofs`. `AlertInv` orders, for a module with one thread, the
  alerts, marks and clock readings of each key; `CooldownHeldThm` follows for any
  other threads around it, and `DedupAddsNothingThm`: for such a module the
  deduplication by object never drops anything, as the cooldown of the type has
  the same length and is checked first. `MarksThm` needs no such premise.
  `EscalationThm` needs `WindowInv`: the window is the end of the sequence of all
  warnings, whose times do not decrease; what was dropped from its head lies before
  the newest warning's window; and the thread that prunes compares with its own
  clock reading, which is the newest warning's as long as warnings are counted one
  after another.
* `VisualPipelineProofs`, the tracker. `TrackerInv` is not inductive: a track whose turn is
  still to come must be a frame older than its misses (`Waiting`), or one more
  miss could pass its age. `Claims` is the account of a frame while it is being
  made: a detection's track has been visited, has no misses and stands where the
  detection is. `Pairs` says of an isolated pair that it is waiting or made;
  that a waiting one is matched in its turn needs that the detection is the best
  of the free ones, which is an argument about fractions (`GreaterAcross`).
  Assumptions: frames are sequences of integer boxes, the threshold a fraction.
* `VisualPipelineProofs`, the pipeline. The tracker's invariant carries over, since the
  pipeline's steps are the tracker's or leave it alone. `Marked` explains
  `SpeedOncePerTrack`: a track that raised its alert is marked, or gone with a
  number that is never given again. `SetUp` says that nothing has been tracked
  or pushed before the first frame, which `SourceHeld` needs for the ends that
  release nothing; `PushedWhole` follows from the counters of the zones at the
  moment of the push. `AppendStint` is the lemma on sequences behind
  `ZoneStints`; the counters need that the sets are finite.
* `NetworkProofs`. `ScoresBoundedThm` is arithmetic on one step: however alpha times
  the difference is rounded, it lies between zero and the difference (`Shares`), so
  that the value is no further from the new mean than from the old one, and the
  variance contains that difference squared, (`Smoothing` - 1) times.
  `NoExfiltrationThm` follows, as 5 squared is no less than `Smoothing` + 2. `ForestIsRecentThm` needs where the history is in the sequence of
  all windows, and how long since the last fit; the invariant ties the forest to
  the head of the history. `NetworkInvThm` is about sequence positions: windows
  partition the packets counted, the queue is the rest. `OneGeneratorThm` needs
  that, without a late start, a generator of an earlier run has ended whenever
  its loop is down, and `PacketsInTheirWindowThm` that packets are put in the
  order of time, queued ones not before the open window. Assumptions: positive
  lengths, packet sizes as in the code.
* `ServiceProofs`. `ServiceInv` relates every module's status, thread and
  whoever is stopping it; `Passed` says what `stop_all()` has been through is over
  or spared, from which `DownIsQuietThm`. Of the sessions: a request about to insert
  saw only sessions that are over and stay over (`StartedAloneThm`), and what a
  lookup can find is among the sessions the alert has met (`TaggedTrulyThm`). Both
  hold through the end of the process at any point.

* `MonitorsProofs`. Either loop pushes snapshots of its own module only, so that each
  invariant survives the other's steps. `LogReported` needs `LogOrdered`: the lines
  in the file are numbered in the order they were begun, the tail of a torn line
  excepted, and every cut (an end of the file at which a poll has stopped reading)
  is at or before the position; then what a poll reads is younger than all that was
  published (`AnalyzeKeeps`). `CusumExact` compares the two sums with a maximum over
  all stretches of ticks: a tick moves every stretch by the same deviation and adds
  one of length zero, so that the largest moves likewise or is zero
  (`LargestMoves`); that the sums together stay within the threshold shows that a
  shift resets both at the right moment. Assumptions: a drift and a threshold that
  are natural numbers.

The bus and the stream, the tracker and the pipeline, and the two monitors share a
proof module each because the second proof cites the first one's lemmas.

With these, every invariant of a passing run is a theorem. Only model-checked are
the liveness properties, which are out of the prover's reach: `ApprovedIsTaken`,
`StopDrains`, `Quiesces`, `CleanSettles`, `CallsReturn`, `AllDelivered`, `PassedFires`, `Halts`,
`GoneEnds`, `ShutsDown`, and the fairness in `ImplementsDelivery` (that what is
offered on a line that stays up arrives at all).

## 6. Not modelled

What detectors see and what the forest thinks (scikit-learn, a neural network),
image processing and the heatmap, the indicators of the time-series module,
parsing of CSV files, configuration, logging, the rendering of the dashboard, the
command line. Of the modelled components: queries that only read, rolling
statistics among them; the notification callback, which nothing registers;
`start_all()`, which only the command line and the demo call; the import machinery
of the discovery; SQL beyond one row's state; the ratios and the entropy of a
network window, which are features like the others.

## 7. Plan

Done: `CommandLifecycle`, `CommandLedger`; `ModuleLifecycle`; `EventBus`,
`Delivery`, `EventStream`; `AlertManager`; `CentroidTracker`, `VisualPipeline`;
`AnomalyDetector`, `Network`; `Sessions`, `Service`; `MetricsCollector`,
`LogMonitor`, `FinanceReplay`, `Monitors`, each with its proofs.

Left, in order of importance:

1. Action properties: what no step may undo, such as a final state of a command
   seen by a client, or the end of a session.
2. Requests for one module that overlap, inside `Service`.
3. `start_all()` and the command line's use of the registry.
4. The alert manager composed with the bus: which published event ends in an
   alert.
