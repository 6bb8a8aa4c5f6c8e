------------------------------- MODULE Network -------------------------------
(***************************************************************************)
(* modules/network: NetworkPipeline, whose loop turns packets into windows *)
(* and judges them (AnomalyDetector), and the TrafficGenerator, which      *)
(* fills the packet queue in a thread of its own, a new one in each run.   *)
(* Queue, accumulators and detector outlive a run.                         *)
(*                                                                         *)
(* Times are in ticks of the generator. The module is used carefully: one  *)
(* caller, and no start before the loop has ended (see ModuleLifecycle for *)
(* the rest). Packets are numbered as they are put: put[n] is the time of  *)
(* the n-th. A check of a flag and the queue operation after it are one    *)
(* step.                                                                   *)
(*                                                                         *)
(* An operator marked "Mutant" is a variant of the operation after it with *)
(* a bug that is easily made; no specification uses it.                    *)
(***************************************************************************)
EXTENDS AnomalyDetector, FiniteSets

CONSTANTS WindowTicks,      \* window_seconds
          QueueSize,        \* maxsize of the packet queue
          MaxYield,         \* windows process_queue() returns at once, 5 in the code
          PacketSizes,      \* sizes of background traffic
          CommonPorts,      \* and its ports
          FloodSize,        \* packets of a burst
          StartTime,        \* the first time of the clock: 0.0 stands for "no window yet"
          MaxRuns, MaxBatch, MaxPackets, MaxTime    \* bounds

ASSUME NetworkAssumption ==
    /\ {WindowTicks, QueueSize, MaxYield, StartTime} \subseteq Nat \ {0}
    /\ {MaxRuns, MaxBatch, MaxPackets, MaxTime} \subseteq Nat
    /\ PacketSizes \subseteq 64 .. 1500 /\ CommonPorts \subseteq Nat /\ FloodSize \in Nat

Run == 1 .. MaxRuns

VARIABLES armed,            \* BaseModule._running
          worker,           \* _worker_running[0]
          generating,       \* the generator's _running
          loop,             \* where _run stands
          caller,           \* where stop() stands
          run,              \* runs started
          gen,              \* gen[r]: where the generator thread of run r stands
          simTime, batch,   \* its sim_time, and the packets of its batch still to put
          clock,
          queue,
          windowStart, pps, bps, ports,    \* the accumulators
          windows,          \* windows sealed and not yet judged
          put,
          counted,          \* packets taken and accumulated
          sealed,           \* every window sealed: [start, first, last packet]
          skipped,          \* windows that were sealed and never judged
          late              \* generators that began after their run had ended

flags == <<armed, worker, generating>>
threads == <<gen, simTime, batch, clock>>
accumulators == <<windowStart, pps, bps, ports>>
counts == <<counted, sealed>>
vars == <<flags, loop, caller, run, threads, queue, accumulators, windows, put,
          counts, skipped, late, detector>>

Init == /\ InitDetector
        /\ armed = FALSE /\ worker = FALSE /\ generating = FALSE
        /\ loop = "down" /\ caller = "idle" /\ run = 0
        /\ gen = [r \in Run |-> "none"]
        /\ simTime = [r \in Run |-> 0] /\ batch = [r \in Run |-> 0]
        /\ clock = StartTime
        /\ queue = <<>>
        /\ windowStart = 0 /\ pps = 0 /\ bps = 0 /\ ports = {}
        /\ windows = <<>>
        /\ put = <<>> /\ counted = 0 /\ sealed = <<>> /\ skipped = 0 /\ late = {}

-----------------------------------------------------------------------------
(* The generator thread of run r: TrafficGenerator.start()                 *)

\* What a packet is to the windows: background traffic, ...
Normal == [size : PacketSizes, port : CommonPorts]

\* ... and the packets of a burst, "junk TCP SYN packets".
Flood == {[size |-> 64, port |-> 80]}

Kind == Normal \union Flood

\* "self._running = True", whenever the thread gets to it.
GenStart(r) ==
    /\ gen[r] = "born"
    /\ gen' = [gen EXCEPT ![r] = "tick"]
    /\ generating' = TRUE
    /\ clock' = clock + 1
    /\ simTime' = [simTime EXCEPT ![r] = clock']
    /\ late' = IF r = run /\ loop \in {"head", "pump", "judge", "close"}
               THEN late ELSE late \union {r}
    /\ UNCHANGED <<armed, worker, loop, caller, run, batch, queue, accumulators, windows,
                   put, counts, skipped, detector>>

\* Mutant: the flag is only looked at between the packets of a batch.
GenTickEndless(r) ==
    /\ gen[r] = "tick" /\ simTime[r] < MaxTime
    /\ \E n \in 1 .. MaxBatch, flood \in {0, FloodSize} : batch' = [batch EXCEPT ![r] = n + flood]
    /\ gen' = [gen EXCEPT ![r] = "put"]
    /\ UNCHANGED <<flags, loop, caller, run, simTime, clock, queue, accumulators, windows,
                   put, counts, skipped, late, detector>>

\* The head of the loop: a batch of background traffic, with or without a burst.
GenTick(r) ==
    /\ gen[r] = "tick"
    /\ IF generating
       THEN /\ simTime[r] < MaxTime
            /\ \E n \in 1 .. MaxBatch, flood \in {0, FloodSize} :
                   batch' = [batch EXCEPT ![r] = n + flood]
            /\ gen' = [gen EXCEPT ![r] = "put"]
       ELSE gen' = [gen EXCEPT ![r] = "ended"] /\ UNCHANGED batch
    /\ UNCHANGED <<flags, loop, caller, run, simTime, clock, queue, accumulators, windows,
                   put, counts, skipped, late, detector>>

GenPut(r) ==
    /\ gen[r] = "put" /\ generating /\ batch[r] > 0
    /\ Len(queue) < QueueSize /\ Len(put) < MaxPackets
    /\ \E k \in Kind : queue' = Append(queue, [time |-> simTime[r], size |-> k.size, port |-> k.port])
    /\ put' = Append(put, simTime[r])
    /\ batch' = [batch EXCEPT ![r] = @ - 1]
    /\ UNCHANGED <<flags, loop, caller, run, gen, simTime, clock, accumulators, windows,
                   counts, skipped, late, detector>>

\* The batch is done, or given up: because of the flag, or because the queue
\* stayed full for a second.
GenRest(r) ==
    /\ gen[r] = "put"
    /\ ~generating \/ batch[r] = 0 \/ Len(queue) = QueueSize
    /\ simTime' = [simTime EXCEPT ![r] = @ + 1]
    /\ clock' = IF clock < simTime'[r] THEN simTime'[r] ELSE clock
    /\ gen' = [gen EXCEPT ![r] = "tick"]
    /\ batch' = [batch EXCEPT ![r] = 0]
    /\ UNCHANGED <<flags, loop, caller, run, queue, accumulators, windows, put, counts,
                   skipped, late, detector>>

GenStep(r) == GenStart(r) \/ GenTick(r) \/ GenPut(r) \/ GenRest(r)

-----------------------------------------------------------------------------
(* The loop: NetworkPipeline._run()                                        *)

Launch == /\ loop = "launch"
          /\ worker' = TRUE
          /\ gen' = [gen EXCEPT ![run] = "born"]
          /\ loop' = "head"
          /\ UNCHANGED <<armed, generating, caller, run, simTime, batch, clock, queue,
                         accumulators, windows, put, counts, skipped, late, detector>>

Head1 == /\ loop = "head"
         /\ IF armed THEN worker' = TRUE /\ loop' = "pump"
                     ELSE loop' = "close" /\ UNCHANGED worker
         /\ UNCHANGED <<armed, generating, caller, run, threads, queue, accumulators,
                        windows, put, counts, skipped, late, detector>>

\* process_queue() returns: the flag is down, or nothing came for a while.
PumpEnd == /\ loop = "pump"
           /\ ~worker \/ queue = <<>>
           /\ loop' = IF windows = <<>> THEN "head" ELSE "judge"
           /\ UNCHANGED <<flags, caller, run, threads, queue, accumulators, windows, put,
                          counts, skipped, late, detector>>

\* Mutant: a window begins with its first packet.
NextStartAtPacket(time) == time

\* "anchored by the offending packet's timestamp block"
NextStart(time) == time - (time % WindowTicks)

\* Mutant: the packet that opens a window is not counted in it.
CountedInEmpty(fresh) == IF fresh THEN 0 ELSE pps + 1

CountedIn(fresh) == IF fresh THEN 1 ELSE pps + 1

\* One packet. It seals the current window if it lies beyond it and is then the
\* first of the window its time falls in.
Pump ==
    /\ loop = "pump" /\ worker /\ queue # <<>>
    /\ LET packet == Head(queue)
           start == IF windowStart = 0 THEN packet.time ELSE windowStart
           seals == packet.time >= start + WindowTicks
           fresh == seals \/ windowStart = 0
       IN  /\ windowStart' = IF seals THEN NextStart(packet.time) ELSE start
           /\ windows' = IF seals
                         THEN Append(windows, [pps |-> pps, bps |-> bps,
                                               ports |-> Cardinality(ports)])
                         ELSE windows
           /\ sealed' = IF seals
                        THEN Append(sealed, [start |-> start, first |-> counted - pps + 1,
                                             last |-> counted])
                        ELSE sealed
           /\ pps' = CountedIn(fresh)
           /\ bps' = IF fresh THEN packet.size ELSE bps + packet.size
           /\ ports' = (IF fresh THEN {} ELSE ports) \union {packet.port}
    /\ queue' = Tail(queue)
    /\ counted' = counted + 1
    /\ loop' = IF Len(windows') >= MaxYield THEN "judge" ELSE "pump"
    /\ UNCHANGED <<flags, caller, run, threads, put, skipped, late, detector>>

\* The for loop over the windows, with _process_window(): once stopped it
\* leaves the rest. windows_processed is the length of processed; the metrics
\* and the events of a window follow from its verdict and are left out.
Judge ==
    /\ loop = "judge"
    /\ IF windows = <<>> \/ ~armed
       THEN /\ loop' = "head"
            /\ windows' = <<>> /\ skipped' = skipped + Len(windows)
            /\ UNCHANGED detector
       ELSE /\ Process(Head(windows))
            /\ windows' = Tail(windows)
            /\ UNCHANGED <<loop, skipped>>
    /\ UNCHANGED <<flags, caller, run, threads, queue, accumulators, put, counts, late>>

\* An exception out of _process_window().
Fail == /\ loop = "judge" /\ windows # <<>> /\ armed
        /\ loop' = "close"
        /\ windows' = <<>> /\ skipped' = skipped + Len(windows)
        /\ UNCHANGED <<flags, caller, run, threads, queue, accumulators, put, counts, late,
                       detector>>

\* The finally block: "self.generator.stop()", ...
Close == /\ loop = "close"
         /\ worker' = FALSE /\ generating' = FALSE
         /\ loop' = "join"
         /\ UNCHANGED <<armed, caller, run, threads, queue, accumulators, windows, put,
                        counts, skipped, late, detector>>

\* Mutant: the loop does not wait for its generator.
JoinNot == /\ loop = "join"
           /\ loop' = "down"
           /\ UNCHANGED <<flags, caller, run, threads, queue, accumulators, windows, put,
                          counts, skipped, late, detector>>

\* ... then join(timeout=2.0). A generator that has begun and finds its flag
\* down ends within that time: it waits for a second at most.
Join == /\ loop = "join"
        /\ gen[run] \in {"ended", "born"} \/ generating
        /\ loop' = "down"
        /\ UNCHANGED <<flags, caller, run, threads, queue, accumulators, windows, put,
                       counts, skipped, late, detector>>

LoopStep == Launch \/ Head1 \/ PumpEnd \/ Pump \/ Judge \/ Fail \/ Close \/ Join

-----------------------------------------------------------------------------
(* The caller                                                              *)

Start == /\ caller = "idle" /\ loop = "down" /\ run < MaxRuns
         /\ armed' = TRUE /\ loop' = "launch" /\ run' = run + 1
         /\ UNCHANGED <<worker, generating, caller, threads, queue, accumulators, windows,
                        put, counts, skipped, late, detector>>

\* NetworkPipeline.stop(): both flags first, then BaseModule.stop(), which
\* returns at once when the module is not running.
Stop ==
    /\ \/ caller = "idle" /\ caller' = "generator" /\ worker' = FALSE
          /\ UNCHANGED <<generating, armed>>
       \/ caller = "generator" /\ caller' = "base" /\ generating' = FALSE
          /\ UNCHANGED <<worker, armed>>
       \/ caller = "base" /\ caller' = "idle"
          /\ armed' = (armed /\ loop = "down")
          /\ UNCHANGED <<worker, generating>>
    /\ UNCHANGED <<loop, run, threads, queue, accumulators, windows, put, counts, skipped,
                   late, detector>>

Next == Start \/ Stop \/ LoopStep \/ \E r \in Run : GenStep(r)

Spec == Init /\ [][Next]_vars

\* The operating system runs every thread that can go on; a stop begun is
\* carried through.
FairSpec == /\ Spec
            /\ WF_vars(LoopStep)
            /\ WF_vars(caller # "idle" /\ Stop)
            /\ \A r \in Run : WF_vars(GenStep(r))

-----------------------------------------------------------------------------
(* Properties                                                              *)

TypeOK == /\ {armed, worker, generating} \subseteq BOOLEAN
          /\ loop \in {"down", "launch", "head", "pump", "judge", "close", "join"}
          /\ caller \in {"idle", "generator", "base"}
          /\ run \in 0 .. MaxRuns
          /\ gen \in [Run -> {"none", "born", "tick", "put", "ended"}]
          /\ simTime \in [Run -> Nat] /\ batch \in [Run -> Nat] /\ clock \in Nat
          /\ queue \in Seq([time : Nat, size : Nat, port : Nat])
          /\ windowStart \in Nat /\ pps \in Nat /\ bps \in Nat /\ ports \in SUBSET Nat
          /\ windows \in Seq(Window)
          /\ put \in Seq(Nat) /\ counted \in Nat /\ skipped \in Nat
          /\ sealed \in Seq([start : Nat, first : Nat, last : Nat])
          /\ late \subseteq Run

\* Every packet that was put is in the queue or has been counted, in its turn
\* and once: the windows sealed and the one that is open share out the packets
\* counted, without a gap, through stops, failures and restarts.
PacketsAccounted ==
    /\ Len(put) = counted + Len(queue)
    /\ \A i \in 1 .. Len(queue) : queue[i].time = put[counted + i]
    /\ \A i \in 1 .. Len(sealed) :
           /\ sealed[i].first = IF i = 1 THEN 1 ELSE sealed[i - 1].last + 1
           /\ sealed[i].first <= sealed[i].last
    /\ counted = pps + IF sealed = <<>> THEN 0 ELSE sealed[Len(sealed)].last

\* Every window sealed was judged, or waits to be, or fell to a stop or a failure.
NetworkInv == /\ TypeOK
              /\ DetectorInv
              /\ PacketsAccounted
              /\ Len(sealed) = Len(processed) + Len(windows) + skipped
              /\ windows # <<>> => loop \in {"pump", "judge"}

Working == {r \in Run : gen[r] \in {"tick", "put"}}

\* Unless a generator began when its run was over, so that the stop before it
\* was lost, at most one fills the queue, and none once the loop has ended.
OneGenerator ==
    late = {} => /\ Cardinality(Working) <= 1
                 /\ loop = "down" => Working = {}

Within(n, start) == start <= put[n] /\ put[n] < start + WindowTicks

\* With one generator at a time a packet is counted in a window that covers its
\* time, whatever the queue held over a restart. Windows follow each other; from
\* the second on they are aligned and do not overlap.
PacketsInTheirWindow ==
    /\ late = {} =>
           /\ \A i \in 1 .. Len(sealed) :
                  \A n \in sealed[i].first .. sealed[i].last : Within(n, sealed[i].start)
           /\ \A n \in counted - pps + 1 .. counted : Within(n, windowStart)
    /\ \A i \in 2 .. Len(sealed) :
           sealed[i].start >= sealed[i - 1].start + IF i = 2 THEN 1 ELSE WindowTicks
    /\ sealed # <<>> => windowStart % WindowTicks = 0

\* A stop gets through: unless the module is started again, or a generator sets
\* the flag again, the loop ends and every generator that has begun.
Halts == (~armed /\ ~generating) ~>
             \/ armed \/ generating
             \/ loop = "down" /\ Working = {}
=============================================================================
