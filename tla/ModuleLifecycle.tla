-------------------------- MODULE ModuleLifecycle ---------------------------
(***************************************************************************)
(* One module instance of core/base_module.py: start(), stop() and         *)
(* restart() as the request threads of the API call them through the       *)
(* PluginRegistry, and the background threads that run _safe_run().        *)
(*                                                                         *)
(* Nothing in BaseModule is locked, so every read and write of its         *)
(* attributes that another thread can observe is a step of its own.        *)
(* Instances share no lifecycle state: one stands for each of them.        *)
(*                                                                         *)
(* An operator marked "Mutant" is a variant of the operation after it with *)
(* a bug that is easily made; no specification uses it.                    *)
(***************************************************************************)
EXTENDS Integers, FiniteSets

CONSTANTS Caller,      \* request threads
          Worker,      \* Thread objects start() may create: bounds the starts
          NoWorker,    \* _thread is None
          SlowLoops    \* whether an iteration may outlast stop()'s join

ASSUME LifecycleAssumption == NoWorker \notin Worker /\ SlowLoops \in BOOLEAN

VARIABLES status,      \* status
          running,     \* _running.is_set()
          thread,      \* _thread
          error,       \* _error is not None
          cpc,         \* cpc[k]: where request thread k is
          again,       \* again[k]: k called restart(), so a start() follows
          joins,       \* joins[k]: the thread k is joining
          wpc,         \* wpc[w]: where background thread w is
          clean        \* so far no calls overlapped, no join gave up, and
                       \* start() went ahead only when Settled

attributes == <<status, running, thread, error>>
callers == <<cpc, again, joins>>
vars == <<attributes, callers, wpc, clean>>

ModuleStatus == {"stopped", "starting", "running", "stopping", "error"}
StartPC == {"check", "mark", "reset", "arm", "make", "launch"}
StopPC == {"stopcheck", "stopmark", "disarm", "join", "joining", "joined",
           "settle", "drop"}
\* new: no such Thread; made: not started; begun, loop: inside _safe_run and
\* _run; raised, raising: in its except; ending, closing: in its finally;
\* ended: over.
WorkerPC == {"new", "made", "begun", "loop", "raised", "raising", "ending",
             "closing", "ended"}

TypeOK == /\ status \in ModuleStatus
          /\ running \in BOOLEAN
          /\ thread \in Worker \union {NoWorker}
          /\ error \in BOOLEAN
          /\ cpc \in [Caller -> {"idle"} \union StartPC \union StopPC]
          /\ again \in [Caller -> BOOLEAN]
          /\ joins \in [Caller -> Worker \union {NoWorker}]
          /\ wpc \in [Worker -> WorkerPC]
          /\ clean \in BOOLEAN

Init == /\ status = "stopped"
        /\ running = FALSE
        /\ thread = NoWorker
        /\ error = FALSE
        /\ cpc = [k \in Caller |-> "idle"]
        /\ again = [k \in Caller |-> FALSE]
        /\ joins = [k \in Caller |-> NoWorker]
        /\ wpc = [w \in Worker |-> "new"]
        /\ clean = TRUE

Alive(w) == wpc[w] \notin {"new", "made", "ended"}
Goto(k, label) == cpc' = [cpc EXCEPT ![k] = label]

-----------------------------------------------------------------------------
(* Calls                                                                   *)

Spare == Cardinality({w \in Worker : wpc[w] = "new"}) >
         Cardinality({k \in Caller : cpc[k] \in StartPC \/ again[k]})

Call(k, label, restart) ==
    /\ cpc[k] = "idle"
    /\ label = "check" \/ restart => Spare
    /\ Goto(k, label)
    /\ again' = [again EXCEPT ![k] = restart]
    /\ clean' = (clean /\ \A j \in Caller \ {k} : cpc[j] = "idle")
    /\ UNCHANGED <<attributes, joins, wpc>>

CallStart(k) == Call(k, "check", FALSE)
CallStop(k) == Call(k, "stopcheck", FALSE)
CallRestart(k) == Call(k, "stopcheck", TRUE)

-----------------------------------------------------------------------------
(* start()                                                                 *)

\* What a careful caller waits for before start(): STOPPED, or ERROR and the
\* thread that failed gone.
Settled == \/ status = "stopped"
           \/ status = "error" /\ \A w \in Worker : ~Alive(w)

\* Only RUNNING is refused, with ModuleAlreadyRunningError.
StartCheck(k) == /\ cpc[k] = "check"
                 /\ IF status = "running"
                    THEN Goto(k, "idle") /\ UNCHANGED clean
                    ELSE Goto(k, "mark") /\ clean' = (clean /\ Settled)
                 /\ UNCHANGED <<attributes, again, joins, wpc>>

StartMark(k) == /\ cpc[k] = "mark"
                /\ status' = "starting"
                /\ Goto(k, "reset")
                /\ UNCHANGED <<running, thread, error, again, joins, wpc, clean>>

StartReset(k) == /\ cpc[k] = "reset"
                 /\ error' = FALSE
                 /\ Goto(k, "arm")
                 /\ UNCHANGED <<status, running, thread, again, joins, wpc, clean>>

StartArm(k) == /\ cpc[k] = "arm"
               /\ running' = TRUE
               /\ Goto(k, "make")
               /\ UNCHANGED <<status, thread, error, again, joins, wpc, clean>>

StartMake(k, w) == /\ cpc[k] = "make"
                   /\ wpc[w] = "new"
                   /\ wpc' = [wpc EXCEPT ![w] = "made"]
                   /\ thread' = w
                   /\ Goto(k, "launch")
                   /\ UNCHANGED <<status, running, error, again, joins, clean>>

\* self._thread.start(): the attribute is read again, so it may be another
\* call's thread, or None. Both a started thread and None raise.
StartLaunch(k) ==
    /\ cpc[k] = "launch"
    /\ wpc' = IF thread \in Worker /\ wpc[thread] = "made"
              THEN [wpc EXCEPT ![thread] = "begun"] ELSE wpc
    /\ Goto(k, "idle")
    /\ UNCHANGED <<attributes, again, joins, clean>>

StartStep(k) == \/ StartCheck(k) \/ StartMark(k) \/ StartReset(k) \/ StartArm(k)
                \/ \E w \in Worker : StartMake(k, w)
                \/ StartLaunch(k)

-----------------------------------------------------------------------------
(* stop()                                                                  *)

\* The end of stop(), where restart() goes on to start().
StopReturn(k) == /\ Goto(k, IF again[k] THEN "check" ELSE "idle")
                 /\ again' = [again EXCEPT ![k] = FALSE]

StopCheck(k) == /\ cpc[k] = "stopcheck"
                /\ IF status \in {"running", "starting"}
                   THEN Goto(k, "stopmark") /\ UNCHANGED again
                   ELSE StopReturn(k)
                /\ UNCHANGED <<attributes, joins, wpc, clean>>

StopMark(k) == /\ cpc[k] = "stopmark"
               /\ status' = "stopping"
               /\ Goto(k, "disarm")
               /\ UNCHANGED <<running, thread, error, again, joins, wpc, clean>>

StopDisarm(k) == /\ cpc[k] = "disarm"
                 /\ running' = FALSE
                 /\ Goto(k, "join")
                 /\ UNCHANGED <<status, thread, error, again, joins, wpc, clean>>

\* Mutant: the thread is not joined.
StopJoinSkipped(k) == /\ cpc[k] = "join"
                      /\ Goto(k, "settle")
                      /\ UNCHANGED <<attributes, again, joins, wpc, clean>>

StopJoin(k) == /\ cpc[k] = "join"
               /\ IF thread \in Worker /\ Alive(thread)
                  THEN Goto(k, "joining") /\ joins' = [joins EXCEPT ![k] = thread]
                  ELSE Goto(k, "settle") /\ UNCHANGED joins
               /\ UNCHANGED <<attributes, again, wpc, clean>>

JoinReturn(k) == /\ cpc[k] = "joining"
                 /\ ~Alive(joins[k])
                 /\ Goto(k, "joined")
                 /\ joins' = [joins EXCEPT ![k] = NoWorker]
                 /\ UNCHANGED <<attributes, again, wpc, clean>>

\* Mutant: the join has no timeout.
JoinUntimed(k) == JoinReturn(k)

\* join(timeout=10.0) gives up: a loop iteration may take that long.
JoinTimeout(k) == /\ SlowLoops
                  /\ cpc[k] = "joining"
                  /\ Alive(joins[k])
                  /\ Goto(k, "joined")
                  /\ joins' = [joins EXCEPT ![k] = NoWorker]
                  /\ clean' = FALSE
                  /\ UNCHANGED <<attributes, again, wpc>>

\* self._thread.is_alive() raises when another stop() has dropped the thread.
StopJoined(k) == /\ cpc[k] = "joined"
                 /\ IF thread = NoWorker
                    THEN Goto(k, "idle") /\ again' = [again EXCEPT ![k] = FALSE]
                    ELSE Goto(k, "settle") /\ UNCHANGED again
                 /\ UNCHANGED <<attributes, joins, wpc, clean>>

StopSettle(k) == /\ cpc[k] = "settle"
                 /\ status' = "stopped"
                 /\ Goto(k, "drop")
                 /\ UNCHANGED <<running, thread, error, again, joins, wpc, clean>>

StopDrop(k) == /\ cpc[k] = "drop"
               /\ thread' = NoWorker
               /\ StopReturn(k)
               /\ UNCHANGED <<status, running, error, joins, wpc, clean>>

StopStep(k) == \/ StopCheck(k) \/ StopMark(k) \/ StopDisarm(k) \/ StopJoin(k)
               \/ JoinReturn(k) \/ JoinTimeout(k) \/ StopJoined(k)
               \/ StopSettle(k) \/ StopDrop(k)

-----------------------------------------------------------------------------
(* _safe_run()                                                             *)

WGoto(w, label) == wpc' = [wpc EXCEPT ![w] = label]

\* Mutant: the status is left at STARTING.
BeginQuietly(w) == /\ wpc[w] = "begun"
                   /\ WGoto(w, "loop")
                   /\ UNCHANGED <<attributes, callers, clean>>

Begin(w) == /\ wpc[w] = "begun"
            /\ status' = "running"
            /\ WGoto(w, "loop")
            /\ UNCHANGED <<running, thread, error, callers, clean>>

\* Mutant: the loop tests the status instead of the flag.
LoopExitOnStopping(w) == /\ wpc[w] = "loop"
                         /\ status = "stopping"
                         /\ WGoto(w, "ending")
                         /\ UNCHANGED <<attributes, callers, clean>>

\* _run() leaves its loop because the flag was cleared.
LoopExit(w) == /\ wpc[w] = "loop"
               /\ ~running
               /\ WGoto(w, "ending")
               /\ UNCHANGED <<attributes, callers, clean>>

\* _run() returns although the flag is set (the source cannot be opened, or
\* has no more frames).
LoopReturn(w) == /\ wpc[w] = "loop"
                 /\ running
                 /\ WGoto(w, "ending")
                 /\ UNCHANGED <<attributes, callers, clean>>

LoopRaise(w) == /\ wpc[w] = "loop"
                /\ WGoto(w, "raised")
                /\ UNCHANGED <<attributes, callers, clean>>

KeepError(w) == /\ wpc[w] = "raised"
                /\ error' = TRUE
                /\ WGoto(w, "raising")
                /\ UNCHANGED <<status, running, thread, callers, clean>>

MarkError(w) == /\ wpc[w] = "raising"
                /\ status' = "error"
                /\ WGoto(w, "ending")
                /\ UNCHANGED <<running, thread, error, callers, clean>>

\* Mutant: the finally is left out.
EndForgotten(w) == /\ wpc[w] = "ending"
                   /\ WGoto(w, "ended")
                   /\ UNCHANGED <<attributes, callers, clean>>

\* The test of the finally block, and its assignment.
End(w) == /\ wpc[w] = "ending"
          /\ WGoto(w, IF status = "running" THEN "closing" ELSE "ended")
          /\ UNCHANGED <<attributes, callers, clean>>

Close(w) == /\ wpc[w] = "closing"
            /\ status' = "stopped"
            /\ WGoto(w, "ended")
            /\ UNCHANGED <<running, thread, error, callers, clean>>

\* What a thread does of itself once it runs: leaving a loop it may stay in
\* for ever, or raising, is not among it.
WorkerStep(w) == Begin(w) \/ LoopExit(w) \/ KeepError(w) \/ MarkError(w) \/ End(w) \/ Close(w)

-----------------------------------------------------------------------------

Next == \/ \E k \in Caller : \/ CallStart(k) \/ CallStop(k) \/ CallRestart(k)
                             \/ StartStep(k) \/ StopStep(k)
        \/ \E w \in Worker : WorkerStep(w) \/ LoopReturn(w) \/ LoopRaise(w)

Spec == Init /\ [][Next]_vars

\* The scheduler runs every thread that can run, and _run() keeps its contract
\* of testing the flag on each iteration. Calls need not be made.
FairSpec == /\ Spec
            /\ \A k \in Caller : WF_vars(StartStep(k) \/ StopStep(k))
            /\ \A w \in Worker : WF_vars(WorkerStep(w))
-----------------------------------------------------------------------------
(* Properties                                                              *)

InRun(w) == wpc[w] \in {"begun", "loop"}
Idle == \A k \in Caller : cpc[k] = "idle"

\* Whoever calls what, and whenever: a module shown as RUNNING has a thread
\* behind it, so that no crash or return leaves a dead module RUNNING.
RunningHasThread == status = "running" => \E w \in Worker : Alive(w)

\* start() raises ModuleAlreadyRunningError if the module is already active
\* (its docstring): two threads are never in _run() at the same time.
OneLoop == \A v, w \in Worker : InRun(v) /\ InRun(w) => v = w

\* STOPPED: "Not running, no resources allocated" (ModuleStatus), once no call
\* is under way.
StoppedHoldsNothing == Idle /\ status = "stopped" => \A w \in Worker : ~InRun(w)

\* Both hold while calls come one at a time, joins succeed, and nobody starts
\* a module that is STARTING, or in ERROR with the failed thread not yet gone;
\* and then an ERROR is never shown without the exception behind it.
CleanUse == clean => OneLoop /\ StoppedHoldsNothing /\ (status = "error" => error)

\* Why: the inductive invariant of ModuleLifecycleProofs. In careful use one
\* caller acts at a time; only the thread in _thread can be alive, and it is
\* over whenever a start is under way, a stop has joined, or STOPPED is shown.
Quiet == {"mark", "reset", "arm", "make", "launch", "joined", "settle", "drop"}
OneCaller == \A j, k \in Caller : cpc[j] # "idle" /\ cpc[k] # "idle" => j = k
ThreadInv == \A w \in Worker :
    /\ Alive(w) \/ wpc[w] = "made" => thread = w
    /\ Alive(w) => status # "stopped" /\ \A k \in Caller : cpc[k] \notin Quiet
    /\ Alive(w) /\ status = "error" => wpc[w] = "ending"
    /\ wpc[w] = "made" => \E k \in Caller : cpc[k] = "launch"
    /\ wpc[w] = "raising" => error
CallInv == \A k \in Caller :
    /\ cpc[k] \in {"reset", "arm", "make", "launch"} => status = "starting"
    /\ cpc[k] = "joining" => joins[k] = thread
CleanInv == clean => OneCaller /\ ThreadInv /\ CallInv /\ (status = "error" => error)
LifecycleInv == TypeOK /\ RunningHasThread /\ CleanInv

\* Once the flag stays cleared, every thread leaves _safe_run(), also one that
\* outlived its stop's join or was started twice.
Quiesces == <>[]~running => <>[](\A w \in Worker : ~Alive(w))

\* In such a use no call leaves the module STARTING or STOPPING for ever.
CleanSettles == []clean =>
    /\ status = "starting" ~> status # "starting"
    /\ status = "stopping" ~> status # "stopping"

\* Every call returns, whatever the others do meanwhile: no two stops wait for
\* each other, and a stop whose thread another start has armed again gives it up.
CallsReturn == \A k \in Caller : cpc[k] # "idle" ~> cpc[k] = "idle"
=============================================================================
