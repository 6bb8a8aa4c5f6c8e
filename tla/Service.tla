------------------------------- MODULE Service -------------------------------
(***************************************************************************)
(* The API process: its lifespan (api/main.py), the PluginRegistry, the    *)
(* requests that start, stop and restart modules (routes/modules.py), the  *)
(* modules' threads, whose events raise alerts while the AlertManager is   *)
(* subscribed, and the sessions (Sessions) the alerts are tagged with.     *)
(*                                                                         *)
(* A module is seen from outside. Requests for a module come one at a      *)
(* time, start it only when it has settled, and outlast its loop; then     *)
(* start() is one step and stop() two (ModuleLifecycle has the steps       *)
(* inside, and all other uses). The stop at shutdown may give up its join. *)
(* The server takes no more requests and lets those under way end before   *)
(* it enters the shutdown. Every event here is one that raises an alert.   *)
(* ActuationGateway.start() and stop() are in CommandLedger.               *)
(*                                                                         *)
(* An operator marked "Mutant" is a variant of the operation after it with *)
(* a bug that is easily made; no specification uses it.                    *)
(***************************************************************************)
EXTENDS Sessions

CONSTANTS Packages,       \* the sub-packages of modules/, in order: the module
                          \* ids each one's pipeline.py provides, {} if it has none
          MaxEvents,      \* bound: events in a behaviour
          MaxEnds         \* bound: how often the process ends

Module == UNION {Packages[i] : i \in 1 .. Len(Packages)}
NoModule == "none"

ASSUME ServiceAssumption == /\ MaxEvents \in Nat /\ MaxEnds \in Nat
                            /\ Thread = Module /\ NoModule \notin Module
                            /\ Packages \in Seq(SUBSET Module)
                            /\ \A i \in 1 .. Len(Packages) : IsFiniteSet(Packages[i])
                            /\ \A i, j \in 1 .. Len(Packages) :
                                   i # j => Packages[i] \cap Packages[j] = {}

VARIABLES phase,          \* of lifespan()
          found,          \* packages discover() has been through
          registry,       \* the keys of _modules, in order
          subscribed,     \* the AlertManager is subscribed
          status,         \* of each module
          thread,         \* its thread: none, born, loop
          subject,        \* subject[k]: the module k's request is about
          stopping,       \* modules stop_all() has yet to look at
          joining,        \* the module it waits for
          spared,         \* those it passed while STARTING, or gave up waiting for
          events, ends    \* so far

life == <<phase, found, registry, subscribed>>
modules == <<status, thread>>
shutdown == <<stopping, joining, spared>>
bounds == <<events, ends>>
vars == <<sessionVars, life, modules, subject, shutdown, bounds>>

Init == /\ InitSessions
        /\ phase = "boot" /\ found = 0 /\ registry = <<>> /\ subscribed = FALSE
        /\ status = [m \in Module |-> "stopped"]
        /\ thread = [m \in Module |-> "none"]
        /\ subject = [k \in Client |-> NoModule]
        /\ stopping = <<>> /\ joining = NoModule /\ spared = {}
        /\ events = 0 /\ ends = 0

Registered(m) == \E i \in 1 .. Len(registry) : registry[i] = m

-----------------------------------------------------------------------------
(* lifespan(): startup                                                     *)

\* AlertManager.start()
Subscribe == /\ phase = "boot" /\ ~subscribed
             /\ subscribed' = TRUE
             /\ UNCHANGED <<sessionVars, phase, found, registry, modules, subject, shutdown, bounds>>

\* discover(): the next package; the module classes of its pipeline.py come in
\* the order of their names, which says nothing of their ids.
Discover ==
    /\ phase = "boot" /\ subscribed /\ found < Len(Packages)
    /\ found' = found + 1
    /\ \E s \in [1 .. Cardinality(Packages[found + 1]) -> Packages[found + 1]] :
           /\ \A m \in Packages[found + 1] : \E i \in DOMAIN s : s[i] = m
           /\ registry' = registry \o s
    /\ UNCHANGED <<sessionVars, phase, subscribed, modules, subject, shutdown, bounds>>

Serve == /\ phase = "boot" /\ subscribed /\ found = Len(Packages)
         /\ phase' = "serving"
         /\ UNCHANGED <<sessionVars, found, registry, subscribed, modules, subject,
                        shutdown, bounds>>

-----------------------------------------------------------------------------
(* Requests                                                                *)

RequestSession(k) == /\ phase = "serving"
                     /\ SessionRequest(k)
                     /\ UNCHANGED <<life, modules, subject, shutdown, bounds>>

Start(m) == /\ status' = [status EXCEPT ![m] = "starting"]
            /\ thread' = [thread EXCEPT ![m] = "born"]

\* The part of stop() before its join. The flag it clears is left out: a loop
\* may end at any time, and need not.
Disarm(m) == /\ status' = [status EXCEPT ![m] = "stopping"]
             /\ UNCHANGED thread

\* A request for a module that is not registered is answered with 404.
Free(k, m) == /\ phase = "serving" /\ at[k] = "idle" /\ Registered(m)
              /\ \A j \in Client : subject[j] # m

StartModule(k, m) ==
    /\ Free(k, m)
    /\ status[m] \in {"stopped", "error"} /\ thread[m] = "none"
    /\ Start(m)
    /\ UNCHANGED <<sessionVars, life, subject, shutdown, bounds>>

\* stop_module(), or restart_module().
StopModule(k, m) ==
    /\ Free(k, m)
    /\ status[m] \in {"running", "starting"}
    /\ Disarm(m)
    /\ \E next \in {"stop", "restart"} : Goto(k, next)
    /\ subject' = [subject EXCEPT ![k] = m]
    /\ UNCHANGED <<sessions, saw, tagging, life, shutdown, bounds>>

\* The thread has ended.
Joined(k) ==
    /\ at[k] \in {"stop", "restart"} /\ thread[subject[k]] = "none"
    /\ IF at[k] = "restart" THEN Start(subject[k])
       ELSE status' = [status EXCEPT ![subject[k]] = "stopped"] /\ UNCHANGED thread
    /\ Answer(k)
    /\ subject' = [subject EXCEPT ![k] = NoModule]
    /\ UNCHANGED <<sessions, tagging, life, shutdown, bounds>>

-----------------------------------------------------------------------------
(* The modules' threads                                                    *)

Begin(m) == /\ thread[m] = "born"
            /\ thread' = [thread EXCEPT ![m] = "loop"]
            /\ status' = [status EXCEPT ![m] = "running"]
            /\ UNCHANGED <<sessionVars, life, subject, shutdown, bounds>>

\* The event goes to whoever is subscribed now.
Publish(m) == /\ thread[m] = "loop" /\ doing[m] = "idle"
              /\ events < MaxEvents /\ events' = events + 1
              /\ IF subscribed THEN Receive(m) ELSE UNCHANGED sessionVars
              /\ UNCHANGED <<life, modules, subject, shutdown, ends>>

Alarm(m) == /\ Tagging(m)
            /\ UNCHANGED <<life, modules, subject, shutdown, bounds>>

\* The loop ends, because it was told to or of itself, or it raises.
Leave(m) == /\ thread[m] = "loop" /\ doing[m] = "idle"
            /\ thread' = [thread EXCEPT ![m] = "none"]
            /\ \/ status' = [status EXCEPT ![m] = IF @ = "running" THEN "stopped" ELSE @]
               \/ status' = [status EXCEPT ![m] = "error"]
            /\ UNCHANGED <<sessionVars, life, subject, shutdown, bounds>>

-----------------------------------------------------------------------------
(* lifespan(): shutdown                                                    *)

Shutdown == /\ phase = "serving" /\ \A k \in Client : at[k] = "idle"
            /\ phase' = "closing"
            /\ UNCHANGED <<sessionVars, found, registry, subscribed, modules, subject,
                           shutdown, bounds>>

\* AlertManager.stop()
Unsubscribe == /\ phase = "closing" /\ subscribed
               /\ subscribed' = FALSE
               /\ stopping' = registry
               /\ UNCHANGED <<sessionVars, phase, found, registry, modules, subject,
                              joining, spared, bounds>>

AtNext == phase = "closing" /\ ~subscribed /\ joining = NoModule /\ stopping # <<>>

\* Mutant: the modules are told to stop, and nobody waits for them.
StopNextUnjoined ==
    /\ AtNext
    /\ stopping' = Tail(stopping)
    /\ LET m == Head(stopping)
       IN  IF status[m] = "running"
           THEN Disarm(m) /\ UNCHANGED spared
           ELSE /\ spared' = IF status[m] = "starting" THEN spared \union {m} ELSE spared
                /\ UNCHANGED modules
    /\ UNCHANGED <<sessionVars, life, subject, joining, bounds>>

\* stop_all(): a module that is RUNNING is stopped, any other passed over.
StopNext ==
    /\ AtNext
    /\ stopping' = Tail(stopping)
    /\ LET m == Head(stopping)
       IN  IF status[m] = "running"
           THEN Disarm(m) /\ joining' = m /\ UNCHANGED spared
           ELSE /\ spared' = IF status[m] = "starting" THEN spared \union {m} ELSE spared
                /\ UNCHANGED <<modules, joining>>
    /\ UNCHANGED <<sessionVars, life, subject, bounds>>

\* Mutant: the join has no timeout.
StopReturnsLate == /\ joining # NoModule /\ thread[joining] = "none"
                   /\ status' = [status EXCEPT ![joining] = "stopped"]
                   /\ joining' = NoModule
                   /\ UNCHANGED <<sessionVars, life, thread, subject, stopping,
                                  spared, bounds>>

\* Its join returns: the thread has ended, or ten seconds are over.
StopReturns == /\ joining # NoModule
               /\ status' = [status EXCEPT ![joining] = "stopped"]
               /\ spared' = IF thread[joining] = "none" THEN spared ELSE spared \union {joining}
               /\ joining' = NoModule
               /\ UNCHANGED <<sessionVars, life, thread, subject, stopping, bounds>>

Down == /\ phase = "closing" /\ ~subscribed /\ joining = NoModule /\ stopping = <<>>
        /\ phase' = "down"
        /\ UNCHANGED <<sessionVars, found, registry, subscribed, modules, subject,
                       shutdown, bounds>>

\* The process ends, after its shutdown or by a crash at any time, and is
\* started again. All its threads are gone; the table stays.
ProcessEnds == /\ ends < MaxEnds /\ ends' = ends + 1
               /\ at' = [k \in Client |-> "idle"] /\ saw' = [k \in Client |-> 0]
               /\ doing' = [t \in Thread |-> "idle"]
               /\ tag' = [t \in Thread |-> None] /\ truths' = [t \in Thread |-> {}]
               /\ phase' = "boot" /\ found' = 0 /\ registry' = <<>> /\ subscribed' = FALSE
               /\ status' = [m \in Module |-> "stopped"]
               /\ thread' = [m \in Module |-> "none"]
               /\ subject' = [k \in Client |-> NoModule]
               /\ stopping' = <<>> /\ joining' = NoModule /\ spared' = {}
               /\ UNCHANGED <<sessions, alerts, events>>

Lifespan == \/ Subscribe \/ Discover \/ Serve \/ Unsubscribe \/ StopNext
            \/ StopReturns \/ Down

Next == \/ Lifespan \/ Shutdown \/ ProcessEnds
        \/ \E k \in Client : \/ RequestSession(k) \/ Joined(k)
                             \/ \E m \in Module : StartModule(k, m) \/ StopModule(k, m)
        \/ \E m \in Module : Begin(m) \/ Publish(m) \/ Alarm(m) \/ Leave(m)

Spec == Init /\ [][Next]_vars

\* The event loop runs lifespan() on. Nothing is asked of the modules: a loop
\* may hang in a read of its camera.
FairSpec == Spec /\ WF_vars(Lifespan)
-----------------------------------------------------------------------------
(* Properties                                                              *)

TypeOK == /\ SessionsTypeOK
          /\ at \in [Client -> {"idle", "insert", "complete", "stop", "restart"}]
          /\ phase \in {"boot", "serving", "closing", "down"}
          /\ found \in Nat
          /\ registry \in Seq(Module) /\ stopping \in Seq(Module)
          /\ subscribed \in BOOLEAN
          /\ status \in [Module -> {"stopped", "starting", "running", "stopping", "error"}]
          /\ thread \in [Module -> {"none", "born", "loop"}]
          /\ subject \in [Client -> Module \union {NoModule}]
          /\ joining \in Module \union {NoModule}
          /\ spared \subseteq Module
          /\ events \in Nat /\ ends \in Nat

\* "Stop all currently running modules to release local hardware" (main.py):
\* when the service is down, no thread of a module runs, but of one that was
\* STARTING when stop_all() came by or outlasted its join. And what still
\* runs raises no alert, but for an event published before the AlertManager
\* was stopped.
DownIsQuiet == phase = "down" => \A m \in Module : thread[m] # "none" => m \in spared

\* Why: what stop_all() has been through is over or spared.
Passed(m) == \/ phase = "down"
             \/ /\ phase = "closing" /\ ~subscribed /\ m # joining
                /\ \A i \in 1 .. Len(stopping) : stopping[i] # m
ThreadInv == \A m \in Module :
    /\ thread[m] = "loop" \/ doing[m] = "idle"
    /\ Registered(m) \/ thread[m] = "none"
    /\ thread[m] = "born" => status[m] \in {"starting", "stopping"}
    /\ thread[m] = "loop" => status[m] \in {"running", "stopping"} \/ m \in spared
    /\ status[m] = "starting" => thread[m] = "born"
    /\ status[m] = "running" => thread[m] = "loop"
    /\ thread[m] # "none" /\ status[m] = "stopping" =>
           joining = m \/ \E k \in Client : subject[k] = m
RequestInv == \A k \in Client :
    /\ IF at[k] \in {"stop", "restart"}
       THEN subject[k] \in Module /\ Registered(subject[k]) ELSE subject[k] = NoModule
    /\ phase # "serving" => at[k] = "idle"
ShutdownInv ==
    /\ phase = "serving" => subscribed
    /\ joining # NoModule => phase = "closing" /\ ~subscribed /\ thread[joining] # "born"
    /\ \A m \in Module : Passed(m) /\ thread[m] # "none" => m \in spared
ServiceInv == TypeOK /\ SessionsInv /\ ThreadInv /\ RequestInv /\ ShutdownInv

\* The shutdown ends, whatever the modules' loops do.
ShutsDown == phase = "closing" ~> phase # "closing"
=============================================================================
