--------------------------- MODULE CommandLedger ----------------------------
(***************************************************************************)
(* The SQLite command ledger (core/command_bus.py), the API routes that    *)
(* propose and approve commands, and the polling threads of the            *)
(* ActuationGateway (core/actuation_gateway.py).                           *)
(*                                                                         *)
(* Every ledger call holds CommandBus._lock for its whole transaction, so  *)
(* each is one step; a gateway thread takes several, and API calls, a      *)
(* stop, another gateway thread or the end of the process come between.    *)
(* The table outlives the process; the threads and the flag do not.        *)
(*                                                                         *)
(* An operator marked "Mutant" is a variant of the operation after it with *)
(* a bug that is easily made; no specification uses it.                    *)
(***************************************************************************)
EXTENDS Integers, FiniteSets

CONSTANTS Command,        \* command identifiers, the primary key
          NoCommand,      \* a poller that has no command in hand
          Poller,         \* the threads one process may create: one per start()
          MaxFaults       \* bound: crashes and database errors in a behaviour

ASSUME LedgerAssumption == /\ IsFiniteSet(Poller)
                           /\ NoCommand \notin Command
                           /\ MaxFaults \in Nat

VARIABLES state,          \* state[c]: the state column, "absent" without a row
          running,        \* ActuationGateway._running
          pc,             \* pc[p]: where gateway thread p is
          batch,          \* batch[p]: rows of its last poll not yet looked at
          cmd,            \* cmd[p]: the command execute_once works on
          ack,            \* ack[p]: the state its last transition returned
          claims,         \* claims[c]: times execute_once went on to simulate c
          announced,      \* announced[c][s]: COMMAND_EXECUTED events saying s
          faults          \* crashes and database errors so far

poller == <<pc, batch, cmd, ack>>
vars == <<state, running, pc, batch, cmd, ack, claims, announced, faults>>

Terminal == {"completed", "failed"}
State == {"absent", "pending", "approved", "executing"} \union Terminal
PC == {"new", "poll", "next", "claim", "finish", "publish", "dead"}

TypeOK == /\ state \in [Command -> State]
          /\ running \in BOOLEAN
          /\ pc \in [Poller -> PC]
          /\ batch \in [Poller -> SUBSET Command]
          /\ cmd \in [Poller -> Command \union {NoCommand}]
          /\ ack \in [Poller -> Terminal \union {"none"}]
          /\ claims \in [Command -> Nat]
          /\ announced \in [Command -> [Terminal -> Nat]]
          /\ faults \in 0 .. MaxFaults

Init == /\ state = [c \in Command |-> "absent"]
        /\ running = FALSE
        /\ pc = [p \in Poller |-> "new"]
        /\ batch = [p \in Poller |-> {}]
        /\ cmd = [p \in Poller |-> NoCommand]
        /\ ack = [p \in Poller |-> "none"]
        /\ claims = [c \in Command |-> 0]
        /\ announced = [c \in Command |-> [s \in Terminal |-> 0]]
        /\ faults = 0

-----------------------------------------------------------------------------
(* CommandBus                                                              *)

ValidTransitions == [pending   |-> {"approved", "failed"},
                     approved  |-> {"executing", "failed"},
                     executing |-> {"completed", "failed"}]

\* Mutant: the early return for terminal states is dropped.
TransitionStateFromTerminal(s, new) ==
    IF s \in {"absent", new} THEN s
    ELSE IF s \notin Terminal /\ new \in ValidTransitions[s] THEN new ELSE "failed"

\* Mutant: a repeated approval puts an executing command back in the queue.
TransitionStateRetry(s, new) ==
    IF s \in {"absent", new} \union Terminal THEN s
    ELSE IF new \in ValidTransitions[s] \union {"approved"} THEN new ELSE "failed"

\* The state transition_state leaves a command in state s in, which is also
\* the one it returns: a missing row, the same state and a terminal state stay,
\* and a transition the table does not have makes the command fail.
TransitionState(s, new) ==
    IF s \in {"absent", new} \union Terminal THEN s
    ELSE IF new \in ValidTransitions[s] THEN new ELSE "failed"

\* A second INSERT of an identifier violates the primary key: nothing changes.
Propose(c) == /\ state[c] = "absent"
              /\ state' = [state EXCEPT ![c] = "pending"]
              /\ UNCHANGED <<running, poller, claims, announced, faults>>

\* The approve route, which a client may call at any time and repeat.
Approve(c) == /\ state' = [state EXCEPT ![c] = TransitionState(@, "approved")]
              /\ UNCHANGED <<running, poller, claims, announced, faults>>

-----------------------------------------------------------------------------
(* ActuationGateway                                                        *)

\* start() returns at once while the flag is set; otherwise it sets the flag
\* and starts a thread, even when an earlier one has outlived stop()'s join.
Start(p) == /\ ~running
            /\ pc[p] = "new"
            /\ running' = TRUE
            /\ pc' = [pc EXCEPT ![p] = "poll"]
            /\ UNCHANGED <<state, batch, cmd, ack, claims, announced, faults>>

\* stop() clears the flag. Its join gives up after two seconds, so nothing
\* that follows may rely on the thread having ended.
Stop == /\ running
        /\ running' = FALSE
        /\ UNCHANGED <<state, poller, claims, announced, faults>>

\* Mutant: the loop does not look at the flag.
PollUnguarded(p) == /\ pc[p] = "poll"
                    /\ batch' = [batch EXCEPT ![p] = {c \in Command : state[c] = "approved"}]
                    /\ pc' = [pc EXCEPT ![p] = "next"]
                    /\ UNCHANGED <<state, running, cmd, ack, claims, announced, faults>>

\* The head of _run's loop: read the approved commands, or leave.
Poll(p) == /\ pc[p] = "poll"
           /\ running
           /\ batch' = [batch EXCEPT ![p] = {c \in Command : state[c] = "approved"}]
           /\ pc' = [pc EXCEPT ![p] = "next"]
           /\ UNCHANGED <<state, running, cmd, ack, claims, announced, faults>>

Exit(p) == /\ pc[p] = "poll"
           /\ ~running
           /\ pc' = [pc EXCEPT ![p] = "dead"]
           /\ UNCHANGED <<state, running, batch, cmd, ack, claims, announced, faults>>

\* The for loop over the rows, left early when the flag has been cleared.
Take(p, c) == /\ pc[p] = "next"
              /\ running
              /\ c \in batch[p]
              /\ batch' = [batch EXCEPT ![p] = @ \ {c}]
              /\ cmd' = [cmd EXCEPT ![p] = c]
              /\ pc' = [pc EXCEPT ![p] = "claim"]
              /\ UNCHANGED <<state, running, ack, claims, announced, faults>>

EndBatch(p) == /\ pc[p] = "next"
               /\ batch[p] = {} \/ ~running
               /\ batch' = [batch EXCEPT ![p] = {}]
               /\ pc' = [pc EXCEPT ![p] = "poll"]
               /\ UNCHANGED <<state, running, cmd, ack, claims, announced, faults>>

\* execute_once up to the sleep. Rows are always dry-run, so its first branch
\* never runs. Any returned state other than FAILED goes on to simulate c.
Claim(p) ==
    LET c == cmd[p]
        s == TransitionState(state[c], "executing")
    IN  /\ pc[p] = "claim"
        /\ state' = [state EXCEPT ![c] = s]
        /\ IF s = "failed"
           THEN /\ pc' = [pc EXCEPT ![p] = "next"]
                /\ UNCHANGED claims
           ELSE /\ pc' = [pc EXCEPT ![p] = "finish"]
                /\ claims' = [claims EXCEPT ![c] = @ + 1]
        /\ UNCHANGED <<running, batch, cmd, ack, announced, faults>>

\* Mutant: a command that did not come back completed is not announced at all.
FinishSilently(p) ==
    LET c == cmd[p]
        s == TransitionState(state[c], "completed")
    IN  /\ pc[p] = "finish"
        /\ state' = [state EXCEPT ![c] = s]
        /\ ack' = [ack EXCEPT ![p] = s]
        /\ pc' = [pc EXCEPT ![p] = IF s = "completed" THEN "publish" ELSE "next"]
        /\ UNCHANGED <<running, batch, cmd, claims, announced, faults>>

\* Mutant: a stop during the sleep abandons the command.
FinishUnlessStopped(p) ==
    LET c == cmd[p]
        s == IF running THEN TransitionState(state[c], "completed") ELSE state[c]
    IN  /\ pc[p] = "finish"
        /\ state' = [state EXCEPT ![c] = s]
        /\ ack' = [ack EXCEPT ![p] = IF running THEN s ELSE "none"]
        /\ pc' = [pc EXCEPT ![p] = IF running THEN "publish" ELSE "poll"]
        /\ UNCHANGED <<running, batch, cmd, claims, announced, faults>>

\* execute_once after the sleep: the device is taken to have acknowledged.
Finish(p) ==
    LET c == cmd[p]
        s == TransitionState(state[c], "completed")
    IN  /\ pc[p] = "finish"
        /\ state' = [state EXCEPT ![c] = s]
        /\ ack' = [ack EXCEPT ![p] = s]
        /\ pc' = [pc EXCEPT ![p] = "publish"]
        /\ UNCHANGED <<running, batch, cmd, claims, announced, faults>>

\* execute_once announces COMMAND_EXECUTED with whatever state came back.
Publish(p) ==
    /\ pc[p] = "publish"
    /\ announced' = [announced EXCEPT ![cmd[p]][ack[p]] = @ + 1]
    /\ ack' = [ack EXCEPT ![p] = "none"]
    /\ pc' = [pc EXCEPT ![p] = "next"]
    /\ UNCHANGED <<state, running, batch, cmd, claims, faults>>

-----------------------------------------------------------------------------
(* Faults                                                                  *)

\* Mutant: the exception ends the thread (the try is outside the loop).
DatabaseErrorIsFatal(p) == /\ faults < MaxFaults
                           /\ pc[p] \in {"claim", "finish"}
                           /\ faults' = faults + 1
                           /\ batch' = [batch EXCEPT ![p] = {}]
                           /\ pc' = [pc EXCEPT ![p] = "dead"]
                           /\ UNCHANGED <<state, running, cmd, ack, claims, announced>>

\* A ledger call of the thread raises (the database is locked, say): nothing
\* is written, and _run gives the rest of the batch up until its next poll.
DatabaseError(p) == /\ faults < MaxFaults
                    /\ pc[p] \in {"claim", "finish"}
                    /\ faults' = faults + 1
                    /\ batch' = [batch EXCEPT ![p] = {}]
                    /\ pc' = [pc EXCEPT ![p] = "poll"]
                    /\ UNCHANGED <<state, running, cmd, ack, claims, announced>>

\* The process ends, orderly or not, with its daemon threads; a new one has
\* the same table, and threads and a flag of its own.
Crash == /\ faults < MaxFaults
         /\ faults' = faults + 1
         /\ running' = FALSE
         /\ pc' = [p \in Poller |-> "new"]
         /\ batch' = [p \in Poller |-> {}]
         /\ cmd' = [p \in Poller |-> NoCommand]
         /\ ack' = [p \in Poller |-> "none"]
         /\ UNCHANGED <<state, claims, announced>>

-----------------------------------------------------------------------------

PollerStep(p) == \/ Poll(p) \/ Exit(p) \/ EndBatch(p)
                 \/ \E c \in Command : Take(p, c)
                 \/ Claim(p) \/ Finish(p) \/ Publish(p)

Next == \/ \E c \in Command : Propose(c) \/ Approve(c)
        \/ \E p \in Poller : Start(p) \/ PollerStep(p) \/ DatabaseError(p)
        \/ Stop
        \/ Crash

Spec == Init /\ [][Next]_vars

\* The operating system runs every gateway thread; nothing forces a client, an
\* operator or a fault.
FairSpec == Spec /\ \A p \in Poller : WF_vars(PollerStep(p))
-----------------------------------------------------------------------------
(* Properties                                                              *)

InFlight(c) == {p \in Poller : pc[p] \in {"finish", "publish"} /\ cmd[p] = c}
Events(c) == announced[c]["completed"] + announced[c]["failed"]

\* A command is simulated at most once per gateway thread, through crashes and
\* database errors: with the one start() per process that the application's
\* lifespan makes, at most once. A second thread may execute it again because
\* it polled before the first one's EXECUTING was written (execute_once 83-85).
ClaimsBounded == \A c \in Command : claims[c] <= Cardinality(Poller)

\* Each simulated execution is announced at most once, and no announcement
\* is made of a command that was not simulated; only a crash or a database
\* error between the EXECUTING write and the publish loses one.
AnnouncementsAccounted ==
    \A c \in Command :
        LET accounted == Events(c) + Cardinality(InFlight(c))
        IN  accounted <= claims[c] /\ (faults = 0 => accounted = claims[c])

\* The state an announcement carries is the command's state from then on: a
\* subscriber never learns of an outcome that the ledger contradicts.
AnnouncedOutcomeHolds ==
    \A c \in Command, s \in Terminal : announced[c][s] > 0 => state[c] = s

\* Without faults a command in EXECUTING is in the hands of a gateway thread,
\* also after a stop whose join gave up and a new start.
ExecutingIsHeld ==
    \A c \in Command : faults = 0 /\ state[c] = "executing" =>
        \E p \in Poller : pc[p] = "finish" /\ cmd[p] = c

\* The outcomes announced of a command.
Told(c) == {s \in Terminal : announced[c][s] > 0}

\* The ledger and its announcements keep the abstract promise: the stages come
\* in order, final ones stay, and only a final stage is announced.
Lifecycle == INSTANCE CommandLifecycle
             WITH stage <- state,
                  reports <- [c \in Command |-> Told(c)]
ImplementsLifecycle == Lifecycle!Spec

\* While the gateway stays started, an approved command is taken up, whatever
\* faults came before and however many other commands are approved.
ApprovedIsTaken ==
    <>[]running => \A c \in Command : state[c] = "approved" ~> state[c] # "approved"

\* Once stopped for good the gateway's threads all end, also with approved
\* commands left in the batch they were working on.
StopDrains ==
    <>[]~running => <>[](\A p \in Poller : pc[p] \in {"new", "dead"})

\* The inductive strengthening behind the theorems of CommandLedgerProofs.
Holders(c) == {p \in Poller : \/ c \in batch[p]
                              \/ pc[p] = "claim" /\ cmd[p] = c}
Waiting == {"absent", "pending", "approved"}
Unclaimed(c) == state[c] \in Waiting
InHand == {"claim", "finish", "publish"}

HandInv == \A p \in Poller :
    /\ pc[p] \in InHand => cmd[p] \in Command
    /\ pc[p] = "claim" => /\ cmd[p] \notin batch[p]
                          /\ state[cmd[p]] \notin {"absent", "pending"}
    /\ pc[p] = "finish" => state[cmd[p]] \notin Waiting
    /\ pc[p] = "publish" => ack[p] \in Terminal /\ state[cmd[p]] = ack[p]
    /\ \A c \in batch[p] : state[c] \notin {"absent", "pending"}
ClaimInv == \A c \in Command :
    IF Unclaimed(c) THEN claims[c] = 0
    ELSE claims[c] + Cardinality(Holders(c)) <= Cardinality(Poller)
LedgerInv == /\ TypeOK
             /\ HandInv
             /\ ClaimInv
             /\ AnnouncedOutcomeHolds
=============================================================================
