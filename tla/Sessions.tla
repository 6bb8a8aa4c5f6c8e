------------------------------ MODULE Sessions ------------------------------
(***************************************************************************)
(* api/routes/sessions.py: the requests that start and stop a monitoring   *)
(* session, and AlertManager._persist_alert, which tags an alert with the  *)
(* active one. All of them work on one table of the database, which        *)
(* outlives the process. A query and a commit are each atomic and nothing  *)
(* ties the query of a request to its commit; a commit may fail (database  *)
(* is locked).                                                             *)
(*                                                                         *)
(* A session is its place in the table. A request that is refused (an      *)
(* active session, or none to stop) changes nothing and is left out.       *)
(*                                                                         *)
(* An operator marked "Mutant" is a variant of the operation after it with *)
(* a bug that is easily made; no specification uses it.                    *)
(***************************************************************************)
EXTENDS Integers, Sequences, FiniteSets

CONSTANTS Client,         \* request threads of the API
          Thread,         \* threads whose events raise alerts
          MaxSessions     \* bound: sessions in a behaviour

ASSUME SessionsAssumption == MaxSessions \in Nat

None == 0                 \* no session

VARIABLES sessions,       \* the rows: [over, born]: completed, and how many
                          \* sessions there were when its start looked
          at,             \* at[k]: where k's request is
          saw,            \* saw[k]: what it found there
          doing,          \* doing[t]: where t is in _persist_alert
          tag,            \* tag[t]: the session it found
          truths,         \* truths[t]: what was active since t's event came
          alerts          \* alerts stored: [tag, written, truths]

requests == <<at, saw>>
tagging == <<doing, tag, truths, alerts>>
sessionVars == <<sessions, requests, tagging>>

InitSessions == /\ sessions = <<>>
                /\ at = [k \in Client |-> "idle"]
                /\ saw = [k \in Client |-> 0]
                /\ doing = [t \in Thread |-> "idle"]
                /\ tag = [t \in Thread |-> None]
                /\ truths = [t \in Thread |-> {}]
                /\ alerts = {}

-----------------------------------------------------------------------------

Active == {i \in 1 .. Len(sessions) : ~sessions[i].over}

\* What ".filter(status == 'active').first()" may say: the rows have no order.
Found == IF Active = {} THEN {None} ELSE Active

Goto(k, label) == at' = [at EXCEPT ![k] = label]
Answer(k) == Goto(k, "idle") /\ saw' = [saw EXCEPT ![k] = 0]
Observe == truths' = [t \in Thread |-> IF doing[t] = "idle" THEN {} ELSE truths[t] \union Found']

\* start_session() finds no active session ...
LookForActive(k) ==
    /\ at[k] = "idle"
    /\ Len(sessions) + Cardinality({j \in Client : at[j] = "insert"}) < MaxSessions
    /\ Active = {}
    /\ Goto(k, "insert")
    /\ saw' = [saw EXCEPT ![k] = Len(sessions)]
    /\ UNCHANGED <<sessions, tagging>>

\* ... and inserts one.
Insert(k) == /\ at[k] = "insert"
             /\ sessions' = Append(sessions, [over |-> FALSE, born |-> saw[k]])
             /\ Observe
             /\ Answer(k)
             /\ UNCHANGED <<doing, tag, alerts>>

\* stop_session() takes one that is active ...
LookForStop(k) == /\ at[k] = "idle"
                  /\ \E i \in Active : saw' = [saw EXCEPT ![k] = i]
                  /\ Goto(k, "complete")
                  /\ UNCHANGED <<sessions, tagging>>

\* ... and completes it, although another request may have done so meanwhile.
Complete(k) == /\ at[k] = "complete"
               /\ sessions' = [sessions EXCEPT ![saw[k]].over = TRUE]
               /\ Observe
               /\ Answer(k)
               /\ UNCHANGED <<doing, tag, alerts>>

\* The commit raises: the request is answered with an error.
CommitFails(k) == /\ at[k] \in {"insert", "complete"}
                  /\ Answer(k)
                  /\ UNCHANGED <<sessions, tagging>>

SessionRequest(k) == \/ LookForActive(k) \/ Insert(k)
                     \/ LookForStop(k) \/ Complete(k) \/ CommitFails(k)

-----------------------------------------------------------------------------
(* An alert on its way into the database                                   *)

Receive(t) == /\ doing[t] = "idle"
              /\ doing' = [doing EXCEPT ![t] = "lookup"]
              /\ truths' = [truths EXCEPT ![t] = Found]
              /\ UNCHANGED <<sessions, requests, tag, alerts>>

\* Mutant: the newest session is taken, active or not.
LookUpNewest(t) == /\ doing[t] = "lookup"
                   /\ tag' = [tag EXCEPT ![t] = Len(sessions)]
                   /\ doing' = [doing EXCEPT ![t] = "write"]
                   /\ UNCHANGED <<sessions, requests, truths, alerts>>

LookUp(t) == /\ doing[t] = "lookup"
             /\ \E i \in Found : tag' = [tag EXCEPT ![t] = i]
             /\ doing' = [doing EXCEPT ![t] = "write"]
             /\ UNCHANGED <<sessions, requests, truths, alerts>>

Keep(t, session, ok) ==
    /\ doing' = [doing EXCEPT ![t] = "idle"]
    /\ alerts' = alerts \union {[tag |-> session, written |-> ok, truths |-> truths[t]]}
    /\ tag' = [tag EXCEPT ![t] = None] /\ truths' = [truths EXCEPT ![t] = {}]
    /\ UNCHANGED <<sessions, requests>>

Write(t) == doing[t] = "write" /\ Keep(t, tag[t], TRUE)

\* Any failure on the way is swallowed; the alert is kept in memory, without
\* a session.
Skip(t) == doing[t] \in {"lookup", "write"} /\ Keep(t, None, FALSE)

Tagging(t) == LookUp(t) \/ Write(t) \/ Skip(t)

-----------------------------------------------------------------------------
(* Properties                                                              *)

AlertType == [tag : Nat, written : BOOLEAN, truths : SUBSET Nat]

SessionsTypeOK ==
    /\ sessions \in Seq([over : BOOLEAN, born : Nat])
    /\ saw \in [Client -> Nat]
    /\ doing \in [Thread -> {"idle", "lookup", "write"}]
    /\ tag \in [Thread -> Nat]
    /\ truths \in [Thread -> SUBSET Nat]
    /\ alerts \subseteq AlertType

\* "Only one session can be active at a time" (sessions.py): as far as the
\* code goes. Whenever a session was started, every session committed before
\* its request looked is over: two can be active only where their starts
\* overlapped, and a stop, a crash or a failed commit never adds to them.
StartedAlone == \A j \in 1 .. Len(sessions) :
    \A i \in 1 .. sessions[j].born : i < j /\ sessions[i].over

\* An alert's row names a session that was active at some moment while the
\* alert was processed, and no session only if there was a moment without
\* one, whatever starts and stops meanwhile. An alert that has no row has no
\* session.
TaggedTruly == \A a \in alerts :
    IF a.written THEN a.tag \in a.truths ELSE a.tag = None

\* The strengthening behind both.
SessionsInv ==
    /\ StartedAlone /\ TaggedTruly
    /\ \A k \in Client :
           /\ at[k] = "insert" =>
                  /\ saw[k] <= Len(sessions)
                  /\ \A i \in 1 .. saw[k] : sessions[i].over
           /\ at[k] = "complete" => saw[k] \in 1 .. Len(sessions)
    /\ \A t \in Thread :
           /\ doing[t] # "idle" => Found \subseteq truths[t]
           /\ doing[t] = "write" => tag[t] \in truths[t]
=============================================================================
