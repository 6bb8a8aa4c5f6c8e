---------------------------- MODULE ServiceProofs ----------------------------
(***************************************************************************)
(* Theorems about Service and Sessions, for any clients, packages, modules *)
(* and bounds.                                                             *)
(***************************************************************************)
EXTENDS Service, SequenceTheorems, FiniteSetTheorems, TLAPS

Row == [over : BOOLEAN, born : Nat]
Label == {"idle", "insert", "complete", "stop", "restart"}

-----------------------------------------------------------------------------
(* The sessions                                                            *)

\* What the steps of the sessions need and keep.
Tables == SessionsTypeOK /\ at \in [Client -> Label] /\ SessionsInv

LEMMA FoundTyped ==
    ASSUME Tables
    PROVE  /\ Len(sessions) \in Nat
           /\ Found \subseteq 0 .. Len(sessions) /\ Found \subseteq Nat
           /\ Active = {} => \A i \in 1 .. Len(sessions) : sessions[i].over
  <1>1. Len(sessions) \in Nat
    BY LenProperties DEF Tables, SessionsTypeOK
  <1> QED
    BY <1>1 DEF Found, Active, None

\* A request that answers, without a word to the table.
LEMMA AskKeeps ==
    ASSUME Tables, NEW k \in Client,
           LookForActive(k) \/ LookForStop(k) \/ CommitFails(k)
    PROVE  Tables' /\ UNCHANGED <<sessions, tagging>>
           /\ (\A j \in Client : j # k => at'[j] = at[j])
           /\ at[k] \in {"idle", "insert", "complete"} /\ at'[k] \in {"idle", "insert", "complete"}
  <1>0. /\ at \in [Client -> Label] /\ saw \in [Client -> Nat] /\ Len(sessions) \in Nat
        /\ \A j \in Client :
               /\ at[j] = "insert" => /\ saw[j] <= Len(sessions)
                                      /\ \A i \in 1 .. saw[j] : sessions[i].over
               /\ at[j] = "complete" => saw[j] \in 1 .. Len(sessions)
    BY FoundTyped DEF Tables, SessionsTypeOK, SessionsInv
  <1>1. UNCHANGED <<sessions, tagging>>
    BY DEF LookForActive, LookForStop, CommitFails
  <1>2. \/ /\ at[k] = "idle" /\ at' = [at EXCEPT ![k] = "insert"]
           /\ saw' = [saw EXCEPT ![k] = Len(sessions)]
           /\ \A i \in 1 .. Len(sessions) : sessions[i].over
        \/ /\ at[k] = "idle" /\ at' = [at EXCEPT ![k] = "complete"]
           /\ \E i \in 1 .. Len(sessions) : saw' = [saw EXCEPT ![k] = i]
        \/ /\ at[k] \in {"insert", "complete"} /\ at' = [at EXCEPT ![k] = "idle"]
           /\ saw' = [saw EXCEPT ![k] = 0]
    BY FoundTyped DEF LookForActive, LookForStop, CommitFails, Goto, Answer, Active
  <1>3. /\ at' \in [Client -> Label] /\ saw' \in [Client -> Nat]
        /\ \A j \in Client : j # k => at'[j] = at[j] /\ saw'[j] = saw[j]
        /\ at[k] \in {"idle", "insert", "complete"} /\ at'[k] \in {"idle", "insert", "complete"}
    BY <1>0, <1>2 DEF Label
  <1>4. \A j \in Client :
            /\ at'[j] = "insert" => /\ saw'[j] <= Len(sessions)
                                    /\ \A i \in 1 .. saw'[j] : sessions[i].over
            /\ at'[j] = "complete" => saw'[j] \in 1 .. Len(sessions)
    BY <1>0, <1>2, <1>3
  <1>5. SessionsInv'
    BY <1>1, <1>4 DEF Tables, SessionsInv, StartedAlone, TaggedTruly, Found, Active, tagging
  <1> QED
    BY <1>1, <1>3, <1>5 DEF Tables, SessionsTypeOK, tagging

\* A request that commits a row.
LEMMA CommitKeeps ==
    ASSUME Tables, NEW k \in Client, Insert(k) \/ Complete(k)
    PROVE  Tables' /\ UNCHANGED <<doing, tag, alerts>>
           /\ (\A j \in Client : j # k => at'[j] = at[j])
           /\ at[k] \in {"idle", "insert", "complete"} /\ at'[k] \in {"idle", "insert", "complete"}
  <1>0. /\ sessions \in Seq(Row) /\ Len(sessions) \in Nat
        /\ at \in [Client -> Label] /\ saw \in [Client -> Nat]
        /\ truths \in [Thread -> SUBSET Nat]
        /\ StartedAlone
        /\ \A j \in Client :
               /\ at[j] = "insert" => /\ saw[j] <= Len(sessions)
                                      /\ \A i \in 1 .. saw[j] : sessions[i].over
               /\ at[j] = "complete" => saw[j] \in 1 .. Len(sessions)
        /\ \A t \in Thread : doing[t] = "write" => tag[t] \in truths[t]
    BY FoundTyped DEF Tables, SessionsTypeOK, SessionsInv, Row
  <1>1. /\ UNCHANGED <<doing, tag, alerts>> /\ Observe
        /\ at' = [at EXCEPT ![k] = "idle"] /\ saw' = [saw EXCEPT ![k] = 0]
        /\ at[k] \in {"insert", "complete"}
    BY DEF Insert, Complete, Answer, Goto
  <1>2. /\ at' \in [Client -> Label] /\ saw' \in [Client -> Nat] /\ at'[k] = "idle"
        /\ \A j \in Client : j # k => at'[j] = at[j] /\ saw'[j] = saw[j]
    BY <1>0, <1>1 DEF Label
  <1>3. /\ sessions' \in Seq(Row) /\ Len(sessions') \in Nat /\ Len(sessions) <= Len(sessions')
        /\ \A i \in 1 .. Len(sessions) : /\ sessions'[i].born = sessions[i].born
                                         /\ sessions[i].over => sessions'[i].over
        /\ \A j \in 1 .. Len(sessions') \ 1 .. Len(sessions) :
               /\ j = Len(sessions) + 1 /\ sessions'[j].born <= Len(sessions)
               /\ \A i \in 1 .. sessions'[j].born : sessions[i].over
    <2>1. CASE Insert(k)
      <3> DEFINE row == [over |-> FALSE, born |-> saw[k]]
      <3>1. row \in Row /\ row.born = saw[k] /\ sessions' = Append(sessions, row)
        BY <1>0, <2>1 DEF Insert, Row
      <3> HIDE DEF row
      <3>2. /\ sessions' \in Seq(Row) /\ Len(sessions') = Len(sessions) + 1
            /\ \A i \in 1 .. Len(sessions) : sessions'[i] = sessions[i]
            /\ sessions'[Len(sessions) + 1] = row
        BY <1>0, <3>1, AppendProperties
      <3>3. saw[k] <= Len(sessions) /\ \A i \in 1 .. saw[k] : sessions[i].over
        BY <1>0, <2>1 DEF Insert
      <3>4. \A j \in 1 .. Len(sessions') \ 1 .. Len(sessions) : j = Len(sessions) + 1
        BY <1>0, <3>2
      <3> QED
        BY <1>0, <3>1, <3>2, <3>3, <3>4
    <2>2. CASE Complete(k)
      <3>1. saw[k] \in 1 .. Len(sessions)
            /\ sessions' = [sessions EXCEPT ![saw[k]] = [sessions[saw[k]] EXCEPT !.over = TRUE]]
        BY <1>0, <2>2 DEF Complete
      <3> DEFINE row == [sessions[saw[k]] EXCEPT !.over = TRUE]
      <3>2. sessions[saw[k]] \in Row
        BY <1>0, <3>1, ElementOfSeq
      <3>3. row \in Row /\ row.over = TRUE /\ row.born = sessions[saw[k]].born
        BY <3>2 DEF Row
      <3> HIDE DEF row
      <3>4. sessions' = [sessions EXCEPT ![saw[k]] = row]
        BY <3>1 DEF row
      <3>5. /\ sessions' \in Seq(Row) /\ Len(sessions') = Len(sessions)
            /\ \A j \in 1 .. Len(sessions) :
                   sessions'[j] = IF j = saw[k] THEN row ELSE sessions[j]
        <4>1. \A i \in 1 .. Len(sessions), e \in Row :
                  /\ [sessions EXCEPT ![i] = e] \in Seq(Row)
                  /\ Len([sessions EXCEPT ![i] = e]) = Len(sessions)
                  /\ \A j \in 1 .. Len(sessions) :
                         [sessions EXCEPT ![i] = e][j] = IF j = i THEN e ELSE sessions[j]
          BY <1>0, ExceptSeq
        <4>2. PICK i \in 1 .. Len(sessions) : i = saw[k]
          BY <3>1
        <4>3. sessions' = [sessions EXCEPT ![i] = row]
          BY <3>4, <4>2
        <4> QED
          BY <3>3, <4>1, <4>2, <4>3
      <3> QED
        BY <1>0, <3>3, <3>5
    <2> QED
      BY <2>1, <2>2
  <1>4. StartedAlone'
    <2> SUFFICES ASSUME NEW j \in 1 .. Len(sessions'), NEW i \in 1 .. sessions'[j].born
                 PROVE  i < j /\ sessions'[i].over
      BY DEF StartedAlone
    <2>1. CASE j \in 1 .. Len(sessions)
      <3>1. i \in 1 .. sessions[j].born /\ i < j /\ sessions[i].over
        BY <1>0, <1>3, <2>1 DEF StartedAlone
      <3>2. i \in 1 .. Len(sessions)
        BY <1>0, <2>1, <3>1
      <3> QED
        BY <1>3, <3>1, <3>2
    <2>2. CASE j \notin 1 .. Len(sessions)
      <3>1. /\ j = Len(sessions) + 1 /\ sessions'[j].born <= Len(sessions)
            /\ sessions[i].over
        BY <1>3, <2>2
      <3>2. sessions'[j] \in Row
        BY <1>3, ElementOfSeq
      <3>3. i \in 1 .. Len(sessions)
        BY <1>0, <3>1, <3>2 DEF Row
      <3> QED
        BY <1>0, <1>3, <3>1, <3>3
    <2> QED
      BY <2>1, <2>2
  <1>5. \A j \in Client :
            /\ at'[j] = "insert" => /\ saw'[j] <= Len(sessions')
                                    /\ \A i \in 1 .. saw'[j] : sessions'[i].over
            /\ at'[j] = "complete" => saw'[j] \in 1 .. Len(sessions')
    <2> TAKE j \in Client
    <2>1. CASE j = k
      BY <1>2, <2>1
    <2>2. CASE j # k
      <3>1. at'[j] = at[j] /\ saw'[j] = saw[j] /\ saw[j] \in Nat
        BY <1>0, <1>2, <2>2
      <3>2. at[j] = "insert" => \A i \in 1 .. saw[j] : i \in 1 .. Len(sessions) /\ sessions[i].over
        BY <1>0, <3>1
      <3> QED
        BY <1>0, <1>3, <3>1, <3>2
    <2> QED
      BY <2>1, <2>2
  <1>6. Found' \subseteq Nat
    BY <1>3 DEF Found, Active, None
  <1>7. /\ truths' \in [Thread -> SUBSET Nat]
        /\ \A t \in Thread : doing[t] # "idle" => truths'[t] = truths[t] \union Found'
    BY <1>0, <1>1, <1>6 DEF Observe
  <1>8. SessionsInv'
    <2>1. TaggedTruly'
      BY <1>1 DEF Tables, SessionsInv, TaggedTruly
    <2>2. \A t \in Thread : /\ doing'[t] # "idle" => Found' \subseteq truths'[t]
                            /\ doing'[t] = "write" => tag'[t] \in truths'[t]
      BY <1>0, <1>1, <1>7
    <2> QED
      BY <1>4, <1>5, <2>1, <2>2 DEF SessionsInv
  <1>9. SessionsTypeOK'
    BY <1>1, <1>2, <1>3, <1>7 DEF Tables, SessionsTypeOK, Row
  <1> QED
    BY <1>1, <1>2, <1>8, <1>9 DEF Tables

\* An event comes, is tagged and its alert kept.
LEMMA TaggingKeeps ==
    ASSUME Tables, NEW t \in Thread, Receive(t) \/ Tagging(t)
    PROVE  Tables' /\ UNCHANGED <<sessions, requests>>
           /\ \A u \in Thread : u # t => doing'[u] = doing[u]
  <1>0. /\ doing \in [Thread -> {"idle", "lookup", "write"}] /\ tag \in [Thread -> Nat]
        /\ truths \in [Thread -> SUBSET Nat] /\ alerts \subseteq AlertType
        /\ Found \subseteq Nat
        /\ \A u \in Thread : /\ doing[u] # "idle" => Found \subseteq truths[u]
                             /\ doing[u] = "write" => tag[u] \in truths[u]
        /\ TaggedTruly
    BY FoundTyped DEF Tables, SessionsTypeOK, SessionsInv
  <1>1. UNCHANGED <<sessions, requests>>
    BY DEF Receive, Tagging, LookUp, Write, Skip, Keep
  <1>2. Found' = Found
    BY <1>1 DEF Found, Active
  <1>3. /\ doing' \in [Thread -> {"idle", "lookup", "write"}] /\ tag' \in [Thread -> Nat]
        /\ truths' \in [Thread -> SUBSET Nat] /\ alerts' \subseteq AlertType
        /\ \A u \in Thread : /\ doing'[u] # "idle" => Found \subseteq truths'[u]
                             /\ doing'[u] = "write" => tag'[u] \in truths'[u]
        /\ TaggedTruly'
        /\ \A u \in Thread : u # t => doing'[u] = doing[u]
    <2>1. CASE Receive(t)
      BY <1>0, <2>1 DEF Receive, TaggedTruly
    <2>2. CASE LookUp(t)
      <3>1. PICK i \in Found : tag' = [tag EXCEPT ![t] = i]
        BY <2>2 DEF LookUp
      <3>2. doing' = [doing EXCEPT ![t] = "write"] /\ UNCHANGED <<truths, alerts>>
            /\ doing[t] = "lookup"
        BY <2>2 DEF LookUp
      <3> QED
        BY <1>0, <3>1, <3>2 DEF TaggedTruly
    <2>3. ASSUME NEW s \in Nat, NEW ok \in BOOLEAN, Keep(t, s, ok),
                 IF ok THEN s \in truths[t] ELSE s = None
          PROVE  /\ doing' \in [Thread -> {"idle", "lookup", "write"}] /\ tag' \in [Thread -> Nat]
                 /\ truths' \in [Thread -> SUBSET Nat] /\ alerts' \subseteq AlertType
                 /\ \A u \in Thread : /\ doing'[u] # "idle" => Found \subseteq truths'[u]
                                      /\ doing'[u] = "write" => tag'[u] \in truths'[u]
                 /\ TaggedTruly'
                 /\ \A u \in Thread : u # t => doing'[u] = doing[u]
      <3> DEFINE a == [tag |-> s, written |-> ok, truths |-> truths[t]]
      <3>1. a \in AlertType /\ a.tag = s /\ a.written = ok /\ a.truths = truths[t]
        BY <1>0 DEF AlertType
      <3>2. alerts' = alerts \union {a}
        BY <2>3 DEF Keep
      <3> HIDE DEF a
      <3>3. TaggedTruly' /\ alerts' \subseteq AlertType
        BY <1>0, <2>3, <3>1, <3>2 DEF TaggedTruly
      <3>4. /\ doing' = [doing EXCEPT ![t] = "idle"] /\ tag' = [tag EXCEPT ![t] = 0]
            /\ truths' = [truths EXCEPT ![t] = {}]
        BY <2>3 DEF Keep, None
      <3> QED
        BY <1>0, <3>3, <3>4
    <2>4. CASE Write(t)
      BY <1>0, <2>3, <2>4 DEF Write
    <2>5. CASE Skip(t)
      BY <2>3, <2>5 DEF Skip, None
    <2> QED
      BY <2>1, <2>2, <2>4, <2>5 DEF Tagging
  <1>4. SessionsInv'
    BY <1>1, <1>2, <1>3 DEF Tables, SessionsInv, StartedAlone, requests
  <1> QED
    BY <1>1, <1>3, <1>4 DEF Tables, SessionsTypeOK, requests

-----------------------------------------------------------------------------
(* The service                                                             *)

ServiceTypes ==
    /\ phase \in {"boot", "serving", "closing", "down"}
    /\ found \in Nat
    /\ registry \in Seq(Module) /\ stopping \in Seq(Module)
    /\ subscribed \in BOOLEAN
    /\ status \in [Module -> {"stopped", "starting", "running", "stopping", "error"}]
    /\ thread \in [Module -> {"none", "born", "loop"}]
    /\ subject \in [Client -> Module \union {NoModule}]
    /\ joining \in Module \union {NoModule}
    /\ spared \subseteq Module
    /\ events \in Nat /\ ends \in Nat

LEMMA Parts ==
    ServiceInv <=> Tables /\ ServiceTypes /\ ThreadInv /\ RequestInv /\ ShutdownInv
  BY DEF ServiceInv, TypeOK, Tables, ServiceTypes, Label

LEMMA PartsNext ==
    ASSUME Tables', ServiceTypes', ThreadInv', RequestInv', ShutdownInv' PROVE ServiceInv'
  BY DEF ServiceInv, TypeOK, Tables, ServiceTypes, Label

\* The sessions are left alone, but for requests that work on something else.
LEMMA TablesKept ==
    ASSUME Tables, UNCHANGED <<sessions, tagging>>, at' \in [Client -> Label],
           saw' \in [Client -> Nat],
           \A j \in Client : at'[j] \in {"insert", "complete"} => at[j] = at'[j] /\ saw'[j] = saw[j]
    PROVE  Tables'
  BY DEF Tables, SessionsTypeOK, SessionsInv, StartedAlone, TaggedTruly, Found, Active, tagging

LEMMA TablesAlone == ASSUME Tables, UNCHANGED sessionVars PROVE Tables'
  <1> UNCHANGED <<sessions, tagging>> /\ UNCHANGED <<at, saw>>
    BY DEF sessionVars, requests
  <1> QED
    BY TablesKept DEF Tables, SessionsTypeOK

LEMMA RequestKept ==
    ASSUME ServiceInv, NEW k \in Client, RequestSession(k)
    PROVE  ServiceInv'
  <1>0. Tables /\ ServiceTypes /\ ThreadInv /\ RequestInv /\ ShutdownInv
    BY Parts
  <1>1. UNCHANGED <<life, modules, subject, shutdown, bounds>> /\ phase = "serving"
    BY DEF RequestSession
  <1>2. /\ Tables' /\ UNCHANGED doing
        /\ \A j \in Client : j # k => at'[j] = at[j]
        /\ at[k] \in {"idle", "insert", "complete"} /\ at'[k] \in {"idle", "insert", "complete"}
    BY <1>0, AskKeeps, CommitKeeps DEF RequestSession, SessionRequest, tagging
  <1>3. RequestInv'
    BY <1>0, <1>1, <1>2 DEF RequestInv, Registered, life
  <1>4. ServiceTypes' /\ ThreadInv' /\ ShutdownInv'
    BY <1>0, <1>1, <1>2 DEF ServiceTypes, ThreadInv, ShutdownInv, Passed, Registered,
                            life, modules, shutdown, bounds
  <1> QED
    BY <1>2, <1>3, <1>4, PartsNext

\* A start, a stop begun or a stop carried through: one module, one client.
LEMMA ModuleKept ==
    ASSUME ServiceInv, NEW k \in Client, NEW m \in Module,
           StartModule(k, m) \/ StopModule(k, m) \/ (Joined(k) /\ m = subject[k])
    PROVE  ServiceInv'
  <1>0. Tables /\ ServiceTypes /\ ThreadInv /\ RequestInv /\ ShutdownInv
    BY Parts
  <1>u. UNCHANGED <<sessions, tagging, life, shutdown, bounds>>
    <2>1. CASE StartModule(k, m)
      BY <2>1 DEF StartModule, sessionVars
    <2>2. CASE StopModule(k, m)
      BY <2>2 DEF StopModule, tagging
    <2>3. CASE Joined(k)
      BY <2>3 DEF Joined
    <2> QED
      BY <2>1, <2>2, <2>3
  <1>1. /\ UNCHANGED <<sessions, tagging, life, shutdown, bounds>>
        /\ status \in [Module -> {"stopped", "starting", "running", "stopping", "error"}]
        /\ thread \in [Module -> {"none", "born", "loop"}]
        /\ subject \in [Client -> Module \union {NoModule}]
        /\ at \in [Client -> Label] /\ saw \in [Client -> Nat]
        /\ NoModule \notin Module
    BY <1>0, <1>u, ServiceAssumption DEF ServiceTypes, Tables, SessionsTypeOK
  <1>2. CASE StartModule(k, m)
    <2>1. /\ status' = [status EXCEPT ![m] = "starting"] /\ thread' = [thread EXCEPT ![m] = "born"]
          /\ thread[m] = "none" /\ Registered(m) /\ phase = "serving"
          /\ UNCHANGED <<at, saw, subject>>
      BY <1>2 DEF StartModule, Start, Free, sessionVars, requests
    <2>2. Tables'
      BY <1>0, <1>1, <2>1, TablesKept
    <2>3. ServiceTypes' /\ RequestInv' /\ ShutdownInv'
      BY <1>0, <1>1, <2>1 DEF ServiceTypes, RequestInv, ShutdownInv, Passed, Registered,
                              life, shutdown, bounds
    <2>4. ThreadInv'
      BY <1>0, <1>1, <2>1 DEF ThreadInv, Registered, life, tagging, shutdown
    <2> QED
      BY <2>2, <2>3, <2>4, PartsNext
  <1>3. CASE StopModule(k, m)
    <2>1. /\ status' = [status EXCEPT ![m] = "stopping"] /\ UNCHANGED <<thread, saw>>
          /\ subject' = [subject EXCEPT ![k] = m]
          /\ status[m] \in {"running", "starting"} /\ Registered(m) /\ phase = "serving"
          /\ at[k] = "idle"
      BY <1>3 DEF StopModule, Disarm, Free
    <2>2. PICK next \in {"stop", "restart"} : at' = [at EXCEPT ![k] = next]
      BY <1>3 DEF StopModule, Goto
    <2>3. /\ at' \in [Client -> Label]
          /\ \A j \in Client : at'[j] \in {"insert", "complete"} => at[j] = at'[j]
      BY <1>1, <2>1, <2>2 DEF Label
    <2>4. Tables'
      BY <1>0, <1>1, <2>1, <2>3, TablesKept
    <2>5. ServiceTypes' /\ ShutdownInv'
      BY <1>0, <1>1, <2>1 DEF ServiceTypes, ShutdownInv, Passed, life, shutdown, bounds
    <2>6. RequestInv'
      BY <1>0, <1>1, <2>1, <2>2 DEF RequestInv, Registered, life
    <2>7. ThreadInv'
      <3>1. \A j \in Client : subject[j] # NoModule => subject'[j] = subject[j]
        BY <1>0, <1>1, <2>1 DEF RequestInv
      <3>2. subject'[k] = m
        BY <1>1, <2>1
      <3> QED
        BY <1>0, <1>1, <2>1, <3>1, <3>2 DEF ThreadInv, Registered, life, tagging, shutdown
    <2> QED
      BY <2>4, <2>5, <2>6, <2>7, PartsNext
  <1>4. CASE Joined(k) /\ m = subject[k]
    <2>1. /\ at[k] \in {"stop", "restart"} /\ thread[m] = "none" /\ Registered(m)
          /\ phase = "serving"
          /\ at' = [at EXCEPT ![k] = "idle"] /\ saw' = [saw EXCEPT ![k] = 0]
          /\ subject' = [subject EXCEPT ![k] = NoModule]
          /\ \/ status' = [status EXCEPT ![m] = "starting"] /\ thread' = [thread EXCEPT ![m] = "born"]
             \/ status' = [status EXCEPT ![m] = "stopped"] /\ UNCHANGED thread
      BY <1>0, <1>4 DEF Joined, RequestInv, Start, Answer, Goto
    <2>2. /\ at' \in [Client -> Label] /\ saw' \in [Client -> Nat]
          /\ \A j \in Client : at'[j] \in {"insert", "complete"} => at[j] = at'[j] /\ saw'[j] = saw[j]
      BY <1>1, <2>1 DEF Label
    <2>3. Tables'
      BY <1>0, <1>1, <2>2, TablesKept
    <2>4. ServiceTypes' /\ ShutdownInv'
      BY ZenonT(40), <1>0, <1>1, <2>1 DEF ServiceTypes, ShutdownInv, Passed, life, shutdown, bounds
    <2>5. RequestInv'
      BY <1>0, <1>1, <2>1 DEF RequestInv, Registered, life
    <2>6. ThreadInv'
      <3>1. \A j \in Client : subject[j] # m => subject'[j] = subject[j] \/ subject[j] = NoModule
        BY <1>1, <1>4, <2>1
      <3> QED
        BY <1>0, <1>1, <2>1, <3>1 DEF ThreadInv, Registered, life, tagging, shutdown
    <2> QED
      BY <2>3, <2>4, <2>5, <2>6, PartsNext
  <1> QED
    BY <1>2, <1>3, <1>4

\* A module's thread takes a step.
LEMMA ThreadKept ==
    ASSUME ServiceInv, NEW m \in Module, Begin(m) \/ Publish(m) \/ Alarm(m) \/ Leave(m)
    PROVE  ServiceInv'
  <1>0. Tables /\ ServiceTypes /\ ThreadInv /\ RequestInv /\ ShutdownInv
    BY Parts
  <1>1. /\ UNCHANGED <<life, subject, shutdown>>
        /\ status \in [Module -> {"stopped", "starting", "running", "stopping", "error"}]
        /\ thread \in [Module -> {"none", "born", "loop"}]
        /\ Thread = Module /\ events \in Nat /\ ends \in Nat
    BY <1>0, ServiceAssumption DEF Begin, Publish, Alarm, Leave, ServiceTypes
  <1>2. CASE Begin(m) \/ Leave(m)
    <2>1. UNCHANGED <<sessionVars, bounds>> /\ Tables'
      BY <1>0, <1>2, TablesAlone DEF Begin, Leave
    <2>2. /\ status' \in [Module -> {"stopped", "starting", "running", "stopping", "error"}]
          /\ thread' \in [Module -> {"none", "born", "loop"}]
          /\ \A n \in Module : n # m => status'[n] = status[n] /\ thread'[n] = thread[n]
          /\ thread[m] # "none" /\ doing[m] = "idle"
          /\ \/ thread[m] = "born" /\ thread'[m] = "loop" /\ status'[m] = "running"
             \/ thread[m] = "loop" /\ thread'[m] = "none" /\ status'[m] \in {"stopped", "error", "stopping"}
      <3>1. CASE Begin(m)
        BY <1>0, <1>1, <3>1 DEF Begin, ThreadInv
      <3>2. CASE Leave(m)
        <4>1. thread[m] = "loop" /\ doing[m] = "idle" /\ thread' = [thread EXCEPT ![m] = "none"]
          BY <3>2 DEF Leave
        <4>2. status[m] # "starting"
          BY <1>0, <4>1 DEF ThreadInv
        <4>3. \/ status' = [status EXCEPT ![m] = IF status[m] = "running" THEN "stopped" ELSE status[m]]
              \/ status' = [status EXCEPT ![m] = "error"]
          BY <3>2 DEF Leave
        <4> QED
          BY <1>1, <4>1, <4>2, <4>3
      <3> QED
        BY <1>2, <3>1, <3>2
    <2>3. ServiceTypes' /\ RequestInv'
      BY <1>0, <1>1, <2>1, <2>2 DEF ServiceTypes, RequestInv, Registered, life, shutdown, bounds,
                                    sessionVars, requests
    <2>4. ThreadInv'
      BY <1>0, <1>1, <2>1, <2>2 DEF ThreadInv, Registered, life, shutdown, sessionVars, tagging
    <2>5. ShutdownInv'
      BY <1>0, <1>1, <2>2 DEF ShutdownInv, ServiceTypes, Passed, life, shutdown
    <2> QED
      BY <2>1, <2>3, <2>4, <2>5, PartsNext
  <1>3. CASE Publish(m) \/ Alarm(m)
    <2>1. /\ Tables' /\ UNCHANGED <<modules, requests, ends>> /\ events' \in Nat
          /\ \A n \in Module : n # m => doing'[n] = doing[n]
          /\ thread[m] = "loop"
      <3>1. CASE Publish(m)
        <4>1. thread[m] = "loop" /\ events' = events + 1 /\ UNCHANGED <<modules, ends>>
          BY <3>1 DEF Publish
        <4>2. CASE Receive(m)
          BY <1>0, <1>1, <4>1, <4>2, TaggingKeeps
        <4>3. CASE UNCHANGED sessionVars
          BY <1>0, <1>1, <4>1, <4>3, TablesAlone DEF sessionVars, tagging
        <4> QED
          BY <3>1, <4>2, <4>3 DEF Publish
      <3>2. CASE Alarm(m)
        <4>1. Tagging(m) /\ UNCHANGED <<modules, bounds>>
          BY <3>2 DEF Alarm
        <4>2. doing[m] # "idle"
          BY <4>1 DEF Tagging, LookUp, Write, Skip
        <4>3. thread[m] = "loop"
          BY <1>0, <4>2 DEF ThreadInv
        <4> QED
          BY <1>0, <1>1, <4>1, <4>3, TaggingKeeps DEF bounds
      <3> QED
        BY <1>3, <3>1, <3>2
    <2>2. ServiceTypes' /\ RequestInv' /\ ShutdownInv'
      BY <1>0, <1>1, <2>1 DEF ServiceTypes, RequestInv, ShutdownInv, Passed, Registered, life,
                              shutdown, modules, requests
    <2>3. ThreadInv'
      BY <1>0, <1>1, <2>1 DEF ThreadInv, Registered, life, shutdown, modules
    <2> QED
      BY <2>1, <2>2, <2>3, PartsNext
  <1> QED
    BY <1>2, <1>3

-----------------------------------------------------------------------------
(* The lifespan                                                            *)

\* What every step of the lifespan leaves alone.
Aside == <<sessionVars, subject, bounds>>

LEMMA AsideKept ==
    ASSUME ServiceInv, UNCHANGED Aside
    PROVE  /\ Tables /\ ServiceTypes /\ ThreadInv /\ RequestInv /\ ShutdownInv
           /\ Tables' /\ UNCHANGED <<at, doing, subject, events, ends>>
           /\ NoModule \notin Module
  <1>1. UNCHANGED <<sessionVars, subject, events, ends>>
    BY DEF Aside, bounds
  <1>2. UNCHANGED <<at, doing>>
    BY <1>1 DEF sessionVars, requests, tagging
  <1> QED
    BY <1>1, <1>2, Parts, TablesAlone, ServiceAssumption

\* Startup: no client is answered yet and no thread runs that could be hurt.
LEMMA StartupKept ==
    ASSUME ServiceInv, Subscribe \/ Discover \/ Serve
    PROVE  ServiceInv'
  <1>0. UNCHANGED <<Aside, modules, shutdown>> /\ phase = "boot"
        /\ (phase' = "serving" => subscribed')
    BY DEF Subscribe, Discover, Serve, Aside
  <1>1. /\ Tables /\ ServiceTypes /\ ThreadInv /\ RequestInv /\ ShutdownInv
        /\ Tables' /\ UNCHANGED <<at, doing, subject, events, ends>>
        /\ NoModule \notin Module
    BY <1>0, AsideKept
  <1>2. /\ phase' \in {"boot", "serving"} /\ found' \in Nat /\ subscribed' \in BOOLEAN
        /\ registry' \in Seq(Module)
        /\ \A m \in Module : Registered(m) => Registered(m)'
    <2>1. CASE Subscribe
      BY <1>1, <2>1 DEF Subscribe, ServiceTypes, Registered
    <2>2. CASE Serve
      BY <1>1, <2>2 DEF Serve, ServiceTypes, Registered
    <2>3. CASE Discover
      <3> DEFINE P == Packages[found + 1]
      <3>1. found + 1 \in 1 .. Len(Packages) /\ found \in Nat
        BY <1>1, <2>3, ServiceAssumption, LenProperties DEF Discover, ServiceTypes
      <3>2. P \subseteq Module /\ Cardinality(P) \in Nat
        BY <3>1, ServiceAssumption, FS_CardinalityType DEF Module
      <3>3. PICK s \in [1 .. Cardinality(P) -> P] : registry' = registry \o s
        BY <2>3 DEF Discover
      <3> HIDE DEF P
      <3>4. s \in Seq(Module) /\ registry \in Seq(Module)
        BY SMTT(30), <1>1, <3>2, <3>3 DEF ServiceTypes
      <3>5. /\ registry' \in Seq(Module) /\ Len(registry') = Len(registry) + Len(s)
            /\ \A i \in 1 .. Len(registry) : registry'[i] = registry[i]
        BY <3>3, <3>4, ConcatProperties
      <3>6. Len(registry) \in Nat /\ Len(s) \in Nat
        BY <3>4, LenProperties
      <3>7. 1 .. Len(registry) \subseteq 1 .. Len(registry')
        BY <3>5, <3>6
      <3>8. phase' = "boot" /\ found' = found + 1 /\ subscribed' = subscribed
        BY <1>0, <2>3 DEF Discover
      <3> QED
        BY <1>1, <3>1, <3>5, <3>7, <3>8 DEF Registered, ServiceTypes
    <2> QED
      BY <2>1, <2>2, <2>3
  <1>3. ServiceTypes'
    BY <1>0, <1>1, <1>2 DEF ServiceTypes, modules, shutdown
  <1>4. ThreadInv'
    BY <1>0, <1>1, <1>2 DEF ThreadInv, modules, shutdown
  <1>5. RequestInv' /\ ShutdownInv'
    BY <1>0, <1>1, <1>2 DEF RequestInv, ShutdownInv, Passed, modules, shutdown
  <1> QED
    BY <1>1, <1>3, <1>4, <1>5, PartsNext

LEMMA ShutdownKept == ASSUME ServiceInv, Shutdown PROVE ServiceInv'
  <1>0. /\ UNCHANGED <<Aside, modules, shutdown, found, registry, subscribed>>
        /\ phase = "serving" /\ phase' = "closing" /\ \A k \in Client : at[k] = "idle"
    BY DEF Shutdown, Aside
  <1>1. /\ Tables /\ ServiceTypes /\ ThreadInv /\ RequestInv /\ ShutdownInv
        /\ Tables' /\ UNCHANGED <<at, doing, subject, events, ends>>
        /\ NoModule \notin Module
    BY <1>0, AsideKept
  <1>2. ServiceTypes' /\ ThreadInv' /\ RequestInv' /\ ShutdownInv'
    BY <1>0, <1>1 DEF ServiceTypes, ThreadInv, RequestInv, ShutdownInv, Passed, Registered,
                      modules, shutdown
  <1> QED
    BY <1>1, <1>2, PartsNext

LEMMA UnsubscribeKept == ASSUME ServiceInv, Unsubscribe PROVE ServiceInv'
  <1>0. /\ UNCHANGED <<Aside, phase, found, registry, modules, joining, spared>>
        /\ phase = "closing" /\ subscribed /\ subscribed' = FALSE /\ stopping' = registry
    BY DEF Unsubscribe, Aside
  <1>1. /\ Tables /\ ServiceTypes /\ ThreadInv /\ RequestInv /\ ShutdownInv
        /\ Tables' /\ UNCHANGED <<at, doing, subject, events, ends>>
        /\ NoModule \notin Module
    BY <1>0, AsideKept
  <1>2. ServiceTypes' /\ RequestInv' /\ ThreadInv'
    BY <1>0, <1>1 DEF ServiceTypes, RequestInv, ThreadInv, Registered, modules
  <1>3. joining = NoModule
    BY <1>0, <1>1 DEF ShutdownInv
  <1>4. \A m \in Module : ~Registered(m) => thread[m] = "none"
    BY <1>1 DEF ThreadInv
  <1>5. \A m \in Module : Passed(m)' => ~Registered(m)
    BY <1>0 DEF Passed, Registered
  <1>6. ShutdownInv'
    BY <1>0, <1>3, <1>4, <1>5 DEF ShutdownInv, modules
  <1> QED
    BY <1>1, <1>2, <1>6, PartsNext

LEMMA StopNextKept == ASSUME ServiceInv, StopNext PROVE ServiceInv'
  <1> DEFINE h == Head(stopping)
  <1>0. /\ UNCHANGED <<Aside, life, thread>>
        /\ phase = "closing" /\ ~subscribed /\ joining = NoModule /\ stopping # <<>>
        /\ stopping' = Tail(stopping)
        /\ \/ /\ status[h] = "running" /\ status' = [status EXCEPT ![h] = "stopping"]
              /\ joining' = h /\ spared' = spared
           \/ /\ status[h] # "running" /\ status' = status /\ joining' = joining
              /\ spared' = IF status[h] = "starting" THEN spared \union {h} ELSE spared
    BY DEF StopNext, AtNext, Disarm, Aside, modules
  <1>1. /\ Tables /\ ServiceTypes /\ ThreadInv /\ RequestInv /\ ShutdownInv
        /\ Tables' /\ UNCHANGED <<at, doing, subject, events, ends>>
        /\ NoModule \notin Module
    BY <1>0, AsideKept
  <1>2. /\ status \in [Module -> {"stopped", "starting", "running", "stopping", "error"}]
        /\ thread \in [Module -> {"none", "born", "loop"}]
        /\ stopping \in Seq(Module) /\ spared \subseteq Module
    BY <1>1 DEF ServiceTypes
  <1>3. /\ h \in Module /\ Tail(stopping) \in Seq(Module)
        /\ Len(stopping) \in Nat \ {0} /\ stopping[1] = h
        /\ Len(Tail(stopping)) = Len(stopping) - 1
        /\ \A i \in 1 .. Len(stopping) - 1 : Tail(stopping)[i] = stopping[i + 1]
    BY <1>0, <1>2, HeadTailProperties, LenProperties, EmptySeq
  <1> HIDE DEF h
  <1>4. \A m \in Module : (\A i \in 1 .. Len(Tail(stopping)) : Tail(stopping)[i] # m) =>
                           m = h \/ \A i \in 1 .. Len(stopping) : stopping[i] # m
    <2> SUFFICES ASSUME NEW m \in Module, \A i \in 1 .. Len(Tail(stopping)) : Tail(stopping)[i] # m,
                        m # h, NEW i \in 1 .. Len(stopping)
                 PROVE  stopping[i] # m
      OBVIOUS
    <2>1. CASE i = 1
      BY <1>3, <2>1
    <2>2. CASE i # 1
      <3>1. i - 1 \in 1 .. Len(stopping) - 1
        BY <1>3, <2>2
      <3>2. Tail(stopping)[i - 1] = stopping[(i - 1) + 1] /\ (i - 1) + 1 = i
        BY <1>3, <3>1
      <3>3. i - 1 \in 1 .. Len(Tail(stopping))
        BY <1>3, <3>1
      <3> QED
        BY <3>2, <3>3
    <2> QED
      BY <2>1, <2>2
  <1>5. /\ status' \in [Module -> {"stopped", "starting", "running", "stopping", "error"}]
        /\ \A m \in Module : m # h => status'[m] = status[m]
        /\ spared \subseteq spared' /\ spared' \subseteq Module /\ stopping' \in Seq(Module)
        /\ joining' \in Module \union {NoModule}
    BY <1>0, <1>2, <1>3
  <1>6. ServiceTypes' /\ RequestInv'
    BY <1>0, <1>1, <1>5 DEF ServiceTypes, RequestInv, Registered, life
  <1>7. ThreadInv'
    <2> SUFFICES ASSUME NEW m \in Module
                 PROVE  /\ thread'[m] = "loop" \/ doing'[m] = "idle"
                        /\ Registered(m)' \/ thread'[m] = "none"
                        /\ thread'[m] = "born" => status'[m] \in {"starting", "stopping"}
                        /\ thread'[m] = "loop" => status'[m] \in {"running", "stopping"} \/ m \in spared'
                        /\ status'[m] = "starting" => thread'[m] = "born"
                        /\ status'[m] = "running" => thread'[m] = "loop"
                        /\ thread'[m] # "none" /\ status'[m] = "stopping" =>
                               joining' = m \/ \E k \in Client : subject'[k] = m
      BY DEF ThreadInv
    <2>1. /\ thread[m] = "loop" \/ doing[m] = "idle"
          /\ Registered(m) \/ thread[m] = "none"
          /\ thread[m] = "born" => status[m] \in {"starting", "stopping"}
          /\ thread[m] = "loop" => status[m] \in {"running", "stopping"} \/ m \in spared
          /\ status[m] = "starting" => thread[m] = "born"
          /\ status[m] = "running" => thread[m] = "loop"
          /\ thread[m] # "none" /\ status[m] = "stopping" =>
                 joining = m \/ \E k \in Client : subject[k] = m
      BY <1>1 DEF ThreadInv
    <2>2. UNCHANGED <<thread, doing, subject>> /\ (Registered(m)' <=> Registered(m))
      BY <1>0, <1>1 DEF Registered, life
    <2>3. CASE m = h /\ status[h] = "running"
      BY <1>0, <1>2, <2>1, <2>2, <2>3
    <2>4. CASE ~(m = h /\ status[h] = "running")
      <3>1. status'[m] = status[m]
        BY <1>0, <1>5, <2>4
      <3>2. joining # m
        BY <1>0, <1>1
      <3> QED
        BY <1>5, <2>1, <2>2, <3>1, <3>2
    <2> QED
      BY <2>3, <2>4
  <1>8. ShutdownInv'
    <2>1. \A k \in Client : subject[k] = NoModule
      BY <1>0, <1>1 DEF RequestInv
    <2>2. joining' # NoModule => phase' = "closing" /\ ~subscribed' /\ thread'[joining'] # "born"
      BY <1>0, <1>1, <1>3 DEF ThreadInv, life
    <2>3. ASSUME NEW m \in Module, Passed(m)', thread'[m] # "none"
          PROVE  m \in spared'
      <3>1. m # joining' /\ thread[m] # "none" /\ (m = h \/ \A i \in 1 .. Len(stopping) : stopping[i] # m)
        BY <1>0, <1>4, <2>3 DEF Passed, life
      <3>2. CASE m = h
        <4>1. status[m] # "running"
          BY <1>0, <3>1, <3>2
        <4>2. status[m] # "stopping"
          BY <1>0, <1>1, <2>1, <3>1 DEF ThreadInv
        <4>3. status[m] = "starting" \/ m \in spared
          BY <1>1, <1>2, <3>1, <4>1, <4>2 DEF ThreadInv
        <4> QED
          BY <1>0, <1>5, <3>2, <4>1, <4>3
      <3>3. CASE m # h
        <4>1. Passed(m)
          BY <1>0, <1>1, <3>1, <3>3 DEF Passed
        <4> QED
          BY <1>1, <1>5, <3>1, <4>1 DEF ShutdownInv
      <3> QED
        BY <3>2, <3>3
    <2> QED
      BY <1>0, <2>2, <2>3 DEF ShutdownInv, life
  <1> QED
    BY <1>1, <1>6, <1>7, <1>8, PartsNext

LEMMA StopReturnsKept == ASSUME ServiceInv, StopReturns PROVE ServiceInv'
  <1> DEFINE h == joining
  <1>0. /\ UNCHANGED <<Aside, life, thread, stopping>>
        /\ h # NoModule /\ joining' = NoModule
        /\ status' = [status EXCEPT ![h] = "stopped"]
        /\ spared' = IF thread[h] = "none" THEN spared ELSE spared \union {h}
    BY DEF StopReturns, Aside
  <1>1. /\ Tables /\ ServiceTypes /\ ThreadInv /\ RequestInv /\ ShutdownInv
        /\ Tables' /\ UNCHANGED <<at, doing, subject, events, ends>>
        /\ NoModule \notin Module
    BY <1>0, AsideKept
  <1>2. /\ status \in [Module -> {"stopped", "starting", "running", "stopping", "error"}]
        /\ h \in Module /\ spared \subseteq Module /\ thread[h] # "born"
        /\ thread \in [Module -> {"none", "born", "loop"}]
    BY <1>0, <1>1 DEF ServiceTypes, ShutdownInv
  <1> HIDE DEF h
  <1>3. /\ status' \in [Module -> {"stopped", "starting", "running", "stopping", "error"}]
        /\ status'[h] = "stopped" /\ \A m \in Module : m # h => status'[m] = status[m]
        /\ spared \subseteq spared' /\ spared' \subseteq Module
        /\ thread[h] = "none" \/ h \in spared'
    BY <1>0, <1>2
  <1>4. ServiceTypes' /\ RequestInv'
    BY <1>0, <1>1, <1>3 DEF ServiceTypes, RequestInv, Registered, life
  <1>5. ThreadInv'
    BY <1>0, <1>1, <1>2, <1>3 DEF ThreadInv, Registered, life, h
  <1>6. \A m \in Module : Passed(m)' => m = h \/ Passed(m)
    BY <1>0 DEF Passed, life, h
  <1>7. ShutdownInv'
    BY <1>0, <1>1, <1>2, <1>3, <1>6 DEF ShutdownInv, life
  <1> QED
    BY <1>1, <1>4, <1>5, <1>7, PartsNext

LEMMA DownKept == ASSUME ServiceInv, Down PROVE ServiceInv'
  <1>0. /\ UNCHANGED <<Aside, modules, shutdown, found, registry, subscribed>>
        /\ phase = "closing" /\ ~subscribed /\ joining = NoModule /\ stopping = <<>>
        /\ phase' = "down"
    BY DEF Down, Aside
  <1>1. /\ Tables /\ ServiceTypes /\ ThreadInv /\ RequestInv /\ ShutdownInv
        /\ Tables' /\ UNCHANGED <<at, doing, subject, events, ends>>
        /\ NoModule \notin Module
    BY <1>0, AsideKept
  <1>2. \A m \in Module : Passed(m)
    BY <1>0, <1>1 DEF Passed
  <1>3. ServiceTypes' /\ ThreadInv' /\ RequestInv'
    BY <1>0, <1>1 DEF ServiceTypes, ThreadInv, RequestInv, Registered, modules, shutdown
  <1>4. ShutdownInv'
    BY <1>0, <1>1, <1>2 DEF ShutdownInv, modules, shutdown
  <1> QED
    BY <1>1, <1>3, <1>4, PartsNext

\* The state in which a process begins, whatever rows and alerts it finds.
LEMMA FreshStart ==
    ASSUME /\ at = [k \in Client |-> "idle"] /\ saw = [k \in Client |-> 0]
           /\ doing = [t \in Thread |-> "idle"]
           /\ tag = [t \in Thread |-> None] /\ truths = [t \in Thread |-> {}]
           /\ phase = "boot" /\ found = 0 /\ registry = <<>> /\ subscribed = FALSE
           /\ status = [m \in Module |-> "stopped"]
           /\ thread = [m \in Module |-> "none"]
           /\ subject = [k \in Client |-> NoModule]
           /\ stopping = <<>> /\ joining = NoModule /\ spared = {}
           /\ sessions \in Seq(Row) /\ alerts \subseteq AlertType
           /\ StartedAlone /\ TaggedTruly /\ events \in Nat /\ ends \in Nat
    PROVE  ServiceInv
  <1>1. Tables
    BY DEF Tables, SessionsTypeOK, SessionsInv, Row, Label, None
  <1>2. ServiceTypes
    BY EmptySeq DEF ServiceTypes
  <1>3. ThreadInv /\ RequestInv /\ ShutdownInv
    BY ServiceAssumption DEF ThreadInv, RequestInv, ShutdownInv, Passed
  <1> QED
    BY <1>1, <1>2, <1>3, Parts

LEMMA ProcessEndsKept == ASSUME ServiceInv, ProcessEnds PROVE ServiceInv'
  <1>0. Tables /\ ServiceTypes
    BY Parts
  <1>1. sessions' = sessions /\ alerts' = alerts /\ events' = events /\ ends' = ends + 1
    BY DEF ProcessEnds
  <1>2. StartedAlone' /\ TaggedTruly' /\ sessions' \in Seq(Row) /\ alerts' \subseteq AlertType
        /\ events' \in Nat /\ ends' \in Nat
    BY <1>0, <1>1 DEF Tables, SessionsTypeOK, SessionsInv, StartedAlone, TaggedTruly, Row, ServiceTypes
  <1>3. Tables'
    BY <1>2 DEF ProcessEnds, Tables, SessionsTypeOK, SessionsInv, Row, Label, None
  <1>4. ServiceTypes'
    BY <1>2, EmptySeq DEF ProcessEnds, ServiceTypes
  <1>5. ThreadInv' /\ RequestInv' /\ ShutdownInv'
    BY ServiceAssumption DEF ProcessEnds, ThreadInv, RequestInv, ShutdownInv, Passed
  <1> QED
    BY <1>3, <1>4, <1>5, PartsNext

-----------------------------------------------------------------------------

\* The inductive invariant holds of every behaviour: the tables of sessions
\* and alerts (Sessions), which thread runs under which status, who waits
\* for it, and what the shutdown has been through (PluginRegistry, lifespan).
THEOREM ServiceInvariant == Spec => []ServiceInv
  <1>1. Init => ServiceInv
    <2> SUFFICES ASSUME Init PROVE ServiceInv
      OBVIOUS
    <2>1. sessions = <<>> /\ alerts = {} /\ events = 0 /\ ends = 0
      BY DEF Init, InitSessions
    <2>2. sessions \in Seq(Row) /\ StartedAlone /\ TaggedTruly
      BY <2>1, EmptySeq DEF StartedAlone, TaggedTruly
    <2>3. alerts \subseteq AlertType /\ events \in Nat /\ ends \in Nat
      BY <2>1
    <2> QED
      BY <2>2, <2>3, FreshStart DEF Init, InitSessions
  <1>2. ServiceInv /\ [Next]_vars => ServiceInv'
    <2> SUFFICES ASSUME ServiceInv, [Next]_vars PROVE ServiceInv'
      OBVIOUS
    <2>1. CASE Lifespan
      BY <2>1, StartupKept, UnsubscribeKept, StopNextKept, StopReturnsKept, DownKept DEF Lifespan
    <2>2. CASE Shutdown \/ ProcessEnds
      BY <2>2, ShutdownKept, ProcessEndsKept
    <2>3. ASSUME NEW k \in Client, RequestSession(k) \/ Joined(k) PROVE ServiceInv'
      <3>1. CASE RequestSession(k)
        BY <3>1, RequestKept
      <3>2. CASE Joined(k)
        <4>1. subject[k] \in Module
          BY <3>2, Parts DEF Joined, RequestInv
        <4> QED
          BY <3>2, <4>1, ModuleKept
      <3> QED
        BY <2>3, <3>1, <3>2
    <2>4. ASSUME NEW k \in Client, NEW m \in Module, StartModule(k, m) \/ StopModule(k, m)
          PROVE  ServiceInv'
      BY <2>4, ModuleKept
    <2>5. ASSUME NEW m \in Module, Begin(m) \/ Publish(m) \/ Alarm(m) \/ Leave(m)
          PROVE  ServiceInv'
      BY <2>5, ThreadKept
    <2>6. CASE UNCHANGED vars
      BY <2>6 DEF vars, sessionVars, requests, tagging, life, modules, shutdown, bounds,
                  ServiceInv, TypeOK, SessionsTypeOK, SessionsInv, StartedAlone, TaggedTruly,
                  Found, Active, ThreadInv, RequestInv, ShutdownInv, Passed, Registered
    <2> QED
      BY <2>1, <2>2, <2>3, <2>4, <2>5, <2>6 DEF Next
  <1> QED
    BY <1>1, <1>2, PTL DEF Spec

\* Whenever a session was started, every session committed before its
\* request looked is over, through crashes and failed commits
\* (routes/sessions.py).
THEOREM StartedAloneThm == Spec => []StartedAlone
  <1>1. ServiceInv => StartedAlone
    BY DEF ServiceInv, SessionsInv
  <1> QED
    BY <1>1, ServiceInvariant, PTL

\* The row of an alert names a session that was active while it was
\* processed (AlertManager._persist_alert).
THEOREM TaggedTrulyThm == Spec => []TaggedTruly
  <1>1. ServiceInv => TaggedTruly
    BY DEF ServiceInv, SessionsInv
  <1> QED
    BY <1>1, ServiceInvariant, PTL

\* When the service is down, only a module that was STARTING as stop_all()
\* came by, or that outlasted its join, still has a thread.
THEOREM DownIsQuietThm == Spec => []DownIsQuiet
  <1>1. ServiceInv => DownIsQuiet
    BY DEF ServiceInv, ShutdownInv, Passed, DownIsQuiet
  <1> QED
    BY <1>1, ServiceInvariant, PTL
=============================================================================
