------------------------- MODULE AlertManagerProofs -------------------------
(***************************************************************************)
(* Theorems about AlertManager for any threads, modules, events, cooldown, *)
(* window and bounds.                                                      *)
(***************************************************************************)
EXTENDS AlertManager, SequenceTheorems, FiniteSetTheorems, TLAPS

\* A step of a thread that stores and marks nothing.
Quiet(t) == \/ CheckCooldown(t) \/ CheckDedup(t)
            \/ Warn(t) \/ Prune(t) \/ LookAtHead(t) \/ Pop(t) \/ CountWarnings(t)

\* A thread's key, object and alert are what their names say.
LEMMA Keys ==
    ASSUME TypeOK, NEW t \in Thread
    PROVE  /\ KeyOf(t) \in Key /\ KeyOf(t) = <<Source[t], job[t].type>> /\ job[t].type \in Type
           /\ job[t].object \in Object \union {NoObject}
           /\ job[t].object # NoObject => ObjectKey(t) \in Key \X Object
           /\ Alert(t) \in AlertType
  <1>1. job[t] \in Event /\ now[t] \in Nat /\ escalated[t] \in BOOLEAN
    BY DEF TypeOK
  <1>2. KeyOf(t) \in Key /\ job[t].type \in Type
    BY <1>1 DEF KeyOf, Key, Type
  <1>3. job[t].object \in Object \union {NoObject}
    BY <1>1 DEF Object
  <1> QED
    BY <1>1, <1>2, <1>3 DEF KeyOf, ObjectKey, Alert, AlertType

\* A deque of alerts stays one.
LEMMA KeepTyped ==
    ASSUME NEW S, NEW d \in Seq(S), NEW a \in S PROVE Keep(d, a) \in Seq(S)
  <1>1. Append(d, a) \in Seq(S) /\ Append(d, a) # <<>>
    BY AppendProperties
  <1>2. Tail(Append(d, a)) \in Seq(S)
    BY <1>1, HeadTailProperties
  <1> QED
    BY <1>1, <1>2 DEF Keep

\* The alerts fired are dated.
LEMMA FiredDated == TypeOK => \A i \in Firing : fired[i].time \in Nat
  <1> SUFFICES ASSUME TypeOK, NEW i \in Firing PROVE fired[i].time \in Nat
    OBVIOUS
  <1>1. fired \in Seq(AlertType) /\ i \in 1 .. Len(fired)
    BY DEF TypeOK, Firing
  <1>2. fired[i] \in AlertType
    BY <1>1, ElementOfSeq
  <1> QED
    BY <1>2 DEF AlertType

\* Storing appends one alert to those fired before.
LEMMA StoreAppends ==
    ASSUME TypeOK, NEW t \in Thread, Store(t)
    PROVE  /\ fired' \in Seq(AlertType)
           /\ Len(fired) \in Nat /\ Len(fired') = Len(fired) + 1
           /\ \A i \in Firing : fired'[i] = fired[i]
           /\ fired'[Len(fired) + 1] = Alert(t)
  <1>1. fired \in Seq(AlertType) /\ Alert(t) \in AlertType
    BY Keys DEF TypeOK
  <1> QED
    BY <1>1, AppendProperties, LenProperties DEF Store, Firing

\* A thread moves on to a step.
LEMMA Moves ==
    ASSUME TypeOK, NEW t \in Thread, NEW s \in Step, Goto(t, s)
    PROVE  /\ at' \in [Thread -> Step] /\ at'[t] = s
           /\ \A u \in Thread : u # t => at'[u] = at[u]
  BY DEF TypeOK, Goto

\* Where the quiet steps lead.
LEMMA QuietMoves ==
    ASSUME TypeOK, NEW t \in Thread, Quiet(t)
    PROVE  /\ at' \in [Thread -> Step]
           /\ \A u \in Thread : u # t => at'[u] = at[u]
           /\ at[t] \notin {"idle", "mark", "markObject"}
           /\ at'[t] \notin {"mark", "markObject"}
           /\ at[t] = "cooldown" /\ at'[t] # "idle" =>
                  ~(now[t] - cooldowns[KeyOf(t)] < Cooldown)
           /\ UNCHANGED <<clock, tables, alerts, job, now, received, fired>>
  <1>1. CASE CheckCooldown(t)
    <2>1. Goto(t, "idle") \/ (~(now[t] - cooldowns[KeyOf(t)] < Cooldown) /\ Goto(t, "dedup"))
      BY <1>1 DEF CheckCooldown
    <2> QED
      BY <1>1, <2>1, Moves DEF CheckCooldown, Step, local
  <1>2. CASE CheckDedup(t)
    <2>1. Goto(t, "idle") \/ Goto(t, "warn") \/ Goto(t, "store")
      BY <1>2 DEF CheckDedup
    <2> QED
      BY <1>2, <2>1, Moves DEF CheckDedup, Step, local
  <1>3. CASE Warn(t)
    BY <1>3, Moves DEF Warn, Step, Counting, local
  <1>4. CASE Prune(t)
    <2>1. Goto(t, "count") \/ Goto(t, "head")
      BY <1>4 DEF Prune
    <2> QED
      BY <1>4, <2>1, Moves DEF Prune, Step, Counting, local
  <1>5. CASE LookAtHead(t)
    <2>1. Goto(t, "idle") \/ Goto(t, "pop") \/ Goto(t, "count")
      BY <1>5 DEF LookAtHead
    <2> QED
      BY <1>5, <2>1, Moves DEF LookAtHead, Step, Counting, local
  <1>6. CASE Pop(t)
    <2>1. Goto(t, "idle") \/ Goto(t, "prune")
      BY <1>6 DEF Pop
    <2> QED
      BY <1>6, <2>1, Moves DEF Pop, Step, Counting, local
  <1>7. CASE CountWarnings(t)
    BY <1>7, Moves DEF CountWarnings, Step, Counting
  <1> QED
    BY <1>1, <1>2, <1>3, <1>4, <1>5, <1>6, <1>7 DEF Quiet

\* Every quiet step types its next state.
LEMMA QuietTyped ==
    ASSUME TypeOK, NEW t \in Thread, Quiet(t) PROVE TypeOK'
  <1>1. /\ at' \in [Thread -> Step] /\ UNCHANGED <<clock, tables, alerts, job, now, received, fired>>
    BY QuietMoves
  <1>2. /\ warningWindow \in Seq(Nat) /\ warned \in Seq(Nat) /\ now[t] \in Nat
        /\ Append(warningWindow, now[t]) \in Seq(Nat) /\ Append(warned, now[t]) \in Seq(Nat)
        /\ warningWindow # <<>> => Tail(warningWindow) \in Seq(Nat)
    BY AppendProperties, HeadTailProperties DEF TypeOK
  <1>3. warningWindow' \in Seq(Nat) /\ warned' \in Seq(Nat)
    <2>1. CASE Warn(t)
      BY <1>2, <2>1 DEF Warn
    <2>2. CASE Pop(t)
      BY <1>2, <2>2 DEF Pop
    <2>3. CASE ~Warn(t) /\ ~Pop(t)
      BY <1>2, <2>3 DEF Quiet, CheckCooldown, CheckDedup, Prune, LookAtHead, CountWarnings, warnings
    <2> QED
      BY <2>1, <2>2, <2>3
  <1>4. orderly' \in BOOLEAN
    <2>1. CASE Warn(t)
      BY <2>1 DEF Warn
    <2>2. CASE ~Warn(t)
      BY <2>2 DEF Quiet, CheckCooldown, CheckDedup, Prune, LookAtHead, Pop, CountWarnings,
                  warnings, TypeOK
    <2> QED
      BY <2>1, <2>2
  <1>5. escalated' \in [Thread -> BOOLEAN]
    <2>1. CASE CountWarnings(t)
      <3>1. escalated' = [escalated EXCEPT ![t] = Len(warningWindow) >= Count]
        BY <2>1 DEF CountWarnings
      <3> QED
        BY <3>1 DEF TypeOK
    <2>2. CASE ~CountWarnings(t)
      BY <2>2 DEF Quiet, CheckCooldown, CheckDedup, Prune, LookAtHead, Pop, Warn,
                  local, TypeOK
    <2> QED
      BY <2>1, <2>2
  <1> QED
    BY <1>1, <1>3, <1>4, <1>5 DEF TypeOK, tables

\* So do the others.
LEMMA TypeKept == TypeOK /\ [Next]_vars => TypeOK'
  <1> SUFFICES ASSUME TypeOK, [Next]_vars PROVE TypeOK'
    OBVIOUS
  <1>1. CASE Tick
    BY <1>1 DEF Tick, TypeOK, tables, warnings, local
  <1>2. ASSUME NEW t \in Thread, NEW e \in Event, Receive(t, e) PROVE TypeOK'
    <2>1. at' \in [Thread -> Step]
      BY <1>2, Moves DEF Receive, Step
    <2>2. escalated' = [escalated EXCEPT ![t] = FALSE]
      BY <1>2 DEF Receive
    <2>3. escalated' \in [Thread -> BOOLEAN]
      BY <2>2 DEF TypeOK
    <2>4. job' \in [Thread -> Event] /\ now' \in [Thread -> Nat] /\ received' \in Nat
      BY <1>2 DEF Receive, TypeOK
    <2>5. UNCHANGED <<clock, cooldowns, dedupCache, warningWindow, warned, orderly, alerts, fired>>
      BY <1>2 DEF Receive, tables, warnings
    <2> QED
      BY <2>1, <2>3, <2>4, <2>5 DEF TypeOK
  <1>3. ASSUME NEW t \in Thread, Quiet(t) PROVE TypeOK'
    BY <1>3, QuietTyped
  <1>4. ASSUME NEW t \in Thread, Store(t) PROVE TypeOK'
    <2>1. at' \in [Thread -> Step]
      BY <1>4, Moves DEF Store, Step
    <2>2. alerts' \in Seq(AlertType)
      BY <1>4, Keys, KeepTyped DEF Store, TypeOK
    <2>3. fired' \in Seq(AlertType)
      BY <1>4, StoreAppends
    <2>4. UNCHANGED <<clock, cooldowns, dedupCache, warningWindow, warned, orderly, job, now,
                      escalated, received>>
      BY <1>4 DEF Store, tables, warnings, local
    <2> QED
      BY <2>1, <2>2, <2>3, <2>4 DEF TypeOK
  <1>5. ASSUME NEW t \in Thread, Mark(t) \/ MarkObject(t) PROVE TypeOK'
    <2>1. Goto(t, "idle") \/ Goto(t, "markObject")
      BY <1>5 DEF Mark, MarkObject
    <2>2. at' \in [Thread -> Step]
      BY <2>1, Moves DEF Step
    <2>3. now[t] \in Nat /\ cooldowns' \in [Key -> Nat] /\ dedupCache' \in [Key \X Object -> Nat]
      BY <1>5 DEF Mark, MarkObject, TypeOK
    <2>4. UNCHANGED <<clock, warningWindow, warned, orderly, alerts, fired, job, now,
                      escalated, received>>
      BY <1>5 DEF Mark, MarkObject, warnings, local
    <2> QED
      BY <2>2, <2>3, <2>4 DEF TypeOK
  <1>6. CASE UNCHANGED vars
    BY <1>6 DEF vars, TypeOK, tables, warnings, local
  <1> QED
    BY <1>1, <1>2, <1>3, <1>4, <1>5, <1>6 DEF Next, Proceed, Quiet

-----------------------------------------------------------------------------
\* Quiet steps leave marks and alerts alone; what passes the cooldown check
\* has seen the last mark of its type.
LEMMA QuietKeeps ==
    ASSUME CoolingInv, TypeOK', NEW t \in Thread, Quiet(t) PROVE CoolingInv'
  <1>0. /\ TypeOK /\ TimesInv /\ StoredInv /\ SoleInv
        /\ UNCHANGED <<clock, cooldowns, dedupCache, job, now, fired>>
        /\ \A u \in Thread : u # t => at'[u] = at[u]
        /\ at[t] \notin {"idle", "mark", "markObject"}
        /\ at'[t] \notin {"mark", "markObject"}
        /\ at[t] = "cooldown" /\ at'[t] # "idle" =>
               ~(now[t] - cooldowns[KeyOf(t)] < Cooldown)
    <2>1. TypeOK /\ Quiet(t)
      BY DEF CoolingInv
    <2> QED
      BY <2>1, QuietMoves DEF CoolingInv, tables
  <1>1. \A u \in Thread : KeyOf(u)' = KeyOf(u)
    BY <1>0 DEF KeyOf
  <1>2. TimesInv'
    BY <1>0 DEF TimesInv
  <1>3. StoredInv'
    BY <1>0, <1>1 DEF StoredInv, Firing
  <1>4. ASSUME NEW u \in Thread, NEW y \in Type, Sole(u), NEW k, k = <<Source[u], y>>
        PROVE  /\ at'[u] # "idle" => cooldowns[k] <= now[u]
               /\ \A i \in Firing : fired[i].key = k =>
                      \/ fired[i].time <= cooldowns[k]
                      \/ at'[u] = "mark" /\ KeyOf(u) = k /\ fired[i].time <= now[u]
               /\ Passed(u)' /\ KeyOf(u) = k =>
                      IF at'[u] = "markObject" THEN cooldowns[k] = now[u]
                      ELSE now[u] - cooldowns[k] >= Cooldown
    <2>1. /\ at[u] # "idle" => cooldowns[k] <= now[u]
          /\ \A i \in Firing : fired[i].key = k =>
                 \/ fired[i].time <= cooldowns[k]
                 \/ at[u] = "mark" /\ KeyOf(u) = k /\ fired[i].time <= now[u]
          /\ Passed(u) /\ KeyOf(u) = k =>
                 IF at[u] = "markObject" THEN cooldowns[k] = now[u]
                 ELSE now[u] - cooldowns[k] >= Cooldown
      BY <1>0, <1>4 DEF SoleInv
    <2>2. CASE u # t
      BY <1>0, <2>1, <2>2 DEF Passed
    <2>3. CASE u = t
      <3>1. \A i \in Firing : fired[i].key = k => fired[i].time <= cooldowns[k]
        BY <1>0, <2>1, <2>3
      <3>2. ASSUME Passed(u)', KeyOf(u) = k PROVE now[u] - cooldowns[k] >= Cooldown
        <4>1. now[u] \in Nat /\ cooldowns[k] \in Nat /\ Cooldown \in Nat
          BY <1>0, <2>3, <3>2, Keys, AlertAssumption DEF TypeOK
        <4>2. CASE at[u] = "cooldown"
          BY <1>0, <2>3, <3>2, <4>1, <4>2 DEF Passed
        <4>3. CASE at[u] # "cooldown"
          BY <1>0, <2>1, <2>3, <3>2, <4>3 DEF Passed
        <4> QED
          BY <4>2, <4>3
      <3> QED
        BY <1>0, <2>1, <2>3, <3>1, <3>2
    <2> QED
      BY <2>2, <2>3
  <1>5. SoleInv'
    <2>1. \A u \in Thread, y \in Type : Sole(u) =>
              \A o \in Object : dedupCache[<<<<Source[u], y>>, o>>] <= cooldowns[<<Source[u], y>>]
      BY <1>0 DEF SoleInv
    <2> QED
      BY <1>0, <1>1, <1>4, <2>1 DEF SoleInv, Firing
  <1> QED
    BY <1>2, <1>3, <1>5, TypeOK' DEF CoolingInv

\* An event taken up: its clock reading is no earlier than any mark.
LEMMA ReceiveKeeps ==
    ASSUME CoolingInv, TypeOK', NEW t \in Thread, NEW e \in Event, Receive(t, e)
    PROVE  CoolingInv'
  <1>0. /\ TypeOK /\ TimesInv /\ StoredInv /\ SoleInv
        /\ UNCHANGED <<clock, cooldowns, dedupCache, fired>>
        /\ at[t] = "idle" /\ at'[t] = "cooldown" /\ now'[t] = clock
        /\ \A u \in Thread : u # t => at'[u] = at[u] /\ now'[u] = now[u] /\ job'[u] = job[u]
    BY DEF CoolingInv, TypeOK, Receive, Goto, tables
  <1>1. TimesInv'
    <2>1. ASSUME NEW u \in Thread, at'[u] # "idle" PROVE now'[u] <= clock'
      <3>1. clock \in Nat /\ clock <= clock
        BY <1>0 DEF TypeOK
      <3>2. CASE u = t
        BY <1>0, <3>1, <3>2
      <3>3. CASE u # t
        BY <1>0, <2>1, <3>3 DEF TimesInv
      <3> QED
        BY <3>2, <3>3
    <2> QED
      BY <1>0, <2>1 DEF TimesInv
  <1>2. \A u \in Thread : u # t => KeyOf(u)' = KeyOf(u)
    BY <1>0 DEF KeyOf
  <1>3. StoredInv'
    <2>1. ASSUME NEW u \in Thread, at'[u] \in {"mark", "markObject"}
          PROVE  \E i \in Firing : /\ fired[i].key = KeyOf(u)' /\ fired[i].time = now'[u]
                                   /\ fired[i].object = job'[u].object
      <3>1. u # t
        BY <1>0, <2>1
      <3> QED
        BY <1>0, <1>2, <2>1, <3>1 DEF StoredInv
    <2> QED
      BY <1>0, <2>1 DEF StoredInv, Firing
  <1>4. ASSUME NEW u \in Thread, NEW y \in Type, Sole(u), NEW k, k = <<Source[u], y>>
        PROVE  /\ at'[u] # "idle" => cooldowns[k] <= now'[u]
               /\ \A i \in Firing : fired[i].key = k =>
                      \/ fired[i].time <= cooldowns[k]
                      \/ at'[u] = "mark" /\ KeyOf(u)' = k /\ fired[i].time <= now'[u]
               /\ Passed(u)' /\ KeyOf(u)' = k =>
                      IF at'[u] = "markObject" THEN cooldowns[k] = now'[u]
                      ELSE now'[u] - cooldowns[k] >= Cooldown
    <2>1. /\ at[u] # "idle" => cooldowns[k] <= now[u]
          /\ \A i \in Firing : fired[i].key = k =>
                 \/ fired[i].time <= cooldowns[k]
                 \/ at[u] = "mark" /\ KeyOf(u) = k /\ fired[i].time <= now[u]
          /\ Passed(u) /\ KeyOf(u) = k =>
                 IF at[u] = "markObject" THEN cooldowns[k] = now[u]
                 ELSE now[u] - cooldowns[k] >= Cooldown
      BY <1>0, <1>4 DEF SoleInv
    <2>2. CASE u # t
      BY <1>0, <1>2, <2>1, <2>2 DEF Passed
    <2>3. CASE u = t
      <3>1. k \in Key
        BY <1>4 DEF Key
      <3>2. cooldowns[k] <= clock
        BY <1>0, <3>1 DEF TimesInv
      <3> QED
        BY <1>0, <2>1, <2>3, <3>2 DEF Passed
    <2> QED
      BY <2>2, <2>3
  <1>5. SoleInv'
    <2>1. \A u \in Thread, y \in Type : Sole(u) =>
              \A o \in Object : dedupCache[<<<<Source[u], y>>, o>>] <= cooldowns[<<Source[u], y>>]
      BY <1>0 DEF SoleInv
    <2> QED
      BY <1>0, <1>4, <2>1 DEF SoleInv, Firing
  <1> QED
    BY <1>1, <1>3, <1>5, TypeOK' DEF CoolingInv

\* An alert stored is as late as its thread's reading, which is a cooldown
\* after the last mark of a type that is the thread's alone.
LEMMA StoreKeeps ==
    ASSUME CoolingInv, TypeOK', NEW t \in Thread, Store(t) PROVE CoolingInv'
  <1>0. /\ TypeOK /\ TimesInv /\ StoredInv /\ SoleInv
        /\ UNCHANGED <<clock, cooldowns, dedupCache, job, now>>
        /\ at[t] = "store" /\ at'[t] = "mark"
        /\ \A u \in Thread : u # t => at'[u] = at[u]
    BY DEF CoolingInv, TypeOK, Store, Goto, tables, local
  <1>1. /\ Len(fired) \in Nat /\ Len(fired') = Len(fired) + 1
        /\ \A i \in Firing : fired'[i] = fired[i]
        /\ fired'[Len(fired) + 1] = Alert(t)
    <2>1. TypeOK /\ Store(t)
      BY DEF CoolingInv
    <2> QED
      BY <2>1, StoreAppends
  <1>2. \A u \in Thread : KeyOf(u)' = KeyOf(u)
    BY <1>0 DEF KeyOf
  <1>3. Firing' = Firing \union {Len(fired) + 1}
    BY <1>1 DEF Firing
  <1>4. Alert(t).key = KeyOf(t) /\ Alert(t).time = now[t] /\ Alert(t).object = job[t].object
    BY DEF Alert
  <1>5. TimesInv'
    BY <1>0 DEF TimesInv
  <1>6. StoredInv'
    <2>1. ASSUME NEW u \in Thread, at'[u] \in {"mark", "markObject"}
          PROVE  \E i \in Firing' : /\ fired'[i].key = KeyOf(u) /\ fired'[i].time = now[u]
                                    /\ fired'[i].object = job[u].object
      <3>1. CASE u = t
        BY <1>1, <1>3, <1>4, <3>1
      <3>2. CASE u # t
        <4>1. PICK i \in Firing : /\ fired[i].key = KeyOf(u) /\ fired[i].time = now[u]
                                  /\ fired[i].object = job[u].object
          BY <1>0, <2>1, <3>2 DEF StoredInv
        <4> QED
          BY <1>1, <1>3, <4>1
      <3> QED
        BY <3>1, <3>2
    <2> QED
      BY <1>0, <1>2, <2>1 DEF StoredInv
  <1>7. ASSUME NEW u \in Thread, NEW y \in Type, Sole(u), NEW k, k = <<Source[u], y>>
        PROVE  /\ at'[u] # "idle" => cooldowns[k] <= now[u]
               /\ \A i \in Firing' : fired'[i].key = k =>
                      \/ fired'[i].time <= cooldowns[k]
                      \/ at'[u] = "mark" /\ KeyOf(u) = k /\ fired'[i].time <= now[u]
               /\ Passed(u)' /\ KeyOf(u) = k =>
                      IF at'[u] = "markObject" THEN cooldowns[k] = now[u]
                      ELSE now[u] - cooldowns[k] >= Cooldown
    <2>1. /\ at[u] # "idle" => cooldowns[k] <= now[u]
          /\ \A i \in Firing : fired[i].key = k =>
                 \/ fired[i].time <= cooldowns[k]
                 \/ at[u] = "mark" /\ KeyOf(u) = k /\ fired[i].time <= now[u]
          /\ Passed(u) /\ KeyOf(u) = k =>
                 IF at[u] = "markObject" THEN cooldowns[k] = now[u]
                 ELSE now[u] - cooldowns[k] >= Cooldown
      BY <1>0, <1>7 DEF SoleInv
    <2>2. CASE u # t
      <3>1. KeyOf(t) # k
        BY <1>7, <2>2 DEF KeyOf, Sole
      <3>2. \A i \in Firing' : fired'[i].key = k => i \in Firing /\ fired'[i] = fired[i]
        BY <1>1, <1>3, <1>4, <3>1
      <3> QED
        BY <1>0, <2>1, <2>2, <3>2 DEF Passed
    <2>3. CASE u = t
      <3>1. now[t] \in Nat
        BY <1>0 DEF TypeOK
      <3>2. \A i \in Firing' : fired'[i].key = k =>
                \/ fired'[i].time <= cooldowns[k]
                \/ at'[u] = "mark" /\ KeyOf(u) = k /\ fired'[i].time <= now[u]
        <4>1. \A i \in Firing : fired'[i].key = k => fired'[i].time <= cooldowns[k]
          BY <1>0, <1>1, <2>1, <2>3
        <4>2. Alert(t).key = k => KeyOf(u) = k /\ Alert(t).time <= now[u]
          BY <1>4, <2>3, <3>1
        <4> QED
          BY <1>0, <1>1, <1>3, <2>3, <4>1, <4>2
      <3> QED
        BY <1>0, <2>1, <2>3, <3>2 DEF Passed
    <2> QED
      BY <2>2, <2>3
  <1>8. SoleInv'
    <2>1. \A u \in Thread, y \in Type : Sole(u) =>
              \A o \in Object : dedupCache[<<<<Source[u], y>>, o>>] <= cooldowns[<<Source[u], y>>]
      BY <1>0 DEF SoleInv
    <2> QED
      BY <1>0, <1>2, <1>7, <2>1 DEF SoleInv
  <1> QED
    BY <1>5, <1>6, <1>8, TypeOK' DEF CoolingInv

\* The mark moves to the reading of the alert just stored.
LEMMA MarkKeeps ==
    ASSUME CoolingInv, TypeOK', NEW t \in Thread, Mark(t) PROVE CoolingInv'
  <1>0. /\ TypeOK /\ TimesInv /\ StoredInv /\ SoleInv
        /\ UNCHANGED <<clock, dedupCache, job, now, fired>>
        /\ at[t] = "mark" /\ at'[t] \in {"idle", "markObject"}
        /\ cooldowns' = [cooldowns EXCEPT ![KeyOf(t)] = now[t]]
        /\ \A u \in Thread : u # t => at'[u] = at[u]
    BY DEF CoolingInv, TypeOK, Mark, Goto, local
  <1>1. \A u \in Thread : KeyOf(u)' = KeyOf(u) /\ KeyOf(u) \in Key
    BY <1>0, Keys DEF KeyOf
  <1>2. /\ cooldowns'[KeyOf(t)] = now[t] /\ now[t] \in Nat
        /\ \A k \in Key : k # KeyOf(t) => cooldowns'[k] = cooldowns[k]
        /\ \A k \in Key : cooldowns[k] \in Nat
        /\ now[t] <= clock
    BY <1>0, <1>1 DEF TypeOK, TimesInv
  <1>3. TimesInv'
    BY <1>0, <1>2 DEF TimesInv
  <1>4. StoredInv'
    <2>1. ASSUME NEW u \in Thread, at'[u] \in {"mark", "markObject"}
          PROVE  at[u] \in {"mark", "markObject"}
      BY <1>0, <2>1
    <2> QED
      BY <1>0, <1>1, <2>1 DEF StoredInv, Firing
  <1>5. ASSUME NEW u \in Thread, NEW y \in Type, Sole(u), NEW k, k = <<Source[u], y>>
        PROVE  /\ at'[u] # "idle" => cooldowns'[k] <= now[u]
               /\ \A o \in Object : dedupCache[<<k, o>>] <= cooldowns'[k]
               /\ \A i \in Firing : fired[i].key = k =>
                      \/ fired[i].time <= cooldowns'[k]
                      \/ at'[u] = "mark" /\ KeyOf(u) = k /\ fired[i].time <= now[u]
               /\ Passed(u)' /\ KeyOf(u) = k =>
                      IF at'[u] = "markObject" THEN cooldowns'[k] = now[u]
                      ELSE now[u] - cooldowns'[k] >= Cooldown
    <2>0. k \in Key
      BY <1>5 DEF Key
    <2>1. /\ at[u] # "idle" => cooldowns[k] <= now[u]
          /\ \A o \in Object : dedupCache[<<k, o>>] <= cooldowns[k]
          /\ \A i \in Firing : fired[i].key = k =>
                 \/ fired[i].time <= cooldowns[k]
                 \/ at[u] = "mark" /\ KeyOf(u) = k /\ fired[i].time <= now[u]
          /\ Passed(u) /\ KeyOf(u) = k =>
                 IF at[u] = "markObject" THEN cooldowns[k] = now[u]
                 ELSE now[u] - cooldowns[k] >= Cooldown
      BY <1>0, <1>5 DEF SoleInv
    <2>2. CASE u # t
      <3>1. KeyOf(t) # k
        BY <1>5, <2>2 DEF KeyOf, Sole
      <3>2. cooldowns'[k] = cooldowns[k]
        BY <1>2, <2>0, <3>1
      <3> QED
        BY <1>0, <2>1, <2>2, <3>2 DEF Passed
    <2>3. CASE u = t /\ KeyOf(t) # k
      <3>1. cooldowns'[k] = cooldowns[k]
        BY <1>2, <2>0, <2>3
      <3> QED
        BY <1>0, <2>1, <2>3, <3>1 DEF Passed
    <2>4. CASE u = t /\ KeyOf(t) = k
      <3>1. cooldowns'[k] = now[t] /\ cooldowns[k] <= now[t] /\ cooldowns[k] \in Nat
        BY <1>0, <1>2, <2>0, <2>1, <2>4
      <3>2. \A o \in Object : dedupCache[<<k, o>>] <= now[t]
        <4> TAKE o \in Object
        <4>1. dedupCache[<<k, o>>] \in Nat
          BY <1>0, <2>0 DEF TypeOK
        <4> QED
          BY <1>2, <2>1, <3>1, <4>1
      <3>3. \A i \in Firing : fired[i].key = k => fired[i].time <= now[t]
        <4> TAKE i \in Firing
        <4>1. fired[i].time \in Nat
          BY <1>0, FiredDated
        <4> QED
          BY <1>2, <2>1, <2>4, <3>1, <4>1
      <3> QED
        BY <1>0, <1>2, <2>4, <3>1, <3>2, <3>3 DEF Passed
    <2> QED
      BY <2>2, <2>3, <2>4
  <1>6. SoleInv'
    BY SMTT(30), <1>0, <1>1, <1>5 DEF SoleInv, Firing
  <1> QED
    BY <1>3, <1>4, <1>6, TypeOK' DEF CoolingInv

\* The object's mark moves to where its type's mark is.
LEMMA MarkObjectKeeps ==
    ASSUME CoolingInv, TypeOK', NEW t \in Thread, MarkObject(t) PROVE CoolingInv'
  <1>0. /\ TypeOK /\ TimesInv /\ StoredInv /\ SoleInv
        /\ UNCHANGED <<clock, cooldowns, job, now, fired>>
        /\ at[t] = "markObject" /\ at'[t] = "idle"
        /\ dedupCache' = [dedupCache EXCEPT ![ObjectKey(t)] = now[t]]
        /\ \A u \in Thread : u # t => at'[u] = at[u]
    BY DEF CoolingInv, TypeOK, MarkObject, Goto, local
  <1>1. \A u \in Thread : KeyOf(u)' = KeyOf(u)
    BY <1>0 DEF KeyOf
  <1>2. TimesInv'
    BY <1>0 DEF TimesInv
  <1>3. StoredInv'
    BY <1>0, <1>1 DEF StoredInv, Firing
  <1>4. ASSUME NEW u \in Thread, NEW y \in Type, Sole(u), NEW k, k = <<Source[u], y>>
        PROVE  /\ at'[u] # "idle" => cooldowns[k] <= now[u]
               /\ \A o \in Object : dedupCache'[<<k, o>>] <= cooldowns[k]
               /\ \A i \in Firing : fired[i].key = k =>
                      \/ fired[i].time <= cooldowns[k]
                      \/ at'[u] = "mark" /\ KeyOf(u) = k /\ fired[i].time <= now[u]
               /\ Passed(u)' /\ KeyOf(u) = k =>
                      IF at'[u] = "markObject" THEN cooldowns[k] = now[u]
                      ELSE now[u] - cooldowns[k] >= Cooldown
    <2>0. k \in Key
      BY <1>4 DEF Key
    <2>1. /\ at[u] # "idle" => cooldowns[k] <= now[u]
          /\ \A o \in Object : dedupCache[<<k, o>>] <= cooldowns[k]
          /\ \A i \in Firing : fired[i].key = k =>
                 \/ fired[i].time <= cooldowns[k]
                 \/ at[u] = "mark" /\ KeyOf(u) = k /\ fired[i].time <= now[u]
          /\ Passed(u) /\ KeyOf(u) = k =>
                 IF at[u] = "markObject" THEN cooldowns[k] = now[u]
                 ELSE now[u] - cooldowns[k] >= Cooldown
      BY <1>0, <1>4 DEF SoleInv
    <2>2. \A o \in Object : dedupCache'[<<k, o>>] <= cooldowns[k]
      <3> TAKE o \in Object
      <3>1. <<k, o>> \in Key \X Object
        BY <2>0
      <3>2. CASE ObjectKey(t) # <<k, o>>
        BY <1>0, <2>1, <3>1, <3>2 DEF TypeOK
      <3>3. CASE ObjectKey(t) = <<k, o>>
        <4>1. KeyOf(t) = k
          BY <3>3 DEF ObjectKey
        <4>2. u = t
          BY <1>4, <4>1 DEF KeyOf, Sole
        <4>3. cooldowns[k] = now[t] /\ now[t] \in Nat
          BY <1>0, <2>1, <4>1, <4>2 DEF Passed, TypeOK
        <4>4. dedupCache'[<<k, o>>] = now[t]
          BY <1>0, <3>1, <3>3 DEF TypeOK
        <4> QED
          BY <4>3, <4>4
      <3> QED
        BY <3>2, <3>3
    <2>3. CASE u # t
      BY <1>0, <2>1, <2>2, <2>3 DEF Passed
    <2>4. CASE u = t
      BY <1>0, <2>1, <2>2, <2>4 DEF Passed
    <2> QED
      BY <2>3, <2>4
  <1>5. SoleInv'
    BY <1>0, <1>1, <1>4 DEF SoleInv, Firing
  <1> QED
    BY <1>2, <1>3, <1>5, TypeOK' DEF CoolingInv

\* The invariant of the processing pipeline.
THEOREM CoolingInvariant == Spec => []CoolingInv
  <1>1. Init => CoolingInv
    <2> SUFFICES ASSUME Init PROVE CoolingInv
      OBVIOUS
    <2>1. TypeOK
      <3>1. (CHOOSE e \in Event : TRUE) \in Event
        BY AlertAssumption
      <3>2. job \in [Thread -> Event]
        BY <3>1 DEF Init
      <3>3. at \in [Thread -> Step] /\ now \in [Thread -> Nat] /\ escalated \in [Thread -> BOOLEAN]
        BY DEF Init, Step
      <3>4. cooldowns \in [Key -> Nat] /\ dedupCache \in [Key \X Object -> Nat]
        BY DEF Init
      <3>5. clock \in Nat /\ received \in Nat /\ orderly \in BOOLEAN
        BY AlertAssumption DEF Init
      <3>6. /\ warningWindow \in Seq(Nat) /\ warned \in Seq(Nat)
            /\ alerts \in Seq(AlertType) /\ fired \in Seq(AlertType)
        BY DEF Init
      <3> QED
        BY <3>2, <3>3, <3>4, <3>5, <3>6 DEF TypeOK
    <2>2. \A t \in Thread : at[t] = "idle"
      BY DEF Init
    <2>3. (\A k \in Key : cooldowns[k] = 0) /\ clock \in Nat
      BY AlertAssumption DEF Init
    <2>4. \A k \in Key, o \in Object : dedupCache[<<k, o>>] = 0
      BY DEF Init
    <2>5. Firing = {}
      BY DEF Init, Firing
    <2>6. \A t \in Thread, y \in Type : <<Source[t], y>> \in Key
      BY DEF Key
    <2> QED
      BY <2>1, <2>2, <2>3, <2>4, <2>5, <2>6 DEF CoolingInv, TimesInv, StoredInv, SoleInv, Passed
  <1>2. CoolingInv /\ [Next]_vars => CoolingInv'
    <2> SUFFICES ASSUME CoolingInv, [Next]_vars PROVE CoolingInv'
      OBVIOUS
    <2>0. TypeOK /\ TimesInv /\ StoredInv /\ SoleInv /\ TypeOK'
      BY TypeKept DEF CoolingInv
    <2>1. CASE Tick \/ UNCHANGED vars
      <3>1. /\ UNCHANGED <<cooldowns, dedupCache, at, job, now, fired>>
            /\ clock' \in {clock, clock + 1}
        BY <2>1 DEF Tick, vars, tables, local
      <3>2. TimesInv'
        <4>1. clock \in Nat /\ (\A u \in Thread : now[u] \in Nat)
              /\ (\A k \in Key : cooldowns[k] \in Nat)
          BY <2>0 DEF TypeOK
        <4> QED
          BY <2>0, <3>1, <4>1 DEF TimesInv
      <3>3. StoredInv'
        BY <2>0, <3>1 DEF StoredInv, Firing, KeyOf
      <3>4. SoleInv'
        <4>1. Firing' = Firing /\ \A t \in Thread : KeyOf(t)' = KeyOf(t) /\ (Passed(t)' <=> Passed(t))
          BY <3>1 DEF Firing, KeyOf, Passed
        <4> QED
          BY <2>0, <3>1, <4>1 DEF SoleInv
      <3> QED
        BY <2>0, <3>2, <3>3, <3>4 DEF CoolingInv
    <2>2. ASSUME NEW t \in Thread, NEW e \in Event, Receive(t, e) PROVE CoolingInv'
      BY <2>0, <2>2, ReceiveKeeps
    <2>3. ASSUME NEW t \in Thread, Quiet(t) PROVE CoolingInv'
      BY <2>0, <2>3, QuietKeeps
    <2>4. ASSUME NEW t \in Thread, Store(t) PROVE CoolingInv'
      BY <2>0, <2>4, StoreKeeps
    <2>5. ASSUME NEW t \in Thread, Mark(t) PROVE CoolingInv'
      BY <2>0, <2>5, MarkKeeps
    <2>6. ASSUME NEW t \in Thread, MarkObject(t) PROVE CoolingInv'
      BY <2>0, <2>6, MarkObjectKeeps
    <2> QED
      BY <2>1, <2>2, <2>3, <2>4, <2>5, <2>6 DEF Next, Proceed, Quiet
  <1> QED
    BY <1>1, <1>2, PTL DEF Spec

\* For a module with one thread the second filter drops nothing.
THEOREM DedupAddsNothingThm == Spec => []DedupAddsNothing
  <1>1. CoolingInv => DedupAddsNothing
    <2> SUFFICES ASSUME CoolingInv, NEW t \in Thread, Sole(t), at[t] = "dedup",
                        job[t].object # NoObject
                 PROVE  now[t] - dedupCache[ObjectKey(t)] >= Cooldown
      BY DEF DedupAddsNothing
    <2>1. TypeOK /\ SoleInv
      BY DEF CoolingInv
    <2> DEFINE k == KeyOf(t)
    <2>2. /\ k \in Key /\ k = <<Source[t], job[t].type>> /\ job[t].type \in Type
          /\ job[t].object \in Object /\ ObjectKey(t) \in Key \X Object
          /\ ObjectKey(t) = <<k, job[t].object>>
      BY <2>1, Keys DEF ObjectKey
    <2>3. dedupCache[ObjectKey(t)] <= cooldowns[k] /\ now[t] - cooldowns[k] >= Cooldown
      BY <2>1, <2>2 DEF SoleInv, Passed
    <2>4. /\ dedupCache[ObjectKey(t)] \in Nat /\ cooldowns[k] \in Nat
          /\ now[t] \in Nat /\ Cooldown \in Nat
      BY <2>1, <2>2, AlertAssumption DEF TypeOK
    <2> QED
      BY <2>3, <2>4
  <1> QED
    BY <1>1, CoolingInvariant, PTL

\* An event is suppressed only for an alert that has been stored.
THEOREM MarksThm == Spec => []MarksStandForAlerts
  <1>1. Init => MarksStandForAlerts
    BY DEF Init, MarksStandForAlerts
  <1>2. CoolingInv /\ MarksStandForAlerts /\ [Next]_vars => MarksStandForAlerts'
    <2> SUFFICES ASSUME CoolingInv, MarksStandForAlerts, [Next]_vars PROVE MarksStandForAlerts'
      OBVIOUS
    <2>0. TypeOK /\ StoredInv
      BY DEF CoolingInv
    <2>1. ASSUME UNCHANGED <<cooldowns, dedupCache, fired>> PROVE MarksStandForAlerts'
      BY <2>1 DEF MarksStandForAlerts, Firing
    <2>2. ASSUME NEW t \in Thread, Store(t) PROVE MarksStandForAlerts'
      <3>1. /\ Len(fired) \in Nat /\ Len(fired') = Len(fired) + 1
            /\ \A i \in Firing : fired'[i] = fired[i]
        BY <2>0, <2>2, StoreAppends
      <3>2. Firing \subseteq Firing' /\ UNCHANGED <<cooldowns, dedupCache>>
        BY <2>2, <3>1 DEF Firing, Store, tables
      <3> QED
        BY <3>1, <3>2 DEF MarksStandForAlerts
    <2>3. ASSUME NEW t \in Thread, Mark(t) \/ MarkObject(t) PROVE MarksStandForAlerts'
      <3>1. PICK i \in Firing : /\ fired[i].key = KeyOf(t) /\ fired[i].time = now[t]
                                /\ fired[i].object = job[t].object
        BY <2>0, <2>3 DEF StoredInv, Mark, MarkObject
      <3>2. UNCHANGED fired
        BY <2>3 DEF Mark, MarkObject
      <3>3. \A k \in Key : cooldowns'[k] \in {cooldowns[k]}
                \/ (k = KeyOf(t) /\ cooldowns'[k] = now[t])
        BY <2>0, <2>3 DEF Mark, MarkObject, TypeOK
      <3>4. \A k \in Key, o \in Object : dedupCache'[<<k, o>>] = dedupCache[<<k, o>>]
                \/ (k = KeyOf(t) /\ o = job[t].object /\ dedupCache'[<<k, o>>] = now[t])
        BY <2>0, <2>3 DEF Mark, MarkObject, TypeOK, ObjectKey
      <3> QED
        BY <3>1, <3>2, <3>3, <3>4 DEF MarksStandForAlerts, Firing
    <2>4. ASSUME NEW t \in Thread, Quiet(t) PROVE MarksStandForAlerts'
      <3>1. UNCHANGED <<cooldowns, dedupCache, fired>>
        BY <2>0, <2>4, QuietMoves DEF tables
      <3> QED
        BY <2>1, <3>1
    <2>5. ASSUME NEW t \in Thread, NEW e \in Event, Receive(t, e) PROVE MarksStandForAlerts'
      BY <2>1, <2>5 DEF Receive, tables
    <2>6. CASE Tick \/ UNCHANGED vars
      BY <2>1, <2>6 DEF Tick, vars, tables
    <2> QED
      BY <2>2, <2>3, <2>4, <2>5, <2>6 DEF Next, Proceed, Quiet
  <1> QED
    BY <1>1, <1>2, CoolingInvariant, PTL DEF Spec

\* Alerts of one type are a cooldown apart, if the module has one thread.
THEOREM CooldownHeldThm == Spec => []CooldownHeld
  <1>1. Init => CooldownHeld
    BY DEF Init, CooldownHeld, Firing
  <1>2. CoolingInv /\ CooldownHeld /\ [Next]_vars => CooldownHeld'
    <2> SUFFICES ASSUME CoolingInv, CooldownHeld, [Next]_vars PROVE CooldownHeld'
      OBVIOUS
    <2>0. TypeOK /\ SoleInv
      BY DEF CoolingInv
    <2>1. ASSUME NEW t \in Thread, Store(t) PROVE CooldownHeld'
      <3>1. /\ Len(fired) \in Nat /\ Len(fired') = Len(fired) + 1
            /\ \A i \in Firing : fired'[i] = fired[i]
            /\ fired'[Len(fired) + 1] = Alert(t)
        BY <2>0, <2>1, StoreAppends
      <3>2. at[t] = "store" /\ Alert(t).key = KeyOf(t) /\ Alert(t).time = now[t]
        BY <2>1 DEF Store, Alert
      <3>3. ASSUME NEW i \in Firing', NEW j \in Firing', NEW u \in Thread, i < j,
                   fired'[i].key = fired'[j].key, fired'[i].key[1] = Source[u], Sole(u)
            PROVE  fired'[j].time - fired'[i].time >= Cooldown
        <4>1. i \in Firing /\ fired'[i] = fired[i]
          BY <3>1, <3>3 DEF Firing
        <4>2. CASE j \in Firing
          <5>1. fired'[j] = fired[j]
            BY <3>1, <4>2
          <5> QED
            BY <3>3, <4>1, <4>2, <5>1 DEF CooldownHeld
        <4>3. CASE j = Len(fired) + 1
          <5>1. fired[i].key = KeyOf(t) /\ KeyOf(t)[1] = Source[t]
            BY <3>1, <3>2, <3>3, <4>1, <4>3 DEF KeyOf
          <5>2. u = t
            BY <3>3, <4>1, <5>1 DEF Sole
          <5>3. KeyOf(t) = <<Source[t], job[t].type>> /\ job[t].type \in Type /\ KeyOf(t) \in Key
            BY <2>0, Keys
          <5>4. fired[i].time <= cooldowns[KeyOf(t)] /\ now[t] - cooldowns[KeyOf(t)] >= Cooldown
            BY <2>0, <3>2, <3>3, <4>1, <5>1, <5>2, <5>3 DEF SoleInv, Passed
          <5>5. /\ fired[i].time \in Nat /\ cooldowns[KeyOf(t)] \in Nat
                /\ now[t] \in Nat /\ Cooldown \in Nat
            BY <2>0, <4>1, <5>3, FiredDated, AlertAssumption DEF TypeOK
          <5> QED
            BY <3>1, <3>2, <4>1, <4>3, <5>4, <5>5
        <4> QED
          BY <3>1, <4>2, <4>3 DEF Firing
      <3> QED
        BY <3>3 DEF CooldownHeld, Sole
    <2>2. CASE UNCHANGED fired
      BY <2>2 DEF CooldownHeld, Firing, Sole
    <2>3. ASSUME NEW t \in Thread, Quiet(t) PROVE UNCHANGED fired
      BY <2>0, <2>3, QuietMoves
    <2> QED
      BY <2>1, <2>2, <2>3 DEF Next, Proceed, Quiet, Tick, Receive, Mark, MarkObject, vars
  <1> QED
    BY <1>1, <1>2, CoolingInvariant, PTL DEF Spec

\* What a full deque holds after an append.
LEMMA Kept ==
    ASSUME NEW d \in Seq(AlertType), NEW a \in AlertType
    PROVE  /\ Len(Keep(d, a)) = IF Len(d) < MaxAlerts THEN Len(d) + 1 ELSE Len(d)
           /\ \A i \in 1 .. Len(Keep(d, a)) :
                  Keep(d, a)[i] = Append(d, a)[IF Len(d) < MaxAlerts THEN i ELSE i + 1]
           /\ \A i \in 1 .. Len(d) : Append(d, a)[i] = d[i]
           /\ Append(d, a)[Len(d) + 1] = a
  <1> DEFINE b == Append(d, a)
  <1>1. /\ b \in Seq(AlertType) /\ b # <<>> /\ Len(b) = Len(d) + 1 /\ Len(d) \in Nat
        /\ \A i \in 1 .. Len(d) : b[i] = d[i]
        /\ b[Len(d) + 1] = a
    BY AppendProperties, LenProperties
  <1> HIDE DEF b
  <1>2. /\ Len(Tail(b)) = Len(b) - 1
        /\ \A i \in 1 .. Len(Tail(b)) : Tail(b)[i] = b[i + 1]
    BY <1>1, HeadTailProperties
  <1>3. Keep(d, a) = IF Len(d) < MaxAlerts THEN b ELSE Tail(b)
    BY DEF Keep, b
  <1>4. CASE Len(d) < MaxAlerts
    BY <1>1, <1>3, <1>4 DEF b
  <1>5. CASE ~(Len(d) < MaxAlerts)
    BY <1>1, <1>2, <1>3, <1>5 DEF b
  <1> QED
    BY <1>4, <1>5

\* A stored alert pushes out the oldest at most.
LEMMA StoreKeepsRecent ==
    ASSUME TypeOK, AlertsAreRecent, NEW t \in Thread, Store(t)
    PROVE  AlertsAreRecent'
  <1> DEFINE gone == Len(fired) - Len(alerts)
             b == Append(alerts, Alert(t))
  <1>1. /\ alerts' = Keep(alerts, Alert(t)) /\ alerts \in Seq(AlertType)
        /\ Alert(t) \in AlertType /\ Len(alerts) \in Nat /\ MaxAlerts \in Nat
    BY Keys, AlertAssumption, LenProperties DEF Store, TypeOK
  <1>2. /\ Len(fired) \in Nat /\ Len(fired') = Len(fired) + 1
        /\ \A i \in Firing : fired'[i] = fired[i]
        /\ fired'[Len(fired) + 1] = Alert(t)
    BY StoreAppends
  <1>3. /\ Len(alerts) = IF Len(fired) < MaxAlerts THEN Len(fired) ELSE MaxAlerts
        /\ \A i \in 1 .. Len(alerts) : alerts[i] = fired[gone + i]
    BY DEF AlertsAreRecent
  <1>4. /\ Len(alerts') = IF Len(alerts) < MaxAlerts THEN Len(alerts) + 1 ELSE Len(alerts)
        /\ \A i \in 1 .. Len(alerts') :
               alerts'[i] = b[IF Len(alerts) < MaxAlerts THEN i ELSE i + 1]
        /\ \A i \in 1 .. Len(alerts) : b[i] = alerts[i]
        /\ b[Len(alerts) + 1] = Alert(t)
    BY <1>1, Kept
  <1> HIDE DEF b
  <1>5. \A i \in 1 .. Len(alerts) + 1 : b[i] = fired'[gone + i]
    <2>1. \A i \in 1 .. Len(alerts) : gone + i \in Firing
      BY <1>1, <1>2, <1>3 DEF Firing
    <2>2. \A i \in 1 .. Len(alerts) : b[i] = fired'[gone + i]
      BY <1>2, <1>3, <1>4, <2>1
    <2>3. gone + (Len(alerts) + 1) = Len(fired) + 1
      BY <1>1, <1>2
    <2>4. b[Len(alerts) + 1] = fired'[gone + (Len(alerts) + 1)]
      BY <1>2, <1>4, <2>3
    <2> TAKE i \in 1 .. Len(alerts) + 1
    <2>5. i \in 1 .. Len(alerts) \/ i = Len(alerts) + 1
      BY <1>1
    <2> QED
      BY <2>2, <2>4, <2>5
  <1>6. ASSUME NEW i \in 1 .. Len(alerts')
        PROVE  alerts'[i] = fired'[Len(fired') - Len(alerts') + i]
    <2>1. CASE Len(alerts) < MaxAlerts
      BY SMTT(30), <1>1, <1>2, <1>4, <1>5, <2>1
    <2>2. CASE ~(Len(alerts) < MaxAlerts)
      <3>1. i + 1 \in 1 .. Len(alerts) + 1 /\ i \in Int /\ alerts'[i] = b[i + 1]
        BY <1>1, <1>4, <2>2
      <3>2. gone + (i + 1) = Len(fired') - Len(alerts') + i
        BY <1>1, <1>2, <1>4, <2>2, <3>1
      <3> QED
        BY <1>5, <3>1, <3>2
    <2> QED
      BY <2>1, <2>2
  <1>7. Len(alerts') = IF Len(fired') < MaxAlerts THEN Len(fired') ELSE MaxAlerts
    BY <1>1, <1>2, <1>3, <1>4
  <1> QED
    BY <1>6, <1>7 DEF AlertsAreRecent

-----------------------------------------------------------------------------
(* The escalation                                                          *)

\* The counting threads and the warnings are as they were.
LEMMA WindowUntouched ==
    ASSUME WindowInv, UNCHANGED warnings,
           \A u \in Thread : at'[u] \in Counting => at'[u] = at[u] /\ now'[u] = now[u]
    PROVE  WindowInv'
  BY DEF WindowInv, warnings, Dropped

\* A warning that finds no other being counted is the latest, and what has been
\* dropped is as old for it as for the one before.
LEMMA WarnKeeps ==
    ASSUME TypeOK, WindowInv, NEW t \in Thread, Warn(t)
    PROVE  WindowInv'
  <1> DEFINE n == Len(warned)
             k == Len(warningWindow)
  <1>1. /\ warned \in Seq(Nat) /\ warningWindow \in Seq(Nat) /\ n \in Nat /\ k \in Nat
        /\ now[t] \in Nat /\ Window \in Nat
    BY LenProperties, AlertAssumption DEF TypeOK
  <1>2. /\ warned' = Append(warned, now[t]) /\ warningWindow' = Append(warningWindow, now[t])
        /\ UNCHANGED now
    BY DEF Warn, local
  <1>3. /\ Len(warned') = n + 1 /\ \A i \in 1 .. n : warned'[i] = warned[i]
        /\ warned'[n + 1] = now[t]
        /\ Len(warningWindow') = k + 1 /\ \A i \in 1 .. k : warningWindow'[i] = warningWindow[i]
        /\ warningWindow'[k + 1] = now[t]
    BY <1>1, <1>2, AppendProperties
  <1>4. /\ at'[t] = "prune" /\ \A u \in Thread : u # t => at'[u] = at[u]
    BY Moves DEF Warn, Step, Counting
  <1>5. orderly' = (orderly /\ (\A u \in Thread : at[u] \notin Counting)
                            /\ (warned # <<>> => now[t] >= warned[n]))
    BY DEF Warn
  <1> SUFFICES ASSUME orderly' PROVE WindowInv'
    BY DEF WindowInv
  <1>6. /\ orderly /\ \A u \in Thread : at[u] \notin Counting
        /\ n > 0 => now[t] >= warned[n]
    <2>1. /\ orderly /\ \A u \in Thread : at[u] \notin Counting
          /\ warned # <<>> => now[t] >= warned[n]
      BY <1>5
    <2>2. n > 0 => warned # <<>>
      BY <1>1, EmptySeq
    <2> QED
      BY <2>1, <2>2
  <1>7. /\ k <= n
        /\ \A i \in 1 .. k : warningWindow[i] = warned[n - k + i]
        /\ \A i, j \in 1 .. n : i < j => warned[i] <= warned[j]
        /\ \A i \in 1 .. n - k : warned[i] < warned[n] - Window
    BY <1>6 DEF WindowInv, Dropped
  <1>8. \A i \in 1 .. n : warned[i] \in Nat
    BY <1>1, ElementOfSeq
  <1>9. Dropped' = n - k
    BY <1>1, <1>3 DEF Dropped
  <1> HIDE DEF n, k
  <1>10. \A i \in 1 .. n : warned[i] <= now[t]
    <2> TAKE i \in 1 .. n
    <2>1. n \in 1 .. n /\ n > 0 /\ (i = n \/ i < n)
      BY <1>1
    <2>2. warned[n] <= now[t] /\ warned[i] <= warned[n]
      <3>1. warned[n] <= now[t] /\ warned[n] \in Nat
        BY <1>6, <1>8, <2>1
      <3>2. i < n => warned[i] <= warned[n]
        BY <1>7, <2>1
      <3> QED
        BY <2>1, <3>1, <3>2
    <2>3. warned[i] \in Nat /\ warned[n] \in Nat
      BY <1>8, <2>1
    <2> QED
      BY <1>1, <2>2, <2>3
  <1>11. \A i \in 1 .. Len(warningWindow') : warningWindow'[i] = warned'[Dropped' + i]
    <2> SUFFICES ASSUME NEW i \in 1 .. k + 1 PROVE warningWindow'[i] = warned'[n - k + i]
      BY <1>3, <1>9
    <2>1. CASE i = k + 1
      <3>1. n - k + i = n + 1
        BY <1>1, <2>1
      <3> QED
        BY <1>3, <2>1, <3>1
    <2>2. CASE i \in 1 .. k
      <3>1. n - k + i \in 1 .. n
        BY <1>1, <1>7, <2>2
      <3> QED
        BY <1>3, <1>7, <2>2, <3>1
    <2> QED
      BY <1>1, <2>1, <2>2
  <1>12. ASSUME NEW i \in 1 .. Len(warned'), NEW j \in 1 .. Len(warned'), i < j
         PROVE  warned'[i] <= warned'[j]
    <2>1. i \in 1 .. n /\ (j \in 1 .. n \/ j = n + 1)
      BY <1>1, <1>3, <1>12
    <2> QED
      BY <1>3, <1>7, <1>10, <1>12, <2>1
  <1>13. \A i \in 1 .. Dropped' : warned'[i] < warned'[Len(warned')] - Window
    <2> SUFFICES ASSUME NEW i \in 1 .. n - k PROVE warned'[i] < now[t] - Window
      BY <1>3, <1>9
    <2>1. i \in 1 .. n /\ warned[i] < warned[n] - Window /\ n \in 1 .. n
      BY <1>1, <1>7
    <2>2. warned'[i] = warned[i] /\ warned[n] <= now[t]
      BY <1>3, <1>10, <2>1
    <2>3. warned[i] \in Nat /\ warned[n] \in Nat
      BY <1>8, <2>1
    <2> QED
      BY SMTT(30), <1>1, <2>1, <2>2, <2>3
  <1>14. \A u \in Thread : at'[u] \in Counting => u = t
    BY <1>4, <1>6
  <1>15. warned' # <<>> /\ now'[t] = warned'[Len(warned')]
    BY SMTT(30), <1>1, <1>2, <1>3
  <1>16. Len(warningWindow') <= Len(warned')
    BY <1>1, <1>3, <1>7
  <1>17. ASSUME NEW u \in Thread, at'[u] \in Counting
         PROVE  /\ \A v \in Thread : at'[v] \in Counting => v = u
                /\ warned' # <<>> /\ now'[u] = warned'[Len(warned')]
                /\ at'[u] # "pop" /\ at'[u] # "count"
    <2>1. u = t
      BY <1>14, <1>17
    <2> QED
      BY <1>4, <1>14, <1>15, <2>1
  <1> QED
    BY <1>11, <1>12, <1>13, <1>16, <1>17 DEF WindowInv

\* While a thread counts, its own warning is in the window: it is not older
\* than itself.
LEMMA WindowHoldsOwn ==
    ASSUME TypeOK, WindowInv, orderly, NEW t \in Thread, at[t] \in Counting
    PROVE  warningWindow # <<>> /\ Len(warningWindow) \in 1 .. Len(warned)
  <1> DEFINE n == Len(warned)
             k == Len(warningWindow)
  <1>1. /\ warned \in Seq(Nat) /\ warningWindow \in Seq(Nat) /\ n \in Nat /\ k \in Nat
        /\ Window \in Nat
    BY LenProperties, AlertAssumption DEF TypeOK
  <1>2. k <= n /\ warned # <<>> /\ \A i \in 1 .. n - k : warned[i] < warned[n] - Window
    BY DEF WindowInv, Dropped
  <1>3. n > 0
    BY <1>1, <1>2, EmptySeq
  <1>4. warned[n] \in Nat
    BY <1>1, <1>3, ElementOfSeq
  <1>5. ~(warned[n] < warned[n] - Window)
    BY <1>1, <1>4
  <1>6. n \notin 1 .. n - k
    BY <1>2, <1>5
  <1>7. k > 0
    BY <1>1, <1>2, <1>3, <1>6
  <1> QED
    BY <1>1, <1>2, <1>7, EmptySeq

\* The loop looks at the head of the window and at nothing else.
LEMMA LookKeeps ==
    ASSUME TypeOK, WindowInv, NEW t \in Thread, Prune(t) \/ LookAtHead(t)
    PROVE  WindowInv'
  <1>1. UNCHANGED <<warningWindow, warned, orderly, now>> /\ at[t] \in {"prune", "head"}
    BY DEF Prune, LookAtHead, warnings, local
  <1> SUFFICES ASSUME orderly PROVE WindowInv'
    BY <1>1 DEF WindowInv
  <1>2. at[t] \in Counting
    BY <1>1 DEF Counting
  <1>3. warningWindow # <<>> /\ Head(warningWindow) = warningWindow[1]
        /\ warningWindow[1] \in Nat /\ Window \in Nat /\ now[t] \in Nat
    <2>1. warningWindow \in Seq(Nat) /\ warningWindow # <<>>
      BY <1>2, WindowHoldsOwn DEF TypeOK
    <2>2. 1 \in 1 .. Len(warningWindow)
      BY <1>2, WindowHoldsOwn, LenProperties, <2>1
    <2> QED
      BY SMTT(30), <2>1, <2>2, ElementOfSeq, HeadTailProperties, AlertAssumption DEF TypeOK
  <1>4. CASE Prune(t)
    <2>1. at'[t] = "head" /\ \A u \in Thread : u # t => at'[u] = at[u]
      BY <1>3, <1>4, Moves DEF Prune, Step, Counting
    <2> QED
      BY <1>1, <1>2, <2>1 DEF WindowInv, Dropped, Counting
  <1>5. CASE LookAtHead(t)
    <2>1. /\ \/ at'[t] = "pop" /\ warningWindow[1] < now[t] - Window
             \/ at'[t] = "count" /\ ~(warningWindow[1] < now[t] - Window)
          /\ \A u \in Thread : u # t => at'[u] = at[u]
      BY <1>3, <1>5, Moves DEF LookAtHead, Step, Counting
    <2>2. \/ at'[t] = "pop" /\ warningWindow[1] < now[t] - Window
          \/ at'[t] = "count" /\ warningWindow[1] >= now[t] - Window
      BY <1>3, <2>1
    <2>3. \A u \in Thread : at'[u] \in Counting => u = t
      BY <1>2, <2>1 DEF WindowInv
    <2> QED
      BY <1>1, <1>2, <2>1, <2>2, <2>3 DEF WindowInv, Dropped
  <1> QED
    BY <1>4, <1>5

\* What popleft() takes is what the thread has looked at.
LEMMA PopKeeps ==
    ASSUME TypeOK, WindowInv, NEW t \in Thread, Pop(t)
    PROVE  WindowInv'
  <1> DEFINE n == Len(warned)
             k == Len(warningWindow)
  <1>1. UNCHANGED <<warned, orderly, now>> /\ at[t] = "pop"
    BY DEF Pop, local
  <1> SUFFICES ASSUME orderly PROVE WindowInv'
    BY <1>1 DEF WindowInv
  <1>2. warningWindow # <<>> /\ k \in 1 .. n /\ n \in Nat
    BY <1>1, WindowHoldsOwn, LenProperties DEF Counting, TypeOK
  <1>3. /\ warningWindow' = Tail(warningWindow) /\ at'[t] = "prune"
        /\ \A u \in Thread : u # t => at'[u] = at[u]
    BY <1>2, Moves DEF Pop, Step, Counting
  <1>4. Len(warningWindow') = k - 1
        /\ \A i \in 1 .. k - 1 : warningWindow'[i] = warningWindow[i + 1]
    BY <1>2, <1>3, HeadTailProperties DEF TypeOK
  <1>5. /\ \A i \in 1 .. k : warningWindow[i] = warned[n - k + i]
        /\ \A i \in 1 .. n - k : warned[i] < warned[n] - Window
        /\ \A u \in Thread : at[u] \in Counting => u = t
        /\ warned # <<>> /\ now[t] = warned[n]
        /\ warningWindow[1] < now[t] - Window
    BY <1>1 DEF WindowInv, Dropped, Counting
  <1>6. Dropped' = n - k + 1 /\ warned[n - k + 1] = warningWindow[1]
    <2>1. 1 \in 1 .. k
      BY <1>2
    <2> QED
      BY <1>1, <1>2, <1>4, <1>5, <2>1 DEF Dropped
  <1>7. \A i \in 1 .. Dropped' : warned[i] < warned[n] - Window
    <2> SUFFICES ASSUME NEW i \in 1 .. n - k + 1 PROVE warned[i] < warned[n] - Window
      BY <1>6
    <2>1. i \in 1 .. n - k \/ i = n - k + 1
      BY <1>2
    <2> QED
      BY <1>5, <1>6, <2>1
  <1>8. \A i \in 1 .. k - 1 : warningWindow'[i] = warned[Dropped' + i]
    <2> TAKE i \in 1 .. k - 1
    <2>1. i + 1 \in 1 .. k /\ n - k + (i + 1) = n - k + 1 + i
      BY <1>2
    <2> QED
      BY <1>4, <1>5, <1>6, <2>1
  <1>9. \A i, j \in 1 .. n : i < j => warned[i] <= warned[j]
    BY DEF WindowInv
  <1>10. k - 1 <= n
    BY <1>2
  <1>11. \A u \in Thread : at'[u] \in Counting => u = t
    BY <1>3, <1>5
  <1> QED
    BY <1>1, <1>3, <1>4, <1>5, <1>7, <1>8, <1>9, <1>10, <1>11 DEF WindowInv

\* The window stays in step with the warnings counted.
LEMMA WindowKept == TypeOK /\ WindowInv /\ [Next]_vars => WindowInv'
  <1> SUFFICES ASSUME TypeOK, WindowInv, [Next]_vars PROVE WindowInv'
    OBVIOUS
  <1>1. CASE Tick \/ UNCHANGED vars
    BY <1>1, WindowUntouched DEF Tick, vars, local
  <1>2. ASSUME NEW t \in Thread, NEW e \in Event, Receive(t, e) PROVE WindowInv'
    <2>1. /\ at'[t] = "cooldown" /\ \A u \in Thread : u # t => at'[u] = at[u] /\ now'[u] = now[u]
      BY <1>2, Moves DEF Receive, Step, TypeOK
    <2>2. UNCHANGED warnings
      BY <1>2 DEF Receive
    <2> QED
      BY <2>1, <2>2, WindowUntouched DEF Counting
  <1>3. ASSUME NEW t \in Thread, CheckCooldown(t) \/ CheckDedup(t) \/ CountWarnings(t)
        PROVE  WindowInv'
    <2>1. at'[t] \notin Counting
      <3>1. CASE CheckCooldown(t)
        BY <1>3, <3>1 DEF CheckCooldown, Goto, TypeOK, Counting
      <3>2. CASE CheckDedup(t)
        BY <1>3, <3>2 DEF CheckDedup, Goto, TypeOK, Counting
      <3>3. CASE CountWarnings(t)
        BY <1>3, <3>3 DEF CountWarnings, Goto, TypeOK, Counting
      <3> QED
        BY <1>3, <3>1, <3>2, <3>3
    <2>2. /\ UNCHANGED <<warnings, now>> /\ \A u \in Thread : u # t => at'[u] = at[u]
      BY <1>3 DEF CheckCooldown, CheckDedup, CountWarnings, Goto, TypeOK, local
    <2> QED
      BY <2>1, <2>2, WindowUntouched
  <1>4. ASSUME NEW t \in Thread, Store(t) \/ Mark(t) \/ MarkObject(t) PROVE WindowInv'
    <2>1. at'[t] \notin Counting /\ \A u \in Thread : u # t => at'[u] = at[u]
      BY <1>4 DEF Store, Mark, MarkObject, Goto, TypeOK, Counting
    <2>2. UNCHANGED <<warnings, now>>
      BY <1>4 DEF Store, Mark, MarkObject, local
    <2> QED
      BY <2>1, <2>2, WindowUntouched
  <1>5. ASSUME NEW t \in Thread, Warn(t) PROVE WindowInv'
    BY <1>5, WarnKeeps
  <1>6. ASSUME NEW t \in Thread, Prune(t) \/ LookAtHead(t) PROVE WindowInv'
    BY <1>6, LookKeeps
  <1>7. ASSUME NEW t \in Thread, Pop(t) PROVE WindowInv'
    BY <1>7, PopKeeps
  <1> QED
    BY <1>1, <1>2, <1>3, <1>4, <1>5, <1>6, <1>7 DEF Next, Proceed

\* In an interval of the warnings that are in order, those from the window's
\* head on are the ones within the window.
LEMMA WindowCounts == TypeOK /\ WindowInv => EscalationExact
  <1> SUFFICES ASSUME TypeOK, WindowInv, NEW t \in Thread, orderly, at[t] = "count"
               PROVE  Len(warningWindow) =
                      Cardinality({i \in 1 .. Len(warned) : warned[i] >= now[t] - Window})
    BY DEF EscalationExact
  <1> DEFINE n == Len(warned)
             k == Len(warningWindow)
             within == {i \in 1 .. n : warned[i] >= now[t] - Window}
  <1>1. k \in 1 .. n /\ n \in Nat /\ now[t] \in Nat /\ Window \in Nat
    BY WindowHoldsOwn, LenProperties, AlertAssumption DEF Counting, TypeOK
  <1>2. /\ \A i \in 1 .. k : warningWindow[i] = warned[n - k + i]
        /\ \A i, j \in 1 .. n : i < j => warned[i] <= warned[j]
        /\ \A i \in 1 .. n - k : warned[i] < warned[n] - Window
        /\ now[t] = warned[n] /\ warningWindow[1] >= now[t] - Window
    BY DEF WindowInv, Dropped, Counting
  <1>3. \A i \in 1 .. n : warned[i] \in Nat
    BY ElementOfSeq DEF TypeOK
  <1> HIDE DEF n, k
  <1>4. n - k + 1 \in 1 .. n /\ warned[n - k + 1] >= now[t] - Window
    <2>1. 1 \in 1 .. k
      BY <1>1
    <2> QED
      BY <1>1, <1>2, <2>1
  <1>5. \A i \in 1 .. n : i >= n - k + 1 => warned[i] >= now[t] - Window
    <2> SUFFICES ASSUME NEW i \in 1 .. n, i >= n - k + 1 PROVE warned[i] >= now[t] - Window
      OBVIOUS
    <2>1. i = n - k + 1 \/ n - k + 1 < i
      BY <1>1
    <2>2. warned[n - k + 1] <= warned[i]
      BY <1>2, <1>3, <1>4, <2>1
    <2> QED
      BY <1>1, <1>3, <1>4, <2>2
  <1>6. \A i \in 1 .. n : i < n - k + 1 => ~(warned[i] >= now[t] - Window)
    <2> SUFFICES ASSUME NEW i \in 1 .. n, i < n - k + 1 PROVE ~(warned[i] >= now[t] - Window)
      OBVIOUS
    <2>1. i \in 1 .. n - k /\ n \in 1 .. n
      BY <1>1
    <2>2. warned[i] < now[t] - Window /\ warned[i] \in Nat
      BY <1>2, <1>3, <2>1
    <2> QED
      BY <1>1, <2>2
  <1>7. within = (n - k + 1) .. n
    <2>1. \A i \in 1 .. n : i >= n - k + 1 <=> i \in (n - k + 1) .. n
      BY <1>1
    <2>2. (n - k + 1) .. n \subseteq 1 .. n
      BY <1>1
    <2>3. \A i \in 1 .. n : i >= n - k + 1 \/ i < n - k + 1
      BY <1>1
    <2> QED
      BY <1>5, <1>6, <2>1, <2>2, <2>3
  <1>8. Cardinality((n - k + 1) .. n) = k
    <2>1. n - k + 1 \in Int /\ n \in Int /\ ~(n - k + 1 > n) /\ n - (n - k + 1) + 1 = k
      BY <1>1
    <2> QED
      BY <2>1, FS_Interval
  <1> QED
    BY <1>7, <1>8 DEF n, k

\* The window holds the warnings that count, in every reachable state.
LEMMA WindowInvariant == Spec => []WindowInv
  <1>1. Init => WindowInv
    <2> SUFFICES ASSUME Init PROVE WindowInv
      OBVIOUS
    <2>1. Len(warned) = 0 /\ Len(warningWindow) = 0 /\ \A t \in Thread : at[t] \notin Counting
      BY DEF Init, Counting
    <2> QED
      BY <2>1 DEF WindowInv, Dropped
  <1>2. CoolingInv => TypeOK
    BY DEF CoolingInv
  <1> QED
    BY <1>1, <1>2, WindowKept, CoolingInvariant, PTL DEF Spec

\* What escalates is exactly the number of warnings within the window, whatever
\* the window, the clock and the threads, as long as warnings are counted one
\* after another.
THEOREM EscalationThm == Spec => []EscalationExact
  <1>1. CoolingInv => TypeOK
    BY DEF CoolingInv
  <1> QED
    BY <1>1, WindowCounts, WindowInvariant, CoolingInvariant, PTL

-----------------------------------------------------------------------------

\* Times, marks and alerts agree, the alerts served are the latest ones, and the
\* window holds the warnings that count.
THEOREM AlertInvariant == Spec => []AlertInv
  <1>1. Init => AlertsAreRecent
    <2>1. Init => Len(fired) = 0 /\ Len(alerts) = 0
      BY DEF Init
    <2> QED
      BY <2>1, AlertAssumption DEF AlertsAreRecent
  <1>2. CoolingInv /\ AlertsAreRecent /\ [Next]_vars => AlertsAreRecent'
    <2> SUFFICES ASSUME TypeOK, AlertsAreRecent, [Next]_vars PROVE AlertsAreRecent'
      BY DEF CoolingInv
    <2>1. ASSUME NEW t \in Thread, Store(t) PROVE AlertsAreRecent'
      BY <2>1, StoreKeepsRecent
    <2>2. CASE UNCHANGED <<alerts, fired>>
      BY <2>2 DEF AlertsAreRecent
    <2>3. ASSUME NEW t \in Thread, Quiet(t) PROVE UNCHANGED <<alerts, fired>>
      BY <2>3, QuietMoves
    <2> QED
      BY <2>1, <2>2, <2>3 DEF Next, Proceed, Quiet, Tick, Receive, Mark, MarkObject, vars
  <1>3. AlertInv <=> CoolingInv /\ AlertsAreRecent /\ WindowInv
    BY DEF AlertInv
  <1> QED
    BY <1>1, <1>2, <1>3, CoolingInvariant, WindowInvariant, PTL DEF Spec
=============================================================================
