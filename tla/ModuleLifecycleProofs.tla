----------------------- MODULE ModuleLifecycleProofs ------------------------
(***************************************************************************)
(* Theorems about ModuleLifecycle for any number of request threads,       *)
(* starts and background threads.                                          *)
(***************************************************************************)
EXTENDS ModuleLifecycle, TLAPS

\* The initial states satisfy the inductive invariant.
LEMMA LifecycleInit == Init => LifecycleInv
  BY ZenonT(40) DEF Init, LifecycleInv, TypeOK, RunningHasThread, CleanInv, OneCaller, ThreadInv,
         CallInv, Alive, ModuleStatus, WorkerPC

\* Every step types its next state.
LEMMA TypeKept == TypeOK /\ [Next]_vars => TypeOK'
  <1> SUFFICES ASSUME TypeOK, [Next]_vars PROVE TypeOK'
    OBVIOUS
  <1> USE DEF TypeOK, attributes, callers, ModuleStatus, StartPC, StopPC, WorkerPC, Goto, WGoto
  <1>1. ASSUME NEW k \in Caller, CallStart(k) \/ CallStop(k) \/ CallRestart(k) PROVE TypeOK'
    BY <1>1 DEF CallStart, CallStop, CallRestart, Call
  <1>2. ASSUME NEW k \in Caller, StartCheck(k) \/ StartMark(k) \/ StartReset(k) \/ StartArm(k)
        PROVE  TypeOK'
    BY <1>2 DEF StartCheck, StartMark, StartReset, StartArm, Settled
  <1>3. ASSUME NEW k \in Caller, NEW w \in Worker, StartMake(k, w) PROVE TypeOK'
    BY <1>3 DEF StartMake
  <1>4. ASSUME NEW k \in Caller, StartLaunch(k) PROVE TypeOK'
    BY <1>4 DEF StartLaunch
  <1>5. ASSUME NEW k \in Caller, StopCheck(k) \/ StopMark(k) \/ StopDisarm(k) \/ StopJoin(k)
        PROVE  TypeOK'
    BY <1>5 DEF StopCheck, StopMark, StopDisarm, StopJoin, StopReturn
  <1>6. ASSUME NEW k \in Caller,
               JoinReturn(k) \/ JoinTimeout(k) \/ StopJoined(k) \/ StopSettle(k) \/ StopDrop(k)
        PROVE  TypeOK'
    BY <1>6 DEF JoinReturn, JoinTimeout, StopJoined, StopSettle, StopDrop, StopReturn
  <1>7. ASSUME NEW w \in Worker, WorkerStep(w) \/ LoopReturn(w) \/ LoopRaise(w) PROVE TypeOK'
    BY <1>7 DEF WorkerStep, Begin, LoopExit, LoopReturn, LoopRaise, KeepError, MarkError,
                End, Close
  <1>8. CASE UNCHANGED vars
    BY <1>8 DEF vars
  <1> QED
    BY <1>1, <1>2, <1>3, <1>4, <1>5, <1>6, <1>7, <1>8 DEF Next, StartStep, StopStep

\* The thread that showed RUNNING takes it back in its finally, unless another
\* call or thread has replaced it before.
LEMMA RunningKept == TypeOK /\ RunningHasThread /\ [Next]_vars => RunningHasThread'
  <1> SUFFICES ASSUME TypeOK, RunningHasThread, [Next]_vars, status' = "running"
               PROVE  \E w \in Worker : Alive(w)'
    BY DEF RunningHasThread
  <1> USE DEF TypeOK, Alive, attributes, callers, WorkerPC, RunningHasThread
  <1>1. ASSUME NEW w \in Worker, WorkerStep(w) \/ LoopReturn(w) \/ LoopRaise(w)
        PROVE  \E v \in Worker : Alive(v)'
    BY <1>1 DEF WorkerStep, Begin, LoopExit, LoopReturn, LoopRaise, KeepError, MarkError,
                End, Close, WGoto
  <1>2. ASSUME status = "running",
               \A w \in Worker : Alive(w) => wpc'[w] = wpc[w] \/ wpc'[w] = "begun"
        PROVE  \E w \in Worker : Alive(w)'
    BY <1>2
  <1>3. ASSUME NEW k \in Caller, StartStep(k) \/ StopStep(k) \/ CallStart(k) \/ CallStop(k)
                                 \/ CallRestart(k)
        PROVE  /\ status = "running"
               /\ \A w \in Worker : Alive(w) => wpc'[w] = wpc[w] \/ wpc'[w] = "begun"
    BY <1>3 DEF StartStep, StartCheck, StartMark, StartReset, StartArm, StartMake, StartLaunch,
                StopStep, StopCheck, StopMark, StopDisarm, StopJoin, JoinReturn, JoinTimeout,
                StopJoined, StopSettle, StopDrop, CallStart, CallStop, CallRestart, Call
  <1>4. CASE UNCHANGED vars
    BY <1>2, <1>4 DEF vars
  <1> QED
    BY <1>1, <1>2, <1>3, <1>4 DEF Next

\* Careful use stays what it was: a step of a careful behaviour keeps the
\* relation of the one caller, the one thread and the status.
LEMMA CleanKept == LifecycleInv /\ [Next]_vars => CleanInv'
  <1> SUFFICES ASSUME LifecycleInv, [Next]_vars, clean'
               PROVE  OneCaller' /\ ThreadInv' /\ CallInv' /\ (status' = "error" => error')
    BY DEF CleanInv
  <1> DEFINE Goal == OneCaller' /\ ThreadInv' /\ CallInv' /\ (status' = "error" => error')
  <1>0. clean
    BY DEF Next, StartStep, StartCheck, StartMark, StartReset, StartArm, StartMake, StartLaunch,
           StopStep, StopCheck, StopMark, StopDisarm, StopJoin, JoinReturn, JoinTimeout,
           StopJoined, StopSettle, StopDrop, CallStart, CallStop, CallRestart, Call,
           WorkerStep, Begin, LoopExit, LoopReturn, LoopRaise, KeepError, MarkError,
           End, Close, vars
  <1>00. /\ TypeOK /\ TypeOK' /\ OneCaller /\ ThreadInv /\ CallInv
         /\ status = "error" => error
    BY <1>0, TypeKept DEF LifecycleInv, CleanInv
  <1> USE DEF TypeOK, OneCaller, ThreadInv, CallInv, Alive, Quiet, attributes, callers,
              Goto, WGoto
  <1>1. ASSUME NEW k \in Caller, CallStart(k) \/ CallStop(k) \/ CallRestart(k) PROVE Goal
    <2>1. CASE CallStart(k)
      <3>1. OneCaller'
        BY <1>00, <2>1 DEF CallStart, Call
      <3>2. ThreadInv'
        BY <1>00, <2>1 DEF CallStart, Call
      <3>3. CallInv' /\ (status' = "error" => error')
        BY <1>00, <2>1 DEF CallStart, Call
      <3> QED
        BY <3>1, <3>2, <3>3
    <2>2. CASE CallStop(k)
      <3>1. OneCaller'
        BY <1>00, <2>2 DEF CallStop, Call
      <3>2. ThreadInv'
        BY <1>00, <2>2 DEF CallStop, Call
      <3>3. CallInv' /\ (status' = "error" => error')
        BY <1>00, <2>2 DEF CallStop, Call
      <3> QED
        BY <3>1, <3>2, <3>3
    <2>3. CASE CallRestart(k)
      <3>1. OneCaller'
        BY <1>00, <2>3 DEF CallRestart, Call
      <3>2. ThreadInv'
        BY <1>00, <2>3 DEF CallRestart, Call
      <3>3. CallInv' /\ (status' = "error" => error')
        BY <1>00, <2>3 DEF CallRestart, Call
      <3> QED
        BY <3>1, <3>2, <3>3
    <2> QED
      BY <1>1, <2>1, <2>2, <2>3
  <1>2. ASSUME NEW k \in Caller, StartCheck(k) PROVE Goal
    <2>1. cpc[k] = "check" /\ UNCHANGED <<attributes, again, joins, wpc>>
      BY <1>2 DEF StartCheck
    <2>2. \/ cpc' = [cpc EXCEPT ![k] = "idle"]
          \/ cpc' = [cpc EXCEPT ![k] = "mark"] /\ Settled
      BY <1>2 DEF StartCheck
    <2>3. Settled => \A w \in Worker : ~Alive(w)
      BY <1>00 DEF Settled
    <2> QED
      BY <1>00, <2>1, <2>2, <2>3
  <1>3. ASSUME NEW k \in Caller, StartMark(k) \/ StartReset(k) \/ StartArm(k) PROVE Goal
    <2>1. CASE StartMark(k)
      <3>1. OneCaller'
        BY <1>00, <2>1 DEF StartMark
      <3>2. ThreadInv'
        BY <1>00, <2>1 DEF StartMark
      <3>3. CallInv' /\ (status' = "error" => error')
        BY <1>00, <2>1 DEF StartMark
      <3> QED
        BY <3>1, <3>2, <3>3
    <2>2. CASE StartReset(k)
      <3>1. OneCaller'
        BY <1>00, <2>2 DEF StartReset
      <3>2. ThreadInv'
        BY <1>00, <2>2 DEF StartReset
      <3>3. CallInv' /\ (status' = "error" => error')
        BY <1>00, <2>2 DEF StartReset
      <3> QED
        BY <3>1, <3>2, <3>3
    <2>3. CASE StartArm(k)
      <3>1. OneCaller'
        BY <1>00, <2>3 DEF StartArm
      <3>2. ThreadInv'
        BY <1>00, <2>3 DEF StartArm
      <3>3. CallInv' /\ (status' = "error" => error')
        BY <1>00, <2>3 DEF StartArm
      <3> QED
        BY <3>1, <3>2, <3>3
    <2> QED
      BY <1>3, <2>1, <2>2, <2>3
  <1>4. ASSUME NEW k \in Caller, NEW w \in Worker, StartMake(k, w) PROVE Goal
    BY <1>00, <1>4 DEF StartMake
  <1>5. ASSUME NEW k \in Caller, StartLaunch(k) PROVE Goal
    BY <1>00, <1>5 DEF StartLaunch
  <1>6. ASSUME NEW k \in Caller, StopCheck(k) \/ StopMark(k) \/ StopDisarm(k) PROVE Goal
    <2>1. CASE StopCheck(k)
      <3>1. PICK label \in {"stopmark", "check", "idle"} : cpc' = [cpc EXCEPT ![k] = label]
        BY <2>1 DEF StopCheck, StopReturn
      <3>2. cpc[k] = "stopcheck" /\ UNCHANGED <<attributes, joins, wpc>>
        BY <2>1 DEF StopCheck
      <3> QED
        BY <1>00, <3>1, <3>2
    <2>2. CASE StopMark(k)
      <3>1. OneCaller'
        BY <1>00, <2>2 DEF StopMark
      <3>2. ThreadInv'
        BY <1>00, <2>2 DEF StopMark
      <3>3. CallInv' /\ (status' = "error" => error')
        BY <1>00, <2>2 DEF StopMark
      <3> QED
        BY <3>1, <3>2, <3>3
    <2>3. CASE StopDisarm(k)
      <3>1. OneCaller'
        BY <1>00, <2>3 DEF StopDisarm
      <3>2. ThreadInv'
        BY <1>00, <2>3 DEF StopDisarm
      <3>3. CallInv' /\ (status' = "error" => error')
        BY <1>00, <2>3 DEF StopDisarm
      <3> QED
        BY <3>1, <3>2, <3>3
    <2> QED
      BY <1>6, <2>1, <2>2, <2>3
  <1>7. ASSUME NEW k \in Caller, StopJoin(k) \/ JoinReturn(k) PROVE Goal
    <2>1. CASE StopJoin(k)
      <3>1. OneCaller'
        BY <1>00, <2>1 DEF StopJoin
      <3>2. ThreadInv'
        BY <1>00, <2>1 DEF StopJoin
      <3>3. CallInv' /\ (status' = "error" => error')
        BY <1>00, <2>1 DEF StopJoin
      <3> QED
        BY <3>1, <3>2, <3>3
    <2>2. CASE JoinReturn(k)
      <3>1. OneCaller'
        BY <1>00, <2>2 DEF JoinReturn
      <3>2. ThreadInv'
        BY <1>00, <2>2 DEF JoinReturn
      <3>3. CallInv' /\ (status' = "error" => error')
        BY <1>00, <2>2 DEF JoinReturn
      <3> QED
        BY <3>1, <3>2, <3>3
    <2> QED
      BY <1>7, <2>1, <2>2
  <1>8. ASSUME NEW k \in Caller, JoinTimeout(k) PROVE Goal
    BY <1>8 DEF JoinTimeout
  <1>9. ASSUME NEW k \in Caller, StopJoined(k) \/ StopSettle(k) PROVE Goal
    <2>1. CASE StopJoined(k)
      <3>1. OneCaller'
        BY <1>00, <2>1 DEF StopJoined
      <3>2. ThreadInv'
        BY <1>00, <2>1 DEF StopJoined
      <3>3. CallInv' /\ (status' = "error" => error')
        BY <1>00, <2>1 DEF StopJoined
      <3> QED
        BY <3>1, <3>2, <3>3
    <2>2. CASE StopSettle(k)
      <3>1. OneCaller'
        BY <1>00, <2>2 DEF StopSettle
      <3>2. ThreadInv'
        BY <1>00, <2>2 DEF StopSettle
      <3>3. CallInv' /\ (status' = "error" => error')
        BY <1>00, <2>2 DEF StopSettle
      <3> QED
        BY <3>1, <3>2, <3>3
    <2> QED
      BY <1>9, <2>1, <2>2
  <1>10. ASSUME NEW k \in Caller, StopDrop(k) PROVE Goal
    BY <1>00, <1>10 DEF StopDrop, StopReturn
  <1>11. ASSUME NEW w \in Worker, WorkerStep(w) \/ LoopReturn(w) \/ LoopRaise(w) PROVE Goal
    <2>1. CASE Begin(w)
      BY <1>00, <2>1 DEF Begin
    <2>2. CASE LoopExit(w)
      BY <1>00, <2>2 DEF LoopExit
    <2>7. CASE LoopReturn(w)
      BY <1>00, <2>7 DEF LoopReturn
    <2>8. CASE LoopRaise(w)
      BY <1>00, <2>8 DEF LoopRaise
    <2>3. CASE KeepError(w)
      BY <1>00, <2>3 DEF KeepError
    <2>4. CASE MarkError(w)
      BY <1>00, <2>4 DEF MarkError
    <2>5. CASE End(w)
      BY <1>00, <2>5 DEF End
    <2>6. CASE Close(w)
      BY <1>00, <2>6 DEF Close
    <2> QED
      BY <1>11, <2>1, <2>2, <2>3, <2>4, <2>5, <2>6, <2>7, <2>8 DEF WorkerStep
  <1>12. CASE UNCHANGED vars
    BY <1>00, <1>12 DEF vars
  <1> QED
    BY <1>1, <1>2, <1>3, <1>4, <1>5, <1>6, <1>7, <1>8, <1>9, <1>10, <1>11, <1>12
    DEF Next, StartStep, StopStep

\* The inductive invariant holds in every reachable state.
THEOREM LifecycleInvariant == Spec => []LifecycleInv
  <1>1. LifecycleInv /\ [Next]_vars => LifecycleInv'
    BY TypeKept, RunningKept, CleanKept DEF LifecycleInv
  <1> QED
    BY <1>1, LifecycleInit, PTL DEF Spec

\* Whatever the callers do, RUNNING is only shown with a thread behind it.
THEOREM RunningHasThreadThm == Spec => []RunningHasThread
  <1>1. LifecycleInv => RunningHasThread
    BY DEF LifecycleInv
  <1> QED
    BY <1>1, LifecycleInvariant, PTL

\* In careful use the processing loop never runs twice at the same time, a
\* stopped module holds no resources, and an ERROR has its exception.
THEOREM CarefulUse == Spec => []CleanUse
  <1>1. LifecycleInv => CleanUse
    BY DEF LifecycleInv, CleanInv, ThreadInv, CleanUse, OneLoop, InRun, StoppedHoldsNothing,
           Alive
  <1> QED
    BY <1>1, LifecycleInvariant, PTL
=============================================================================
