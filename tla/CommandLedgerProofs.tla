------------------------ MODULE CommandLedgerProofs -------------------------
(***************************************************************************)
(* Theorems about CommandLedger for any commands, any finite number of     *)
(* gateway threads and any number of faults.                               *)
(***************************************************************************)
EXTENDS CommandLedger, FiniteSetTheorems, TLAPS

\* What transition_state does with each state the table can hold.
LEMMA TransitionFacts ==
    ASSUME NEW s \in State
    PROVE  /\ TransitionState(s, "approved") =
                  IF s = "pending" THEN "approved"
                  ELSE IF s = "executing" THEN "failed" ELSE s
           /\ s # "pending" => TransitionState(s, "executing") =
                  IF s = "approved" THEN "executing" ELSE s
           /\ s \in Terminal \union {"executing"} =>
                  TransitionState(s, "completed") =
                  IF s = "executing" THEN "completed" ELSE s
  BY DEF TransitionState, ValidTransitions, State, Terminal

\* The threads that hold a command are finitely many.
LEMMA HoldersFinite ==
    ASSUME NEW c \in Command
    PROVE  /\ IsFiniteSet(Holders(c)) /\ Cardinality(Holders(c)) \in Nat
           /\ Cardinality(Holders(c)) <= Cardinality(Poller)
           /\ Cardinality(Poller) \in Nat
  <1>1. Holders(c) \subseteq Poller
    BY DEF Holders
  <1>2. IsFiniteSet(Poller)
    BY LedgerAssumption
  <1> QED
    BY <1>1, <1>2, FS_Subset, FS_CardinalityType

\* A step after which no more threads hold a command has a smaller count.
LEMMA FewerHolders ==
    ASSUME NEW c \in Command, Holders(c)' \subseteq Holders(c)
    PROVE  /\ Cardinality(Holders(c)') \in Nat
           /\ Cardinality(Holders(c)') <= Cardinality(Holders(c))
  BY HoldersFinite, FS_Subset, FS_CardinalityType

\* ClaimInv is kept by every step that leaves claims and Unclaimed alone and
\* gives no thread a command that was claimed.
LEMMA ClaimInvKept ==
    ASSUME ClaimInv, TypeOK, UNCHANGED claims,
           \A c \in Command : /\ Unclaimed(c)' <=> Unclaimed(c)
                              /\ ~Unclaimed(c) => Holders(c)' \subseteq Holders(c)
    PROVE  ClaimInv'
  <1> SUFFICES ASSUME NEW c \in Command, ~Unclaimed(c)
               PROVE  claims[c] + Cardinality(Holders(c)') <= Cardinality(Poller)
    BY DEF ClaimInv
  <1>1. claims[c] + Cardinality(Holders(c)) <= Cardinality(Poller)
    BY DEF ClaimInv
  <1>2. claims[c] \in Nat
    BY DEF TypeOK
  <1> QED
    BY <1>1, <1>2, HoldersFinite, FewerHolders

\* The initial states satisfy the inductive invariant.
LEMMA LedgerInvInit == Init => LedgerInv
  <1> SUFFICES ASSUME Init PROVE LedgerInv
    OBVIOUS
  <1>1. TypeOK
    <2>1. state \in [Command -> State] /\ running \in BOOLEAN
      BY DEF Init, State
    <2>2. pc \in [Poller -> PC]
      BY DEF Init, PC
    <2>3. batch \in [Poller -> SUBSET Command]
      BY DEF Init
    <2>4. cmd \in [Poller -> Command \union {NoCommand}]
      BY DEF Init
    <2>5. ack \in [Poller -> Terminal \union {"none"}]
      BY DEF Init
    <2>6. claims \in [Command -> Nat] /\ announced \in [Command -> [Terminal -> Nat]]
      BY DEF Init
    <2>7. faults \in 0 .. MaxFaults
      BY LedgerAssumption DEF Init
    <2> QED
      BY <2>1, <2>2, <2>3, <2>4, <2>5, <2>6, <2>7 DEF TypeOK
  <1>2. HandInv
    BY DEF Init, HandInv, InHand
  <1>3. ClaimInv
    BY DEF Init, ClaimInv, Unclaimed, Waiting
  <1>4. AnnouncedOutcomeHolds
    BY DEF Init, AnnouncedOutcomeHolds
  <1> QED
    BY <1>1, <1>2, <1>3, <1>4 DEF LedgerInv

\* Every step types its next state.
LEMMA TypeKept == LedgerInv /\ [Next]_vars => TypeOK'
  <1> SUFFICES ASSUME LedgerInv, [Next]_vars PROVE TypeOK'
    OBVIOUS
  <1> USE DEF LedgerInv, TypeOK, poller, State, PC, Terminal
  <1>1. ASSUME NEW c \in Command, Propose(c) PROVE TypeOK'
    BY <1>1 DEF Propose
  <1>2. ASSUME NEW c \in Command, Approve(c) PROVE TypeOK'
    <2>1. TransitionState(state[c], "approved") \in State
      BY TransitionFacts
    <2> QED
      BY <1>2, <2>1 DEF Approve
  <1>3. ASSUME NEW p \in Poller, Start(p) PROVE TypeOK'
    BY <1>3 DEF Start
  <1>4. CASE Stop
    BY <1>4 DEF Stop
  <1>5. ASSUME NEW p \in Poller, Poll(p) \/ Exit(p) \/ EndBatch(p) PROVE TypeOK'
    BY <1>5 DEF Poll, Exit, EndBatch
  <1>6. ASSUME NEW p \in Poller, NEW c \in Command, Take(p, c) PROVE TypeOK'
    BY <1>6 DEF Take
  <1>7. ASSUME NEW p \in Poller, Claim(p) PROVE TypeOK'
    <2>1. cmd[p] \in Command /\ state[cmd[p]] \in State
      BY <1>7 DEF Claim, HandInv, InHand
    <2>2. TransitionState(state[cmd[p]], "executing") \in State
      BY <1>7, <2>1, TransitionFacts DEF Claim, HandInv
    <2> QED
      BY <1>7, <2>1, <2>2 DEF Claim
  <1>8. ASSUME NEW p \in Poller, Finish(p) PROVE TypeOK'
    <2>1. cmd[p] \in Command /\ state[cmd[p]] \in Terminal \union {"executing"}
      BY <1>8 DEF Finish, HandInv, InHand, Waiting
    <2>2. TransitionState(state[cmd[p]], "completed") \in Terminal
      BY <2>1, TransitionFacts
    <2> QED
      BY <1>8, <2>1, <2>2 DEF Finish
  <1>9. ASSUME NEW p \in Poller, Publish(p) PROVE TypeOK'
    <2>1. cmd[p] \in Command /\ ack[p] \in Terminal
      BY <1>9 DEF Publish, HandInv, InHand
    <2> QED
      BY <1>9, <2>1 DEF Publish
  <1>10. ASSUME NEW p \in Poller, DatabaseError(p) PROVE TypeOK'
    BY <1>10, LedgerAssumption DEF DatabaseError
  <1>11. CASE Crash
    <2>1. pc' \in [Poller -> PC]
      BY <1>11 DEF Crash
    <2>2. batch' \in [Poller -> SUBSET Command]
      BY <1>11 DEF Crash
    <2>3. cmd' \in [Poller -> Command \union {NoCommand}]
      BY <1>11 DEF Crash
    <2>4. ack' \in [Poller -> Terminal \union {"none"}]
      BY <1>11 DEF Crash
    <2>5. faults' \in 0 .. MaxFaults
      BY <1>11, LedgerAssumption DEF Crash
    <2> QED
      BY <1>11, <2>1, <2>2, <2>3, <2>4, <2>5 DEF Crash
  <1>12. CASE UNCHANGED vars
    BY <1>12 DEF vars
  <1> QED
    BY <1>1, <1>2, <1>3, <1>4, <1>5, <1>6, <1>7, <1>8, <1>9, <1>10, <1>11, <1>12
    DEF Next, PollerStep

\* The state of a command only advances: this is all other threads may rely on.
Advanced(c) == /\ state[c] \notin {"absent", "pending"} => state'[c] \notin {"absent", "pending"}
               /\ ~Unclaimed(c) => ~Unclaimed(c)'
               /\ state[c] \in Terminal => state'[c] = state[c]

\* Every step keeps each command where it is or moves it on.
LEMMA StatesAdvance ==
    ASSUME LedgerInv, [Next]_vars, NEW c \in Command
    PROVE  Advanced(c)
  <1> USE DEF LedgerInv, TypeOK, Advanced, Unclaimed, Waiting, Terminal
  <1>1. ASSUME NEW d \in Command, Propose(d) PROVE Advanced(c)
    BY <1>1 DEF Propose
  <1>2. ASSUME NEW d \in Command, Approve(d) PROVE Advanced(c)
    BY <1>2, TransitionFacts DEF Approve
  <1>3. ASSUME NEW p \in Poller, Claim(p) PROVE Advanced(c)
    <2>1. cmd[p] \in Command /\ state[cmd[p]] \notin {"absent", "pending"}
      BY <1>3 DEF Claim, HandInv, InHand
    <2> QED
      BY <1>3, <2>1, TransitionFacts DEF Claim
  <1>4. ASSUME NEW p \in Poller, Finish(p) PROVE Advanced(c)
    <2>1. cmd[p] \in Command /\ state[cmd[p]] \in Terminal \union {"executing"}
      BY <1>4 DEF Finish, HandInv, InHand, State
    <2> QED
      BY <1>4, <2>1, TransitionFacts DEF Finish
  <1>5. CASE UNCHANGED state
    BY <1>5
  <1> QED
    BY <1>1, <1>2, <1>3, <1>4, <1>5
    DEF Next, PollerStep, Start, Stop, Poll, Exit, EndBatch, Take, Publish,
        DatabaseError, Crash, vars

\* What each gateway thread knows of the command in its hand stays true.
LEMMA HandInvKept == LedgerInv /\ [Next]_vars => HandInv'
  <1> SUFFICES ASSUME LedgerInv, [Next]_vars, NEW q \in Poller
               PROVE  /\ pc'[q] \in InHand => cmd'[q] \in Command
                      /\ pc'[q] = "claim" => /\ cmd'[q] \notin batch'[q]
                                             /\ state'[cmd'[q]] \notin {"absent", "pending"}
                      /\ pc'[q] = "finish" => state'[cmd'[q]] \notin Waiting
                      /\ pc'[q] = "publish" => ack'[q] \in Terminal /\ state'[cmd'[q]] = ack'[q]
                      /\ \A c \in batch'[q] : state'[c] \notin {"absent", "pending"}
    BY DEF HandInv
  <1> USE DEF LedgerInv, TypeOK, HandInv, InHand, poller, Waiting
  <1>0. TypeOK' /\ \A c \in Command : Advanced(c)
    BY TypeKept, StatesAdvance
  <1>1. CASE \E c \in Command : Propose(c) \/ Approve(c)
    BY <1>0, <1>1 DEF Propose, Approve, Advanced, Unclaimed
  <1>2. CASE Stop \/ UNCHANGED vars
    BY <1>0, <1>2 DEF Stop, vars
  <1>3. ASSUME NEW p \in Poller, Start(p) \/ Exit(p) \/ EndBatch(p) \/ DatabaseError(p)
        PROVE  /\ UNCHANGED <<state, cmd, ack>>
               /\ batch'[q] \subseteq batch[q]
               /\ pc'[q] \in InHand => pc'[q] = pc[q]
    BY <1>3 DEF Start, Exit, EndBatch, DatabaseError
  <1>4. ASSUME NEW p \in Poller, Poll(p)
        PROVE  /\ UNCHANGED <<state, cmd, ack>>
               /\ pc'[q] \in InHand => pc'[q] = pc[q] /\ batch'[q] = batch[q]
               /\ \A c \in batch'[q] : state[c] \notin {"absent", "pending"}
    BY <1>4 DEF Poll
  <1>5. CASE \E p \in Poller : Start(p) \/ Exit(p) \/ EndBatch(p) \/ DatabaseError(p)
    BY <1>3, <1>5
  <1>14. CASE \E p \in Poller : Poll(p)
    BY <1>4, <1>14
  <1>6. ASSUME NEW p \in Poller, NEW c \in Command, Take(p, c)
        PROVE  /\ UNCHANGED state /\ UNCHANGED ack
               /\ q # p => batch'[q] = batch[q] /\ pc'[q] = pc[q] /\ cmd'[q] = cmd[q]
               /\ q = p => /\ batch'[q] = batch[q] \ {c} /\ c \in batch[q]
                           /\ pc'[q] = "claim" /\ cmd'[q] = c
    BY <1>6 DEF Take
  <1>7. CASE \E p \in Poller, c \in Command : Take(p, c)
    BY <1>6, <1>7
  <1>8. ASSUME NEW p \in Poller, Claim(p)
        PROVE  /\ UNCHANGED batch /\ UNCHANGED cmd /\ UNCHANGED ack
               /\ q # p => pc'[q] = pc[q]
               /\ q = p => pc'[q] \in {"next", "finish"} /\ cmd[q] \in Command
               /\ q = p /\ pc'[q] = "finish" => state'[cmd[q]] \notin Waiting
    <2>1. cmd[p] \in Command /\ state[cmd[p]] \notin {"absent", "pending"}
      BY <1>8 DEF Claim
    <2>2. TransitionState(state[cmd[p]], "executing") \in {"executing"} \union Terminal
      BY <2>1, TransitionFacts DEF State, Terminal
    <2> QED
      BY <1>8, <2>1, <2>2 DEF Claim, Terminal
  <1>9. CASE \E p \in Poller : Claim(p)
    <2>1. PICK p \in Poller : Claim(p)
      BY <1>9
    <2>2. CASE q = p
      BY <1>0, <1>8, <2>1, <2>2 DEF Advanced, Unclaimed
    <2>3. CASE q # p
      BY <1>0, <1>8, <2>1, <2>3 DEF Advanced, Unclaimed
    <2> QED
      BY <2>2, <2>3
  <1>10. ASSUME NEW p \in Poller, Finish(p)
         PROVE  /\ UNCHANGED batch /\ UNCHANGED cmd
                /\ q # p => pc'[q] = pc[q] /\ ack'[q] = ack[q]
                /\ q = p => /\ pc'[q] = "publish" /\ ack'[q] \in Terminal
                            /\ state'[cmd[q]] = ack'[q] /\ cmd[q] \in Command
    <2>1. cmd[p] \in Command /\ state[cmd[p]] \in Terminal \union {"executing"}
      BY <1>10 DEF Finish, State
    <2>2. TransitionState(state[cmd[p]], "completed") \in Terminal
      BY <2>1, TransitionFacts DEF State, Terminal
    <2> QED
      BY <1>10, <2>1, <2>2 DEF Finish
  <1>11. CASE \E p \in Poller : Finish(p)
    BY <1>0, <1>10, <1>11 DEF Advanced, Unclaimed
  <1>12. CASE \E p \in Poller : Publish(p)
    BY <1>12 DEF Publish
  <1>13. CASE Crash
    BY <1>13 DEF Crash
  <1> QED
    BY <1>1, <1>2, <1>5, <1>7, <1>9, <1>11, <1>12, <1>13, <1>14 DEF Next, PollerStep

\* No step lets a command be claimed more often than there are threads.
LEMMA ClaimInvStep == LedgerInv /\ [Next]_vars => ClaimInv'
  <1> SUFFICES ASSUME LedgerInv, [Next]_vars PROVE ClaimInv'
    OBVIOUS
  <1>0. ClaimInv /\ TypeOK /\ HandInv /\ TypeOK' /\ \A c \in Command : Advanced(c)
    BY TypeKept, StatesAdvance DEF LedgerInv
  <1> USE DEF TypeOK, poller
  <1>1. ASSUME NEW d \in Command, Propose(d) PROVE ClaimInv'
    <2>1. \A c \in Command : Unclaimed(c)' <=> Unclaimed(c)
      BY <1>0, <1>1 DEF Propose, Unclaimed, Waiting
    <2>2. \A c \in Command : Holders(c)' \subseteq Holders(c)
      BY <1>1 DEF Propose, Holders
    <2> QED
      BY <1>0, <1>1, <2>1, <2>2, ClaimInvKept DEF Propose
  <1>2. ASSUME NEW d \in Command, Approve(d) PROVE ClaimInv'
    <2>1. \A c \in Command : Unclaimed(c)' <=> Unclaimed(c)
      BY <1>0, <1>2, TransitionFacts DEF Approve, Unclaimed, Waiting, State, Terminal
    <2>2. \A c \in Command : Holders(c)' \subseteq Holders(c)
      BY <1>2 DEF Approve, Holders
    <2> QED
      BY <1>0, <1>2, <2>1, <2>2, ClaimInvKept DEF Approve
  <1>3. ASSUME UNCHANGED <<state, claims>>,
               \A c \in Command : ~Unclaimed(c) => Holders(c)' \subseteq Holders(c)
        PROVE  ClaimInv'
    <2>1. \A c \in Command : Unclaimed(c)' <=> Unclaimed(c)
      BY <1>3 DEF Unclaimed
    <2> QED
      BY <1>0, <1>3, <2>1, ClaimInvKept
  <1>4. ASSUME NEW p \in Poller,
               Start(p) \/ Poll(p) \/ Exit(p) \/ EndBatch(p) \/ Publish(p) \/ DatabaseError(p)
        PROVE  ClaimInv'
    <2>1. \A c \in Command : ~Unclaimed(c) => Holders(c)' \subseteq Holders(c)
      BY <1>0, <1>4 DEF Start, Poll, Exit, EndBatch, Publish, DatabaseError,
                        Holders, Unclaimed, Waiting
    <2> QED
      BY <1>3, <1>4, <2>1 DEF Start, Poll, Exit, EndBatch, Publish, DatabaseError
  <1>5. ASSUME NEW p \in Poller, NEW d \in Command, Take(p, d) PROVE ClaimInv'
    <2>1. \A c \in Command : Holders(c)' \subseteq Holders(c)
      BY <1>0, <1>5 DEF Take, Holders
    <2> QED
      BY <1>3, <1>5, <2>1 DEF Take
  <1>6. ASSUME NEW p \in Poller, Claim(p), NEW c \in Command
        PROVE  IF Unclaimed(c)' THEN claims'[c] = 0
               ELSE claims'[c] + Cardinality(Holders(c)') <= Cardinality(Poller)
    <2>1. Holders(c)' \subseteq Holders(c)
      BY <1>0, <1>6 DEF Claim, Holders
    <2>2. /\ claims[c] \in Nat
          /\ IF Unclaimed(c) THEN claims[c] = 0
             ELSE claims[c] + Cardinality(Holders(c)) <= Cardinality(Poller)
      BY <1>0 DEF ClaimInv
    <2>3. CASE c # cmd[p] \/ state[cmd[p]] = "failed"
      <3>1. claims'[c] = claims[c] /\ (Unclaimed(c)' <=> Unclaimed(c))
        BY <1>0, <1>6, <2>3 DEF Claim, HandInv, InHand, Unclaimed, Waiting,
                                TransitionState, Terminal
      <3> QED
        BY <2>1, <2>2, <3>1, HoldersFinite, FewerHolders
    <2>4. CASE c = cmd[p] /\ state[c] # "failed"
      <3>1. state[c] \in State \ {"absent", "pending", "failed"} /\ c \notin batch[p]
        BY <1>0, <1>6, <2>4 DEF Claim, HandInv, InHand
      <3>2. state'[c] \notin Waiting /\ claims'[c] = claims[c] + 1
        BY <1>0, <1>6, <2>4, <3>1, TransitionFacts DEF Claim, State, Terminal, Waiting
      <3>3. p \in Holders(c) /\ Holders(c)' = Holders(c) \ {p}
        BY <1>0, <1>6, <2>4, <3>1 DEF Claim, Holders
      <3>4. Cardinality(Holders(c)') = Cardinality(Holders(c)) - 1
        BY <3>3, HoldersFinite, FS_RemoveElement
      <3>5. claims[c] + Cardinality(Holders(c)) <= Cardinality(Poller)
        BY <2>2, HoldersFinite
      <3> QED
        BY <2>2, <3>2, <3>4, <3>5, HoldersFinite DEF Unclaimed
    <2> QED
      BY <2>3, <2>4
  <1>7. ASSUME NEW p \in Poller, Claim(p) PROVE ClaimInv'
    BY <1>6, <1>7 DEF ClaimInv
  <1>8. ASSUME NEW p \in Poller, Finish(p) PROVE ClaimInv'
    <2>1. \A c \in Command : Unclaimed(c)' <=> Unclaimed(c)
      <3>1. state[cmd[p]] \in Terminal \union {"executing"} /\ cmd[p] \in Command
        BY <1>0, <1>8 DEF Finish, HandInv, InHand, State, Waiting
      <3> QED
        BY <1>0, <1>8, <3>1, TransitionFacts DEF Finish, Unclaimed, Waiting, State, Terminal
    <2>2. \A c \in Command : Holders(c)' \subseteq Holders(c)
      BY <1>0, <1>8 DEF Finish, Holders
    <2> QED
      BY <1>0, <1>8, <2>1, <2>2, ClaimInvKept DEF Finish
  <1>9. CASE Stop \/ Crash \/ UNCHANGED vars
    <2>1. \A c \in Command : Holders(c)' \subseteq Holders(c)
      BY <1>0, <1>9 DEF Stop, Crash, vars, Holders
    <2> QED
      BY <1>3, <1>9, <2>1 DEF Stop, Crash, vars
  <1> QED
    BY <1>1, <1>2, <1>4, <1>5, <1>7, <1>8, <1>9 DEF Next, PollerStep

\* An announced outcome stays the command's state.
LEMMA OutcomeKept == LedgerInv /\ [Next]_vars => AnnouncedOutcomeHolds'
  <1> SUFFICES ASSUME LedgerInv, [Next]_vars,
                      NEW c \in Command, NEW s \in Terminal, announced'[c][s] > 0
               PROVE  state'[c] = s
    BY DEF AnnouncedOutcomeHolds
  <1>1. Advanced(c)
    BY StatesAdvance
  <1>2. CASE announced'[c][s] = announced[c][s]
    BY <1>1, <1>2 DEF LedgerInv, AnnouncedOutcomeHolds, Advanced
  <1>3. ASSUME NEW p \in Poller, Publish(p) PROVE state'[c] = s
    BY <1>1, <1>2, <1>3 DEF Publish, LedgerInv, HandInv, InHand, TypeOK
  <1> QED
    BY <1>2, <1>3 DEF Next, PollerStep, Propose, Approve, Start, Stop, Poll, Exit,
                      EndBatch, Take, Claim, Finish, DatabaseError, Crash, vars

\* The inductive invariant holds in every reachable state: in particular
\* TypeOK, and that an announced outcome is never contradicted by the ledger.
THEOREM LedgerInvariant == Spec => []LedgerInv
  <1>1. LedgerInv /\ [Next]_vars => LedgerInv'
    BY TypeKept, HandInvKept, ClaimInvStep, OutcomeKept DEF LedgerInv
  <1> QED
    BY <1>1, LedgerInvInit, PTL DEF Spec

\* Whatever crashes, database errors and stops come between, execute_once
\* simulates a command at most once per thread that start() may create.
THEOREM ClaimsBoundedThm == Spec => []ClaimsBounded
  <1>1. LedgerInv => ClaimsBounded
    <2> SUFFICES ASSUME LedgerInv, NEW c \in Command
                 PROVE  claims[c] <= Cardinality(Poller)
      BY DEF ClaimsBounded
    <2>1. claims[c] \in Nat /\ ClaimInv
      BY DEF LedgerInv, TypeOK
    <2> QED
      BY <2>1, HoldersFinite DEF ClaimInv
  <1> QED
    BY <1>1, LedgerInvariant, PTL

\* In the application, whose lifespan starts the gateway once per process, a
\* command is simulated at most once, over all processes.
THEOREM AtMostOnce ==
    ASSUME Cardinality(Poller) = 1
    PROVE  Spec => [](\A c \in Command : claims[c] <= 1)
  <1>1. ClaimsBounded => \A c \in Command : claims[c] <= 1
    BY DEF ClaimsBounded
  <1> QED
    BY <1>1, ClaimsBoundedThm, PTL

\* Without faults a command marked EXECUTING is always in a thread's hands.
THEOREM ExecutingIsHeldThm == Spec => []ExecutingIsHeld
  <1>1. Init => ExecutingIsHeld
    BY DEF Init, ExecutingIsHeld
  <1>2. LedgerInv /\ ExecutingIsHeld /\ [Next]_vars => ExecutingIsHeld'
    <2> SUFFICES ASSUME LedgerInv, ExecutingIsHeld, [Next]_vars, NEW c \in Command,
                        faults' = 0, state'[c] = "executing"
                 PROVE  \E q \in Poller : pc'[q] = "finish" /\ cmd'[q] = c
      BY DEF ExecutingIsHeld
    <2> USE DEF ExecutingIsHeld, LedgerInv, TypeOK, poller
    <2>1. ASSUME NEW p \in Poller, Claim(p)
          PROVE  \E q \in Poller : pc'[q] = "finish" /\ cmd'[q] = c
      <3>1. CASE c = cmd[p]
        <4>1. TransitionState(state[c], "executing") # "failed"
          BY <2>1, <3>1 DEF Claim
        <4> QED
          BY <2>1, <3>1, <4>1 DEF Claim
      <3>2. CASE c # cmd[p]
        BY <2>1, <3>2 DEF Claim
      <3> QED
        BY <3>1, <3>2
    <2>2. ASSUME NEW p \in Poller, Finish(p)
          PROVE  \E q \in Poller : pc'[q] = "finish" /\ cmd'[q] = c
      <3>1. /\ cmd[p] \in Command
            /\ state[cmd[p]] \in Terminal \union {"executing"}
        BY <2>2 DEF Finish, HandInv, InHand, Waiting, State
      <3>2. c # cmd[p]
        BY <2>2, <3>1, TransitionFacts DEF Finish, Terminal, State
      <3> QED
        BY <2>2, <3>2 DEF Finish
    <2>3. ASSUME NEW d \in Command, Propose(d) \/ Approve(d)
          PROVE  \E q \in Poller : pc'[q] = "finish" /\ cmd'[q] = c
      <3>1. state[c] = "executing"
        BY <2>3, TransitionFacts DEF Propose, Approve, State, Terminal
      <3> QED
        BY <2>3, <3>1 DEF Propose, Approve
    <2>4. ASSUME NEW p \in Poller, DatabaseError(p) PROVE FALSE
      BY <2>4 DEF DatabaseError
    <2>5. CASE Crash
      BY <2>5 DEF Crash
    <2>6. ASSUME NEW p \in Poller, Start(p) \/ Poll(p) \/ Exit(p) \/ EndBatch(p) \/ Publish(p)
          PROVE  \E q \in Poller : pc'[q] = "finish" /\ cmd'[q] = c
      BY <2>6 DEF Start, Poll, Exit, EndBatch, Publish
    <2>7. ASSUME NEW p \in Poller, NEW d \in Command, Take(p, d)
          PROVE  \E q \in Poller : pc'[q] = "finish" /\ cmd'[q] = c
      BY <2>7 DEF Take
    <2>8. CASE Stop \/ UNCHANGED vars
      BY <2>8 DEF Stop, vars
    <2> QED
      BY <2>1, <2>2, <2>3, <2>4, <2>5, <2>6, <2>7, <2>8 DEF Next, PollerStep
  <1> QED
    BY <1>1, <1>2, LedgerInvariant, PTL DEF Spec

\* The threads that execute a command are finitely many.
LEMMA InFlightFinite ==
    ASSUME NEW c \in Command
    PROVE  IsFiniteSet(InFlight(c)) /\ Cardinality(InFlight(c)) \in Nat
  BY LedgerAssumption, FS_Subset, FS_CardinalityType DEF InFlight

\* Counting announcements and executions under way never loses or adds one,
\* except where a fault ends an execution.
LEMMA AccountKept ==
    LedgerInv /\ AnnouncementsAccounted /\ [Next]_vars => AnnouncementsAccounted'
  <1> DEFINE Fits(c) ==
        LET accounted == Events(c) + Cardinality(InFlight(c))
        IN  accounted <= claims[c] /\ (faults = 0 => accounted = claims[c])
  <1> SUFFICES ASSUME LedgerInv, AnnouncementsAccounted, [Next]_vars, NEW c \in Command
               PROVE  Fits(c)'
    BY DEF AnnouncementsAccounted
  <1> USE DEF LedgerInv, TypeOK, poller
  <1>0. /\ Fits(c) /\ claims[c] \in Nat /\ Events(c) \in Nat
        /\ Cardinality(InFlight(c)) \in Nat /\ faults \in Nat
        /\ \A p \in Poller : pc[p] \in InHand => cmd[p] \in Command
    BY InFlightFinite, LedgerAssumption DEF AnnouncementsAccounted, Events, HandInv, Terminal
  <1>1. ASSUME UNCHANGED <<claims, announced, faults>>, InFlight(c)' = InFlight(c)
        PROVE  Fits(c)'
    BY <1>0, <1>1 DEF Events
  <1>2. ASSUME NEW d \in Command, Propose(d) \/ Approve(d) PROVE Fits(c)'
    <2>1. InFlight(c)' = InFlight(c) /\ UNCHANGED <<claims, announced, faults>>
      BY <1>2 DEF Propose, Approve, InFlight
    <2> QED
      BY <1>1, <2>1
  <1>3. ASSUME NEW p \in Poller, Start(p) \/ Poll(p) \/ Exit(p) \/ EndBatch(p) \/ Finish(p)
        PROVE  Fits(c)'
    <2>1. InFlight(c)' = InFlight(c)
      BY <1>3 DEF Start, Poll, Exit, EndBatch, Finish, InFlight
    <2> QED
      BY <1>1, <1>3, <2>1 DEF Start, Poll, Exit, EndBatch, Finish
  <1>4. ASSUME NEW p \in Poller, NEW d \in Command, Take(p, d) PROVE Fits(c)'
    <2>1. InFlight(c)' = InFlight(c)
      BY <1>4 DEF Take, InFlight
    <2> QED
      BY <1>1, <1>4, <2>1 DEF Take
  <1>5. ASSUME NEW p \in Poller, Claim(p) PROVE Fits(c)'
    <2>1. UNCHANGED <<announced, faults>> /\ p \notin InFlight(c)
      BY <1>5 DEF Claim, InFlight
    <2>2. CASE cmd[p] = c /\ claims'[c] = claims[c] + 1
      <3>1. InFlight(c)' = InFlight(c) \union {p}
        BY <1>5, <2>2 DEF Claim, InFlight
      <3>2. Cardinality(InFlight(c)') = Cardinality(InFlight(c)) + 1
        BY <2>1, <3>1, InFlightFinite, FS_AddElement
      <3>3. Events(c)' = Events(c)
        BY <2>1 DEF Events
      <3>4. Events(c)' + Cardinality(InFlight(c)') = Events(c) + Cardinality(InFlight(c)) + 1
        BY <1>0, <3>2, <3>3
      <3> QED
        BY <1>0, <2>1, <2>2, <3>4
    <2>3. CASE ~(cmd[p] = c /\ claims'[c] = claims[c] + 1)
      <3>1. UNCHANGED claims[c] /\ InFlight(c)' = InFlight(c)
        BY <1>0, <1>5, <2>3 DEF Claim, InFlight, InHand
      <3> QED
        BY <1>0, <2>1, <3>1 DEF Events
    <2> QED
      BY <2>2, <2>3
  <1>6. ASSUME NEW p \in Poller, Publish(p) PROVE Fits(c)'
    <2>1. cmd[p] \in Command /\ ack[p] \in Terminal /\ UNCHANGED <<claims, faults>>
      BY <1>6 DEF Publish, HandInv, InHand
    <2>2. CASE cmd[p] = c
      <3>1. Events(c)' = Events(c) + 1
        BY <1>6, <2>1, <2>2 DEF Publish, Events, Terminal
      <3>2. p \in InFlight(c) /\ InFlight(c)' = InFlight(c) \ {p}
        BY <1>6, <2>2 DEF Publish, InFlight
      <3>3. Cardinality(InFlight(c)') = Cardinality(InFlight(c)) - 1
        BY <3>2, InFlightFinite, FS_RemoveElement
      <3>4. Events(c)' + Cardinality(InFlight(c)') = Events(c) + Cardinality(InFlight(c))
        BY <1>0, <3>1, <3>3
      <3> QED
        BY <1>0, <2>1, <3>4
    <2>3. CASE cmd[p] # c
      <3>1. UNCHANGED announced[c] /\ InFlight(c)' = InFlight(c)
        BY <1>6, <2>1, <2>3 DEF Publish, InFlight
      <3> QED
        BY <1>0, <2>1, <3>1 DEF Events
    <2> QED
      BY <2>2, <2>3
  <1>7. ASSUME Crash \/ \E p \in Poller : DatabaseError(p) PROVE Fits(c)'
    <2>1. /\ UNCHANGED <<claims, announced>> /\ faults' > 0
          /\ InFlight(c)' \subseteq InFlight(c)
      BY <1>0, <1>7 DEF Crash, DatabaseError, InFlight
    <2>2. /\ Cardinality(InFlight(c)') \in Nat
          /\ Cardinality(InFlight(c)') <= Cardinality(InFlight(c))
      BY <2>1, InFlightFinite, FS_Subset, FS_CardinalityType
    <2> QED
      BY <1>0, <2>1, <2>2 DEF Events
  <1>8. CASE Stop \/ UNCHANGED vars
    <2>1. InFlight(c)' = InFlight(c)
      BY <1>8 DEF Stop, vars, InFlight
    <2> QED
      BY <1>1, <1>8, <2>1 DEF Stop, vars
  <1> QED
    BY <1>2, <1>3, <1>4, <1>5, <1>6, <1>7, <1>8 DEF Next, PollerStep

\* Every announcement belongs to a simulated execution, none is made twice,
\* and without faults none is missing once the execution is over.
THEOREM AnnouncementsAccountedThm == Spec => []AnnouncementsAccounted
  <1>1. Init => AnnouncementsAccounted
    <2> SUFFICES ASSUME Init, NEW c \in Command
                 PROVE  Events(c) + Cardinality(InFlight(c)) = 0 /\ claims[c] = 0
      BY DEF AnnouncementsAccounted
    <2>1. InFlight(c) = {} /\ Events(c) = 0 /\ claims[c] = 0
      BY DEF Init, InFlight, Events, Terminal
    <2> QED
      BY <2>1, FS_EmptySet
  <1> QED
    BY <1>1, LedgerInvariant, AccountKept, PTL DEF Spec

\* A step that leaves the announcements alone and moves at most one command,
\* along the lifecycle, is a step of the abstract specification.
LEMMA MoveRefines ==
    ASSUME TypeOK, UNCHANGED announced, NEW c \in Command,
           state' = [state EXCEPT ![c] = state'[c]],
           <<state[c], state'[c]>> \in
              {<<"absent", "pending">>, <<"pending", "approved">>, <<"approved", "executing">>,
               <<"executing", "completed">>, <<"executing", "failed">>}
              \union {<<s, s>> : s \in State}
    PROVE  [Lifecycle!Next]_(Lifecycle!vars)
  <1>1. CASE state'[c] = state[c]
    <2>1. UNCHANGED state
      BY <1>1 DEF TypeOK
    <2> QED
      BY <2>1 DEF Lifecycle!vars, Told
  <1>2. CASE state'[c] # state[c]
    <2>1. Lifecycle!Advance(c)
      BY <1>2 DEF Lifecycle!Advance, Lifecycle!Move, Told
    <2> QED
      BY <2>1 DEF Lifecycle!Next
  <1> QED
    BY <1>1, <1>2

\* The ledger, with its threads, crashes and retries, implements the abstract
\* lifecycle: every step moves one command to its next stage, announces the
\* final stage of one, or changes neither.
THEOREM LedgerRefinesLifecycle == Spec => ImplementsLifecycle
  <1>1. Init => Lifecycle!Init
    BY DEF Init, Lifecycle!Init, Terminal, Told
  <1>2. LedgerInv /\ [Next]_vars => [Lifecycle!Next]_(Lifecycle!vars)
    <2> SUFFICES ASSUME LedgerInv, [Next]_vars
                 PROVE  [Lifecycle!Next]_(Lifecycle!vars)
      OBVIOUS
    <2> USE DEF LedgerInv, TypeOK, poller
    <2>1. ASSUME NEW c \in Command, Propose(c) PROVE [Lifecycle!Next]_(Lifecycle!vars)
      BY <2>1, MoveRefines DEF Propose
    <2>2. ASSUME NEW c \in Command, Approve(c) PROVE [Lifecycle!Next]_(Lifecycle!vars)
      <3>1. state' = [state EXCEPT ![c] = state'[c]] /\ UNCHANGED announced
        BY <2>2 DEF Approve
      <3>2. /\ state[c] \in State
            /\ \/ state'[c] = state[c]
               \/ state[c] = "pending" /\ state'[c] = "approved"
               \/ state[c] = "executing" /\ state'[c] = "failed"
        BY <2>2, TransitionFacts DEF Approve
      <3> QED
        BY <3>1, <3>2, MoveRefines
    <2>3. ASSUME NEW p \in Poller, Claim(p) PROVE [Lifecycle!Next]_(Lifecycle!vars)
      <3>1. cmd[p] \in Command /\ state[cmd[p]] \in State \ {"pending"}
        BY <2>3 DEF Claim, HandInv, InHand
      <3>2. /\ state' = [state EXCEPT ![cmd[p]] = state'[cmd[p]]] /\ UNCHANGED announced
            /\ \/ state'[cmd[p]] = state[cmd[p]]
               \/ state[cmd[p]] = "approved" /\ state'[cmd[p]] = "executing"
        BY <2>3, <3>1, TransitionFacts DEF Claim
      <3> QED
        BY <3>1, <3>2, MoveRefines
    <2>4. ASSUME NEW p \in Poller, Finish(p) PROVE [Lifecycle!Next]_(Lifecycle!vars)
      <3>1. cmd[p] \in Command /\ state[cmd[p]] \in Terminal \union {"executing"}
        BY <2>4 DEF Finish, HandInv, InHand, State, Waiting
      <3>2. /\ state' = [state EXCEPT ![cmd[p]] = state'[cmd[p]]] /\ UNCHANGED announced
            /\ \/ state'[cmd[p]] = state[cmd[p]]
               \/ state[cmd[p]] = "executing" /\ state'[cmd[p]] = "completed"
        BY <2>4, <3>1, TransitionFacts DEF Finish, State
      <3> QED
        BY <3>1, <3>2, MoveRefines
    <2>5. ASSUME NEW p \in Poller, Publish(p) PROVE [Lifecycle!Next]_(Lifecycle!vars)
      <3>1. /\ ack[p] \in Terminal /\ state[cmd[p]] = ack[p] /\ UNCHANGED state
            /\ announced' = [announced EXCEPT ![cmd[p]][ack[p]] = @ + 1]
            /\ cmd[p] \in Command
        BY <2>5 DEF Publish, HandInv, InHand
      <3>2. PICK c \in Command : c = cmd[p]
        BY <3>1
      <3>3. \A s \in Terminal : announced'[c][s] > 0 <=> announced[c][s] > 0 \/ s = state[c]
        BY <3>1, <3>2
      <3>4. Told(c)' = Told(c) \union {state[c]}
        BY <3>1, <3>2, <3>3 DEF Told
      <3>5. \A d \in Command : d # c => Told(d)' = Told(d)
        BY <3>1, <3>2 DEF Told
      <3>6. [d \in Command |-> Told(d)'] =
               [[d \in Command |-> Told(d)] EXCEPT ![c] = @ \union {state[c]}]
        BY <3>4, <3>5
      <3>7. Lifecycle!Report(c)
        BY <3>1, <3>2, <3>6 DEF Lifecycle!Report, Lifecycle!Outcome, Terminal
      <3> QED
        BY <3>7 DEF Lifecycle!Next
    <2>6. CASE UNCHANGED <<state, announced>>
      BY <2>6 DEF Lifecycle!vars, Told
    <2> QED
      BY <2>1, <2>2, <2>3, <2>4, <2>5, <2>6
      DEF Next, PollerStep, Start, Stop, Poll, Exit, EndBatch, Take, DatabaseError,
          Crash, vars
  <1> QED
    BY <1>1, <1>2, LedgerInvariant, PTL DEF Spec, ImplementsLifecycle, Lifecycle!Spec
=============================================================================
