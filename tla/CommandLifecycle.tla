-------------------------- MODULE CommandLifecycle --------------------------
(***************************************************************************)
(* What the command ledger promises of each command, whoever approves,     *)
(* executes, crashes or restarts: the abstract specification that          *)
(* CommandLedger implements.                                               *)
(***************************************************************************)
CONSTANT Command                \* command identifiers, the primary key

VARIABLES stage,                \* stage[c]: where command c is
          reports               \* reports[c]: the outcomes announced for c

vars == <<stage, reports>>

Outcome == {"completed", "failed"}
Stage == {"absent", "pending", "approved", "executing"} \union Outcome

Init == /\ stage = [c \in Command |-> "absent"]
        /\ reports = [c \in Command |-> {}]

Move(c, from, to) == /\ stage[c] = from
                     /\ stage' = [stage EXCEPT ![c] = to]
                     /\ UNCHANGED reports

\* A command fails only once it is executing: although the transition table
\* also lets pending and approved commands fail, nothing in the program does it.
Advance(c) == \/ Move(c, "absent", "pending")
              \/ Move(c, "pending", "approved")
              \/ Move(c, "approved", "executing")
              \/ Move(c, "executing", "completed")
              \/ Move(c, "executing", "failed")

\* Only the final outcome of a command is ever announced.
Report(c) == /\ stage[c] \in Outcome
             /\ reports' = [reports EXCEPT ![c] = @ \union {stage[c]}]
             /\ UNCHANGED stage

Next == \E c \in Command : Advance(c) \/ Report(c)

Spec == Init /\ [][Next]_vars
=============================================================================
