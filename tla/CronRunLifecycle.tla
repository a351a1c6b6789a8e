-------------------------- MODULE CronRunLifecycle --------------------------
(***************************************************************************)
(* What the cron store promises about a run, without clocks, leases,       *)
(* owners, jobs or pausing: a row is started at most Limit times, is put   *)
(* back in the queue only while a start is left, ends once, and keeps its  *)
(* outcome until it is deleted.  One transaction may move several rows,    *)
(* each by at most one step.                                               *)
(***************************************************************************)
EXTENDS Naturals

CONSTANTS Row,    \* names of rows
          Limit   \* Limit[r]: how often row r may be started

VARIABLES state, attempts

vars == <<state, attempts>>

Terminal == {"finished", "failed", "cancelled", "timed_out"}
State == Terminal \union {"none", "queued", "running"}

Init ==
  /\ state = [r \in Row |-> "none"]
  /\ attempts = [r \in Row |-> 0]

\* Row r goes from the states in from to one of the states in to.
Moves(r, from, to) == state[r] \in from /\ state'[r] \in to

KeepsAttempts(r) == attempts'[r] = attempts[r]

Create(r) == Moves(r, {"none"}, {"queued", "failed"}) /\ attempts'[r] = 0
Start(r) ==
  /\ Moves(r, {"queued"}, {"running"})
  /\ attempts[r] < Limit[r]
  /\ attempts'[r] = attempts[r] + 1
Requeue(r) == Moves(r, {"running"}, {"queued"}) /\ attempts[r] < Limit[r] /\ KeepsAttempts(r)
End(r) == Moves(r, {"running"}, {"finished", "failed", "timed_out"}) /\ KeepsAttempts(r)
Cancel(r) == Moves(r, {"queued"}, {"cancelled"}) /\ KeepsAttempts(r)
Delete(r) == Moves(r, Terminal, {"none"}) /\ attempts'[r] = 0
Stay(r) == state'[r] = state[r] /\ KeepsAttempts(r)

Step(r) ==
  Create(r) \/ Start(r) \/ Requeue(r) \/ End(r) \/ Cancel(r) \/ Delete(r) \/ Stay(r)

Next ==
  /\ state' \in [Row -> State]
  /\ attempts' \in [Row -> Nat]
  /\ \A r \in Row : Step(r)

Spec == Init /\ [][Next]_vars
=============================================================================
