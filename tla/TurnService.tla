---------------------------- MODULE TurnService ----------------------------
(***************************************************************************)
(* What AgentRuntimeManager promises the callers of submit_turn: an        *)
(* accepted turn is executed at most once, gets one result, is never       *)
(* executed after it, and leaves the table of active turns after it.       *)
(* AgentRuntime implements this; TurnInputs is built on it.                *)
(***************************************************************************)
EXTENDS Naturals

CONSTANTS Turn, NULL

VARIABLES stage,      \* how far each turn has come
          outcome,    \* the status of its result
          registered  \* turns in the table of active turns

service == <<stage, outcome, registered>>

ServiceTypeOK ==
  /\ stage \in [Turn -> {"unknown", "accepted", "running", "ended"}]
  /\ outcome \in [Turn -> {NULL, "executed", "evicted", "cancelled"}]
  /\ registered \subseteq Turn

ServiceInit ==
  /\ stage = [t \in Turn |-> "unknown"]
  /\ outcome = [t \in Turn |-> NULL]
  /\ registered = {}

\* submit_turn returns the turn's handle ...
accept(t) ==
  /\ stage[t] = "unknown" /\ t \notin registered
  /\ stage' = [stage EXCEPT ![t] = "accepted"]
  /\ registered' = registered \union {t}
  /\ UNCHANGED outcome

\* ... or raises after it has entered the turn in the table.
lose(t) ==
  /\ stage[t] = "unknown" /\ t \notin registered
  /\ registered' = registered \union {t}
  /\ UNCHANGED <<stage, outcome>>

execute(t) ==
  /\ stage[t] = "accepted" /\ t \in registered
  /\ stage' = [stage EXCEPT ![t] = "running"]
  /\ UNCHANGED <<outcome, registered>>

\* A turn that was executed has its executor's response, a success or a failure;
\* another says that it was cancelled or evicted.
settle(t, o) ==
  /\ \/ stage[t] = "accepted" /\ o \in {"evicted", "cancelled"}
     \/ stage[t] = "running" /\ o = "executed"
  /\ t \in registered
  /\ stage' = [stage EXCEPT ![t] = "ended"]
  /\ outcome' = [outcome EXCEPT ![t] = o]
  /\ UNCHANGED registered

\* The turn leaves the table, and its end is announced.
retire(t) ==
  /\ stage[t] = "ended" /\ t \in registered
  /\ registered' = registered \ {t}
  /\ UNCHANGED <<stage, outcome>>

ServiceNext ==
  \E t \in Turn :
    \/ accept(t) \/ lose(t) \/ execute(t) \/ retire(t)
    \/ \E o \in {"executed", "evicted", "cancelled"} : settle(t, o)

ServiceSpec == ServiceInit /\ [][ServiceNext]_service
=============================================================================
