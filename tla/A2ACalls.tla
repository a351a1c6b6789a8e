------------------------------ MODULE A2ACalls ------------------------------
(***************************************************************************)
(* Synchronous agent-to-agent calls under one idempotency key and scope    *)
(* (A2ARuntime.call over a shared, persistent state store).  The first     *)
(* call reserves the key and runs the handler; every other one is answered *)
(* from the row, whatever has become of the first.  Calls may come from    *)
(* threads of several servers; each step here is one access to the store   *)
(* or the handler itself.                                                  *)
(***************************************************************************)
EXTENDS FiniteSets

CONSTANTS Call,     \* calls with this key
          NONE

ASSUME CallAssumption == NONE \notin Call \union {"success", "failed"}

VARIABLES row,      \* the idempotency_keys row: status, and the call that created it
          pc,       \* where each call is
          outcome,  \* what the handler of each call ended with
          got,      \* what each call returned
          ran,      \* history: the calls whose handler was started
          stale     \* the reservation is older than the recovery threshold

vars == <<row, pc, outcome, got, ran, stale>>

Outcomes == {"success", "failed"}
Unresolved == {"in_progress", "unknown"}

CallTypeOK ==
  /\ \/ row = [status |-> "none", by |-> NONE]
     \/ row \in [status : {"in_progress"} \union Outcomes, by : Call]
  /\ pc \in [Call -> {"new", "handler", "finish", "done", "lost"}]
  /\ outcome \in [Call -> Outcomes \union {NONE}]
  /\ got \in [Call -> Outcomes \union Unresolved \union {NONE}]
  /\ ran \in SUBSET Call
  /\ stale \in BOOLEAN

CallInit ==
  /\ row = [status |-> "none", by |-> NONE]
  /\ pc = [c \in Call |-> "new"]
  /\ outcome = [c \in Call |-> NONE]
  /\ got = [c \in Call |-> NONE]
  /\ ran = {}
  /\ stale = FALSE

Returns(c, answer) ==
  /\ pc' = [pc EXCEPT ![c] = "done"]
  /\ got' = [got EXCEPT ![c] = answer]

\* _result_from_idempotency
FromRow ==
  IF row.status \in Outcomes THEN row.status
  ELSE IF stale THEN "unknown" ELSE "in_progress"

\* Mutant: a reservation past the threshold is taken over.
CallReclaims(c) ==
  /\ pc[c] = "new"
  /\ IF row.status = "none" \/ (row.status = "in_progress" /\ stale)
     THEN /\ row' = [status |-> "in_progress", by |-> c]
          /\ pc' = [pc EXCEPT ![c] = "handler"]
          /\ ran' = ran \union {c}
          /\ UNCHANGED got
     ELSE Returns(c, FromRow) /\ UNCHANGED <<row, ran>>
  /\ UNCHANGED <<outcome, stale>>

\* Mutant: a call that failed may be made again under its key.
CallRetriesFailed(c) ==
  /\ pc[c] = "new"
  /\ IF row.status \in {"none", "failed"}
     THEN /\ row' = [status |-> "in_progress", by |-> c]
          /\ pc' = [pc EXCEPT ![c] = "handler"]
          /\ ran' = ran \union {c}
          /\ UNCHANGED got
     ELSE Returns(c, FromRow) /\ UNCHANGED <<row, ran>>
  /\ UNCHANGED <<outcome, stale>>

\* call: reserve_idempotency, then the handler or the answer of the row.
call(c) ==
  /\ pc[c] = "new"
  /\ IF row.status = "none"
     THEN /\ row' = [status |-> "in_progress", by |-> c]
          /\ pc' = [pc EXCEPT ![c] = "handler"]
          /\ ran' = ran \union {c}
          /\ UNCHANGED got
     ELSE Returns(c, FromRow) /\ UNCHANGED <<row, ran>>
  /\ UNCHANGED <<outcome, stale>>

\* The handler returns, raises, or returns what cannot be stored: the latter is
\* an error, "reconcile the effect before reissuing".
handler(c) ==
  /\ pc[c] = "handler"
  /\ pc' = [pc EXCEPT ![c] = "finish"]
  /\ \E o \in Outcomes : outcome' = [outcome EXCEPT ![c] = o]
  /\ UNCHANGED <<row, got, ran, stale>>

\* Mutant: a failure frees the key.
FinishedFrees(c) ==
  IF row.status = "in_progress" /\ row.by = c
  THEN [row EXCEPT !.status = IF outcome[c] = "failed" THEN "none" ELSE "success"]
  ELSE row

\* finish_idempotency: the row is written if it is the caller's and pending.
Finished(c) ==
  IF row.status = "in_progress" /\ row.by = c
  THEN [row EXCEPT !.status = outcome[c]]
  ELSE row

\* Mutant: the answer is returned whether or not it could be stored.
FinishAnyway(c) ==
  /\ pc[c] = "finish"
  /\ row' \in {row, Finished(c)}
  /\ Returns(c, outcome[c])
  /\ UNCHANGED <<outcome, ran, stale>>

\* The rest of _execute_call_handler.  The write may fail, with or without
\* effect; then, as when the row was no longer the caller's, the answer is
\* OUTCOME_UNKNOWN.
finish(c) ==
  /\ pc[c] = "finish"
  /\ \/ row' = Finished(c) /\ Returns(c, IF row' # row THEN outcome[c] ELSE "unknown")
     \/ row' \in {row, Finished(c)} /\ Returns(c, "unknown")
  /\ UNCHANGED <<outcome, ran, stale>>

\* The server of a call dies, at any point of it.
Lose(c) ==
  /\ pc[c] \in {"handler", "finish"}
  /\ pc' = [pc EXCEPT ![c] = "lost"]
  /\ UNCHANGED <<row, outcome, got, ran, stale>>

\* The threshold passes (idempotency_slot_is_stale).
Age ==
  /\ row.status = "in_progress" /\ ~stale
  /\ stale' = TRUE
  /\ UNCHANGED <<row, pc, outcome, got, ran>>

CallNext ==
  \/ \E c \in Call : call(c) \/ handler(c) \/ finish(c) \/ Lose(c)
  \/ Age

CallSpec == CallInit /\ [][CallNext]_vars

-----------------------------------------------------------------------------
(* Properties                                                              *)

\* "a duplicate returns the stored result or an unresolved status; it does not
\* run the handler again": one handler run per key, across crashes, receipts
\* that could not be written, and reservations of any age.
HandlerRunsOnce == \A c, d \in ran : c = d

\* Whoever was told a conclusive answer was told the one that is in the store,
\* so no two callers are told different ones, and a retry is told the same.
ToldIsStored == \A c \in Call : got[c] \in Outcomes => row.status = got[c]

\* A stored answer is never changed.
StoredIsFinal == [][row.status \in Outcomes => row' = row]_vars

\* What A2ARuntime.call promises under a key.
CallsAreHonoured == [](CallTypeOK /\ HandlerRunsOnce /\ ToldIsStored) /\ StoredIsFinal
=============================================================================
