---------------------------- MODULE TurnApproval ----------------------------
(***************************************************************************)
(* Approvals a turn waits for (TurnHandle.request_approval).  Each tool    *)
(* call that needs consent asks in a thread of its own, which blocks until *)
(* a client decides, the time is up, or the turn is cancelled or over; the *)
(* handle has room for one pending approval.  A request and its approval   *)
(* are named after the thread.  The hook that records the events is left   *)
(* out: it keeps its errors to itself.                                     *)
(***************************************************************************)
EXTENDS Naturals, FiniteSets

CONSTANTS Asker,  \* requests for approval
          NULL

ApprovalAssumption == NULL \notin Asker

VARIABLES pending,    \* _pending_approval
          outcome,    \* what became of each approval
          ready,      \* approvals whose waiter has been woken
          asker,      \* where each request stands
          cancelling, \* where cancel stands: its event is set first
          ending      \* where _set_result stands

vars == <<pending, outcome, ready, asker, cancelling, ending>>

Settled == {"applied", "denied", "expired", "cancelled"}

ApprovalTypeOK ==
  /\ pending \in Asker \union {NULL}
  /\ outcome \in [Asker -> Settled \union {"none", "pending"}]
  /\ ready \subseteq Asker
  /\ \A a \in ready : outcome[a] \in Settled
  /\ pending # NULL => asker[pending] \in {"waiting", "woken"}
  /\ asker \in [Asker -> {"new", "checked", "waiting", "woken", "yes", "no"}]
  /\ cancelling \in {"no", "set", "done"}
  /\ ending \in {"no", "settled", "done"}

ApprovalInit ==
  /\ pending = NULL
  /\ outcome = [a \in Asker |-> "none"]
  /\ ready = {}
  /\ asker = [a \in Asker |-> "new"]
  /\ cancelling = "no" /\ ending = "no"

\* cancel_event or _result_ready is set.
Over == cancelling # "no" \/ ending = "done"

Goes(a, pc) == asker' = [asker EXCEPT ![a] = pc]

-----------------------------------------------------------------------------
\* _settle_pending_approval under its lock: what is pending gets its outcome.
_settle_pending_approval(o) ==
  IF pending # NULL /\ outcome[pending] = "pending"
  THEN outcome' = [outcome EXCEPT ![pending] = o]
  ELSE UNCHANGED outcome

\* It wakes the waiter after it has reported the outcome.
Wake(a) ==
  /\ outcome[a] \in Settled /\ a \notin ready
  /\ ready' = ready \union {a}
  /\ UNCHANGED <<pending, outcome, asker, cancelling, ending>>

-----------------------------------------------------------------------------
(* request_approval                                                        *)

check(a) ==
  /\ asker[a] = "new"
  /\ Goes(a, IF Over THEN "no" ELSE "checked")
  /\ UNCHANGED <<pending, outcome, ready, cancelling, ending>>

\* Mutant: the turn's end is not looked at again under the lock.
AskAnyway(a) ==
  /\ asker[a] = "checked"
  /\ IF pending # NULL
     THEN Goes(a, "no") /\ UNCHANGED <<pending, outcome>>
     ELSE Goes(a, "waiting") /\ pending' = a /\ outcome' = [outcome EXCEPT ![a] = "pending"]
  /\ UNCHANGED <<ready, cancelling, ending>>

\* Under the lock: a turn that is over, or waits for another approval, gets no more.
ask(a) ==
  /\ asker[a] = "checked"
  /\ IF Over \/ pending # NULL
     THEN Goes(a, "no") /\ UNCHANGED <<pending, outcome>>
     ELSE Goes(a, "waiting") /\ pending' = a /\ outcome' = [outcome EXCEPT ![a] = "pending"]
  /\ UNCHANGED <<ready, cancelling, ending>>

\* The wait is over: woken, or the time is up and the approval expires.
wait(a) ==
  /\ asker[a] = "waiting"
  /\ \/ a \in ready /\ UNCHANGED outcome
     \/ a \notin ready /\ _settle_pending_approval("expired")
  /\ Goes(a, "woken")
  /\ UNCHANGED <<pending, ready, cancelling, ending>>

\* Mutant: the place of the pending approval is not freed.
AnswerKeeps(a) ==
  /\ asker[a] = "woken"
  /\ Goes(a, IF outcome[a] = "applied" THEN "yes" ELSE "no")
  /\ UNCHANGED <<pending, outcome, ready, cancelling, ending>>

answer(a) ==
  /\ asker[a] = "woken"
  /\ Goes(a, IF outcome[a] = "applied" THEN "yes" ELSE "no")
  /\ pending' = IF pending = a THEN NULL ELSE pending
  /\ UNCHANGED <<outcome, ready, cancelling, ending>>

-----------------------------------------------------------------------------
(* The others                                                              *)

\* Mutant: a decision is not matched with the approval it is for.
ResolveAny(a, o) ==
  /\ outcome[a] # "none"
  /\ outcome' = [outcome EXCEPT ![a] = o]
  /\ UNCHANGED <<pending, ready, asker, cancelling, ending>>

\* A client decides on an approval it was shown; nothing happens if another one, or
\* none, is pending by now.
resolve_approval(a, o) ==
  /\ outcome[a] # "none"
  /\ IF pending = a THEN _settle_pending_approval(o) ELSE UNCHANGED outcome
  /\ UNCHANGED <<pending, ready, asker, cancelling, ending>>

cancel ==
  /\ \/ cancelling = "no" /\ cancelling' = "set" /\ UNCHANGED outcome
     \/ cancelling = "set" /\ cancelling' = "done" /\ _settle_pending_approval("cancelled")
  /\ UNCHANGED <<pending, ready, asker, ending>>

\* The worker hands in the turn's result, and first settles what is pending.
_set_result ==
  /\ \/ ending = "no" /\ ending' = "settled" /\ _settle_pending_approval("cancelled")
     \/ ending = "settled" /\ ending' = "done" /\ UNCHANGED outcome
  /\ UNCHANGED <<pending, ready, asker, cancelling>>

AskerStep(a) == check(a) \/ ask(a) \/ wait(a) \/ answer(a)

ApprovalNext ==
  \/ \E a \in Asker : \/ AskerStep(a) \/ Wake(a)
                      \/ resolve_approval(a, "applied") \/ resolve_approval(a, "denied")
  \/ cancel \/ _set_result

ApprovalSpec == ApprovalInit /\ [][ApprovalNext]_vars

\* A thread goes on; nobody need decide, cancel or end the turn.
ApprovalLiveSpec == ApprovalSpec /\ \A a \in Asker : WF_vars(AskerStep(a))

-----------------------------------------------------------------------------
(* Properties                                                              *)

\* TurnHandle.cancel: when it has returned no approval is pending and none can be
\* granted any more, whichever request was on its way.
NothingPendingAfterCancel ==
  cancelling = "done" => \A a \in Asker : outcome[a] # "pending"

\* _settle_pending_approval: of a decision, the time limit, a cancellation and the
\* turn's end only the first counts, and a granted approval was pending until then.
FirstOutcomeCounts ==
  [][\A a \in Asker : /\ outcome[a] \in Settled => outcome'[a] = outcome[a]
                      /\ outcome'[a] = "applied" => outcome[a] \in {"pending", "applied"}]_vars

\* request_approval: every request is answered, and the place it took is free again.
RequestsReturn ==
  []<>(pending = NULL /\ \A a \in Asker : asker[a] \in {"new", "yes", "no"})

\* TurnHandle: an approval is settled once, and a cancelled turn has none to settle.
ApprovalsSettleOnce == [](ApprovalTypeOK /\ NothingPendingAfterCancel) /\ FirstOutcomeCounts
=============================================================================
