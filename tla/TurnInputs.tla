----------------------------- MODULE TurnInputs -----------------------------
(***************************************************************************)
(* Inputs queued for one agent of a session while a turn is running        *)
(* (TurnInputQueue and the operations of the turn-inputs API), over the    *)
(* turns of the runtime manager (TurnService).                             *)
(*                                                                         *)
(* An input waits to become the next turn, or steers the running one.  A   *)
(* caller of cancel_and_run_next reserves the next input, cancels the      *)
(* running turn, waits for its result and submits the input as a turn,     *)
(* which is named after the caller.  The brain loop of a running turn      *)
(* takes the inputs that steer it.  Each method of the queue holds its     *)
(* lock, so it is one step; status_version, by which a client's drop or    *)
(* move may also be refused, is left out.                                  *)
(***************************************************************************)
EXTENDS TurnService, Sequences, SequencesExt, FiniteSets

CONSTANTS Entry,      \* inputs
          Steer,      \* those that steer the running turn
          Caller,     \* calls of cancel_and_run_next
          First,      \* the turn that is running when the first input comes
          MaxPending  \* max_pending_per_session

InputsAssumption ==
  /\ Steer \subseteq Entry /\ Turn = Caller \union {First} /\ First \notin Caller
  /\ NULL \notin Entry \union Turn
  /\ MaxPending \in Nat \ {0}

VARIABLES entries,   \* _entries, in the order of the queue
          status,    \* status of each input
          turnOf,    \* its trace_id, or the target_trace_id of one that steers
          caller,    \* where each caller stands, the turn it cancels, its input
          steering,  \* apply_turn_steering of a running turn
          announced  \* turns whose end the manager is about to report

vars == <<service, entries, status, turnOf, caller, steering, announced>>
queue == <<entries, status, turnOf>>

Terminal == {"completed", "dropped"}
Rest == [pc |-> "rest", turn |-> NULL, batch |-> {}]

InputsTypeOK ==
  /\ ServiceTypeOK
  /\ entries \in Seq(Entry) /\ IsInjective(entries)
  /\ status \in [Entry -> {"none", "checked", "queued", "reserved", "running"} \union Terminal]
  /\ \A e \in Entry : e \notin ToSet(entries) => status[e] \in {"none", "checked", "queued"}
  /\ turnOf \in [Entry -> Turn \union {NULL}]
  /\ caller \in [Caller -> [pc : {"idle", "reserve", "cancel", "wait", "run", "submit",
                                  "requeue", "raised", "over"},
                            turn : Turn \union {NULL}, entry : Entry \union {NULL}]]
  /\ steering \in [pc : {"rest", "complete", "emit", "raised"}, turn : Turn \union {NULL}, batch : SUBSET Steer]
  /\ announced \subseteq Turn

InputsInit ==
  /\ ServiceInit
  /\ entries = <<>>
  /\ status = [e \in Entry |-> "none"]
  /\ turnOf = [e \in Entry |-> NULL]
  /\ caller = [c \in Caller |-> [pc |-> "idle", turn |-> NULL, entry |-> NULL]]
  /\ steering = Rest
  /\ announced = {}

Queued(s) == {e \in ToSet(entries) : status[e] = s}
Active == Queued("queued") \union Queued("reserved") \union Queued("running")

-----------------------------------------------------------------------------
(* Clients                                                                 *)

Enqueued(e) ==
  /\ Cardinality(Active) < MaxPending
  /\ entries' = Append(entries, e)
  /\ status' = [status EXCEPT ![e] = "queued"]

enqueue(e) ==
  /\ e \notin Steer /\ status[e] = "none"
  /\ Enqueued(e)
  /\ UNCHANGED <<service, turnOf, caller, steering, announced>>

\* A steering input is for a turn that is running when the client asks ...
_resolve_active_steering_scope(e, t) ==
  /\ e \in Steer /\ status[e] = "none" /\ stage[t] = "running"
  /\ status' = [status EXCEPT ![e] = "checked"]
  /\ turnOf' = [turnOf EXCEPT ![e] = t]
  /\ UNCHANGED <<service, entries, caller, steering, announced>>

\* ... which may be over when the input gets into the queue.
enqueue_steering(e) ==
  /\ status[e] = "checked"
  /\ Enqueued(e)
  /\ UNCHANGED <<service, turnOf, caller, steering, announced>>

drop(e) ==
  /\ e \in Queued("queued")
  /\ status' = [status EXCEPT ![e] = "dropped"]
  /\ UNCHANGED <<service, entries, turnOf, caller, steering, announced>>

\* The input is taken out, its new place is looked up, and it is put in there.  If
\* the other input is not in the queue (it may be the one taken out) the look-up
\* raises, and the input stays out.
move(e) ==
  /\ e \in Queued("queued")
  /\ LET rest == Remove(entries, e)
     IN \/ \E k \in 1..(Len(rest) + 1) : entries' = InsertAt(rest, k, e)
        \/ entries' = rest
  /\ UNCHANGED <<service, status, turnOf, caller, steering, announced>>

-----------------------------------------------------------------------------
(* cancel_and_run_next                                                     *)

At(c, pc) == caller[c].pc = pc
Goes(c, pc) == caller' = [caller EXCEPT ![c].pc = pc]

\* The turn to cancel is in the manager's table.
_resolve_active_queue_scope(c, t) ==
  /\ At(c, "idle") /\ t \in registered
  /\ caller' = [caller EXCEPT ![c].pc = "reserve", ![c].turn = t]
  /\ UNCHANGED <<service, queue, steering, announced>>

Waiting == SelectSeq(entries, LAMBDA e : status[e] = "queued" /\ e \notin Steer)

\* Mutant: another reservation does not matter.
ReserveAnother(c) ==
  /\ At(c, "reserve")
  /\ IF Waiting = <<>>
     THEN Goes(c, "over") /\ UNCHANGED status
     ELSE /\ status' = [status EXCEPT ![Head(Waiting)] = "reserved"]
          /\ caller' = [caller EXCEPT ![c].pc = "cancel", ![c].entry = Head(Waiting)]
  /\ UNCHANGED <<service, entries, turnOf, steering, announced>>

\* The call ends here if an input is already reserved, none is queued, or the next
\* one is not the one the client expected.
reserve_next(c) ==
  /\ At(c, "reserve")
  /\ \/ Goes(c, "over") /\ UNCHANGED status
     \/ /\ Queued("reserved") = {} /\ Waiting # <<>>
        /\ status' = [status EXCEPT ![Head(Waiting)] = "reserved"]
        /\ caller' = [caller EXCEPT ![c].pc = "cancel", ![c].entry = Head(Waiting)]
  /\ UNCHANGED <<service, entries, turnOf, steering, announced>>

\* Mutant: a turn that is already gone ends the call at once.
CancelOrLeave(c) ==
  /\ At(c, "cancel")
  /\ Goes(c, IF caller[c].turn \in registered THEN "wait" ELSE "over")
  /\ UNCHANGED <<service, queue, steering, announced>>

\* cancel_turn of the manager, which fails when the turn has left the table.
cancel(c) ==
  /\ At(c, "cancel")
  /\ Goes(c, IF caller[c].turn \in registered THEN "wait" ELSE "requeue")
  /\ UNCHANGED <<service, queue, steering, announced>>

\* The cancelled turn has its result, or the caller is tired of waiting.
result(c) ==
  /\ At(c, "wait")
  /\ \/ stage[caller[c].turn] = "ended" /\ Goes(c, "run")
     \/ Goes(c, "requeue")
  /\ UNCHANGED <<service, queue, steering, announced>>

mark_running(c) ==
  /\ At(c, "run") /\ status[caller[c].entry] = "reserved"
  /\ status' = [status EXCEPT ![caller[c].entry] = "running"]
  /\ turnOf' = [turnOf EXCEPT ![caller[c].entry] = c]
  /\ Goes(c, "submit")
  /\ UNCHANGED <<service, entries, steering, announced>>

\* Mutant: the input goes back to the queue although its turn was accepted.
SubmitRequeues(c) ==
  /\ At(c, "submit")
  /\ accept(c) /\ Goes(c, "requeue")
  /\ UNCHANGED <<queue, steering, announced>>

\* The manager accepts the turn, refuses it, or fails with an error that is not
\* expected here (a KeyError).
submit_turn(c) ==
  /\ At(c, "submit")
  /\ \/ accept(c) /\ Goes(c, "over")
     \/ UNCHANGED service /\ Goes(c, "requeue")
     \/ lose(c) /\ Goes(c, "raised")
  /\ UNCHANGED <<queue, steering, announced>>

requeue(c) ==
  /\ At(c, "requeue") /\ status[caller[c].entry] \in {"reserved", "running"}
  /\ status' = [status EXCEPT ![caller[c].entry] = "queued"]
  /\ turnOf' = [turnOf EXCEPT ![caller[c].entry] = NULL]
  /\ Goes(c, "over")
  /\ UNCHANGED <<service, entries, steering, announced>>

-----------------------------------------------------------------------------
(* The turns                                                               *)

\* The turn that is running when the first input comes.
Start ==
  /\ accept(First)
  /\ UNCHANGED <<queue, caller, steering, announced>>

Execute(t) ==
  /\ execute(t)
  /\ UNCHANGED <<queue, caller, steering, announced>>

\* A turn that is taking steering inputs is still running.
Settle(t) ==
  /\ steering.turn = t => steering.pc = "raised"
  /\ \E o \in {"executed", "evicted", "cancelled"} : settle(t, o)
  /\ steering' = IF steering.turn = t THEN Rest ELSE steering
  /\ UNCHANGED <<queue, caller, announced>>

Retire(t) ==
  /\ retire(t)
  /\ announced' = announced \union {t}
  /\ UNCHANGED <<queue, caller, steering>>

\* Mutant: the end of a turn ends any running input.
ProjectAny(t) ==
  /\ t \in announced
  /\ announced' = announced \ {t}
  /\ status' = [e \in Entry |-> IF e \in Queued("running") THEN "completed" ELSE status[e]]
  /\ UNCHANGED <<service, entries, turnOf, caller, steering>>

\* Mutant: the end of a turn is not reported to the queue.
ProjectNothing(t) ==
  /\ t \in announced
  /\ announced' = announced \ {t}
  /\ UNCHANGED <<service, queue, caller, steering>>

\* mark_terminal_by_trace: the running input of the turn, if it has one, is over.
project_terminal_runtime_event(t) ==
  /\ t \in announced
  /\ announced' = announced \ {t}
  /\ status' = [e \in Entry |-> IF turnOf[e] = t /\ e \in Queued("running")
                                THEN "completed" ELSE status[e]]
  /\ UNCHANGED <<service, entries, turnOf, caller, steering>>

-----------------------------------------------------------------------------
(* Steering (apply_turn_steering of the brain loop)                        *)

reserve_steering(t) ==
  /\ steering = Rest /\ stage[t] = "running"
  /\ LET batch == {e \in Queued("queued") \intersect Steer : turnOf[e] = t}
     IN /\ batch # {}
        /\ status' = [e \in Entry |-> IF e \in batch THEN "reserved" ELSE status[e]]
        /\ steering' = [pc |-> "complete", turn |-> t, batch |-> batch]
  /\ UNCHANGED <<service, entries, turnOf, caller, announced>>

complete_steering ==
  /\ steering.pc = "complete"
  /\ status' = [e \in Entry |-> IF e \in steering.batch THEN "completed" ELSE status[e]]
  /\ steering' = [steering EXCEPT !.pc = "emit"]
  /\ UNCHANGED <<service, entries, turnOf, caller, announced>>

\* The event that records the steering is written, or this fails, the whole batch goes
\* back to the queue, and the error ends the turn.
emit_canonical_event ==
  /\ steering.pc = "emit"
  /\ \/ steering' = Rest /\ UNCHANGED status
     \/ /\ steering' = [steering EXCEPT !.pc = "raised"]
        /\ status' = [e \in Entry |-> IF e \in steering.batch THEN "queued" ELSE status[e]]
  /\ UNCHANGED <<service, entries, turnOf, caller, announced>>

-----------------------------------------------------------------------------
CallerStep(c) ==
  reserve_next(c) \/ cancel(c) \/ result(c) \/ mark_running(c) \/ submit_turn(c) \/ requeue(c)
TurnStep(t) == Execute(t) \/ Settle(t) \/ Retire(t) \/ project_terminal_runtime_event(t)
SteeringStep == complete_steering \/ emit_canonical_event

InputsNext ==
  \/ \E e \in Entry : \/ enqueue(e) \/ enqueue_steering(e) \/ drop(e) \/ move(e)
                      \/ \E t \in Turn : _resolve_active_steering_scope(e, t)
  \/ \E c \in Caller : CallerStep(c) \/ \E t \in Turn : _resolve_active_queue_scope(c, t)
  \/ Start
  \/ \E t \in Turn : TurnStep(t) \/ reserve_steering(t)
  \/ SteeringStep

InputsSpec == InputsInit /\ [][InputsNext]_vars

\* A handler goes on (waiting for a result has a time limit), and so does a turn.
InputsLiveSpec ==
  /\ InputsSpec
  /\ \A c \in Caller : WF_vars(CallerStep(c))
  /\ \A t \in Turn : WF_vars(TurnStep(t))
  /\ WF_vars(SteeringStep)

-----------------------------------------------------------------------------
(* Properties                                                              *)

\* reserve_next, requeue, compensate_steering: a reserved input is in the hands of the
\* one caller, or of the steering turn, that will run it or give it back; at most one
\* input is reserved to be the next turn.
Holder(c, e) == caller[c].entry = e /\ caller[c].pc \in {"cancel", "wait", "run", "requeue"}
ReservedIsOwned ==
  /\ \A e \in Queued("reserved") :
       \/ e \in Steer /\ e \in steering.batch /\ steering.pc = "complete"
       \/ \E c \in Caller : Holder(c, e)
  /\ Cardinality(Queued("reserved") \ Steer) <= 1

\* _dispatch_reserved_entry: an input becomes at most one turn, although it goes back
\* to the queue when the turn before it does not settle or its own is refused.
DispatchedOnce ==
  \A c, d \in {x \in Caller : stage[x] # "unknown"} : caller[c].entry = caller[d].entry => c = d

\* mark_terminal_by_trace: while the turn of an input is accepted and not over, the
\* input is shown as running, whatever other turns end meanwhile.
RunningIsShown ==
  \A c \in Caller : stage[c] \in {"accepted", "running"} => status[caller[c].entry] = "running"

\* cancel_and_run_next: a reserved input does not stay reserved ...
ReservedLeaves == []<>(Queued("reserved") = {})

\* ... and one whose turn was accepted ends when the turn does.
DispatchedEnds ==
  []<>(\A c \in Caller : stage[c] # "unknown" => status[caller[c].entry] \in Terminal)

\* TurnInputQueue and cancel_and_run_next: each input has one owner, becomes one turn at
\* most, and is shown as what it is.
InputsRunOnce == InputsTypeOK /\ ReservedIsOwned /\ DispatchedOnce /\ RunningIsShown
=============================================================================
