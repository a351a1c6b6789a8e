--------------------------- MODULE MCTurnServices ---------------------------
(***************************************************************************)
(* Small instances of what happens to a turn in one process: the key of    *)
(* the request that asks for it (GatewayIdempotency), the runtime manager  *)
(* (AgentRuntime), the queue of inputs (TurnInputs, which sees the manager *)
(* as TurnService) and the approvals of one turn (TurnApproval).  They     *)
(* share no state here: a behaviour is one of the service in focus, and    *)
(* the others rest in their initial states.                                *)
(***************************************************************************)
EXTENDS AgentRuntime

CONSTANTS t1, t2, t3, a1, a2, e1, e2, e3, c1, c2, c3, c4, l1, l2, l3, p1, p2,
          IdemCall, MaxCrash,                       \* of GatewayIdempotency
          Entry, Steer, Caller, First, MaxPending,  \* of TurnInputs
          Asker                                     \* of TurnApproval

VARIABLES focus,
          record, inflight, running, call, task, excused, raced, crashes,
          stageOf, outcomeOf, registered, entries, status, turnOf, caller, steering,
          announced,
          pending, outcome, ready, asker, cancelling, ending

idemVars == <<record, inflight, running, call, task, excused, raced, crashes>>
inputVars == <<stageOf, outcomeOf, registered, entries, status, turnOf, caller, steering,
               announced>>
approvalVars == <<pending, outcome, ready, asker, cancelling, ending>>

\* t3 is a turn of the other agent.
AgentOfTurn == [t \in Turn |-> IF t = t3 THEN a2 ELSE a1]

\* c1 and c2 run in one loop, c3 in another of the same process, c4 in another process.
Idem == INSTANCE GatewayIdempotency WITH
  Call <- IdemCall, Loop <- {l1, l2, l3}, Process <- {p1, p2}, caller <- call,
  loopOf <- [c \in IdemCall |-> CASE c \in {c1, c2} -> l1 [] c = c3 -> l2 [] c = c4 -> l3],
  processOf <- [l \in {l1, l2, l3} |-> IF l = l3 THEN p2 ELSE p1]

Inputs == INSTANCE TurnInputs WITH
  Turn <- Caller \union {First}, stage <- stageOf, outcome <- outcomeOf

Approval == INSTANCE TurnApproval

ASSUME IdemConstants == Idem!IdempotencyAssumption
ASSUME InputsConstants == Inputs!InputsAssumption
ASSUME ApprovalConstants == Approval!ApprovalAssumption

InitAll ==
  /\ focus \in {"idempotency", "manager", "inputs", "approval"}
  /\ Idem!IdemInit /\ RuntimeInit /\ Inputs!InputsInit /\ Approval!ApprovalInit

\* Three of the four calls are made; two turns are submitted, of one agent or of
\* two; two inputs come, both to run next or one to steer.
Bounded ==
  /\ \E c \in {c2, c3, c4} : call[c].pc = "new"
  /\ submit[t2] = "new" \/ submit[t3] = "new"
  /\ status[e2] = "none" \/ status[e3] = "none"

NextInFocus ==
  /\ UNCHANGED focus
  /\ IF focus = "idempotency" THEN Idem!IdemNext ELSE UNCHANGED idemVars
  /\ IF focus = "manager" THEN RuntimeNext ELSE UNCHANGED vars
  /\ IF focus = "inputs" THEN Inputs!InputsNext ELSE UNCHANGED inputVars
  /\ IF focus = "approval" THEN Approval!ApprovalNext ELSE UNCHANGED approvalVars
  /\ Bounded'

\* The fairness of IdemLiveSpec, RuntimeLiveSpec, InputsLiveSpec and ApprovalLiveSpec.
IdemFairness == \A c \in IdemCall : WF_idemVars(focus = "idempotency" /\ Idem!Continue(c))
ManagerFairness ==
  /\ \A t \in Turn : /\ WF_vars(focus = "manager" /\ enqueue(t))
                     /\ WF_vars(focus = "manager" /\ get_or_create_agent(t))
                     /\ WF_vars(focus = "manager" /\ WorkerStep(t))
  /\ WF_vars(focus = "manager" /\ EvictorStep) /\ WF_vars(focus = "manager" /\ StopperStep)
InputsFairness ==
  /\ \A c \in Caller : WF_inputVars(focus = "inputs" /\ Inputs!CallerStep(c))
  /\ \A t \in Caller \union {First} : WF_inputVars(focus = "inputs" /\ Inputs!TurnStep(t))
  /\ WF_inputVars(focus = "inputs" /\ Inputs!SteeringStep)
ApprovalFairness ==
  \A a \in Asker : WF_approvalVars(focus = "approval" /\ Approval!AskerStep(a))

TurnServicesSpec ==
  /\ InitAll /\ [][NextInFocus]_<<focus, idemVars, vars, inputVars, approvalVars>>
  /\ IdemFairness /\ ManagerFairness /\ InputsFairness /\ ApprovalFairness

-----------------------------------------------------------------------------
(* The properties of the services, as their modules state them             *)

\* _handle_message_with_idempotency: a key has one turn at a time in a process, and
\* callers of one loop get one answer.
KeyIsHonoured == Idem!KeyIsHonoured

\* cancel_and_run_next: each input has one owner and becomes one turn at most.
InputsRunOnce == Inputs!InputsRunOnce

\* TurnHandle: an approval is settled once, and a cancelled turn has none to settle.
ApprovalsSettleOnce == Approval!ApprovalsSettleOnce

\* Whatever was begun ends: every call with a key returns, every handle gets its
\* result, no input stays reserved or running, every request for approval returns.
ServicesSettle ==
  /\ Idem!CallsReturn
  /\ TurnsSettle
  /\ Inputs!ReservedLeaves /\ Inputs!DispatchedEnds
  /\ Approval!RequestsReturn
=============================================================================
