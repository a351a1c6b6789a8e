----------------------------- MODULE GatewayTurn -----------------------------
(***************************************************************************)
(* One turn of the gateway (GatewayService._handle_message_once and        *)
(* GatewayTurnRunner.run): take the session's lease, decide on which       *)
(* thread the message goes, run the agent, store the answer, deliver it,   *)
(* record how the run ended, release the lease.  Turns run in several      *)
(* tasks and processes over one store; each step is one call that writes   *)
(* or that may take long, and the turn may stall, fail or die before it.   *)
(* A fenced write whose fence has gone raises RuntimeSessionTurnFenceError *)
(* and the turn goes straight to the release.                              *)
(*                                                                         *)
(* A message is identified with the turn that answers it.  Callers name no *)
(* conversation and no thread: the thread is the one of the last message.  *)
(***************************************************************************)
EXTENDS SessionTurnLease, FiniteSets

CONSTANTS Attach,    \* client attachments
          Input,     \* what callers ask for: a subset of Inputs
          MaxCrash,  \* bound: turns that die
          MaxStall   \* bound: turns at work after losing the lease, plus one

Inputs == [mode : {"channel", "return", "none"}, resume : BOOLEAN,
           reset : BOOLEAN, attach : Attach \union {NULL}]

ASSUME TurnAssumption ==
  /\ Input \subseteq Inputs
  /\ NULL \notin Attach \union Turn
  /\ MaxCrash \in Nat /\ MaxStall \in Nat

VARIABLES turn,     \* the turns
          thread,   \* what the stored events and messages say of each thread
          recent,   \* thread of the session's last message
          sends,    \* history: <<answer, turn>>: handed to the channel
          told,     \* agent.invocation terminal events: <<invocation, state>>
          lapsed,   \* history: turns that lost the lease while delivering
          orphaned  \* history: turns at work when the session was deleted

turnVars == <<turn, thread, recent, sends, told, lapsed, orphaned>>
allVars == <<leaseVars, turnVars>>

\* A fork's thread is named after the turn that makes it; NULL stands for the
\* thread that has the session's own id.
Thread == Turn \union {NULL}

\* run, of: state of the latest run event and the turn it belongs to;
\* delivered: some response.delivered event; out: latest outbound message;
\* writer: latest attachment with the writer role; inv: latest invocation.
ThreadState == [run : {"none", "awaiting", "completed", "failed"},
                of : Turn \union {NULL}, delivered : BOOLEAN,
                out : Turn \union {NULL}, writer : Attach \union {NULL},
                inv : Turn \union {NULL}]
NoThread == [run |-> "none", of |-> NULL, delivered |-> FALSE, out |-> NULL,
             writer |-> NULL, inv |-> NULL]

PC == {"new", "meta", "route", "attach", "queue", "prepare", "inbound", "agent",
       "suppress", "persist", "renew", "send", "delivered", "terminal", "fail",
       "release", "done"}

\* before: the lifecycle read by the routing; answer: what is to be delivered,
\* of its own run or a replayed one; inv, run, shown, stored: its own run's
\* invocation, last event, response.delivered and response.persisted events;
\* given: its answer is the response_id of a response.delivered event; record:
\* the runs table; result: what the caller got.
TurnState == [pc : PC, in : Input, thread : Thread, before : ThreadState,
              state : {"settled", "failed", "awaiting", "undelivered"},
              answer : Turn \union {NULL}, inv : Turn \union {NULL},
              run : {"none", "awaiting", "completed", "failed"}, stored : BOOLEAN,
              shown : BOOLEAN, given : BOOLEAN, record : {"none", "completed", "failed"},
              result : {"none", "busy", "error", "replayed", "suppressed", "answered",
                        "crashed"}]
NoTurn == [pc |-> "new", in |-> CHOOSE i \in Input : TRUE, thread |-> NULL,
           before |-> NoThread, state |-> "settled", answer |-> NULL, inv |-> NULL,
           run |-> "none", stored |-> FALSE, shown |-> FALSE, given |-> FALSE,
           record |-> "none", result |-> "none"]

TurnInit ==
  /\ LeaseInit
  /\ turn \in [Turn -> {[NoTurn EXCEPT !.in = i] : i \in Input}]
  /\ thread = [h \in Thread |-> NoThread]
  /\ recent = NULL
  /\ sends = {}
  /\ told = {}
  /\ lapsed = {}
  /\ orphaned = {}

TurnTypeOK ==
  /\ LeaseTypeOK
  /\ thread \in [Thread -> ThreadState]
  /\ recent \in Thread
  /\ turn \in [Turn -> TurnState]
  /\ sends \subseteq Turn \X Turn
  /\ told \subseteq Turn \X {"settled", "failed"}
  /\ lapsed \subseteq Turn /\ orphaned \subseteq Turn

At(t, pc) == turn[t].pc = pc
Goes(t, pc) == turn' = [turn EXCEPT ![t].pc = pc]
Ends(t, result) == turn' = [turn EXCEPT ![t].pc = "release", ![t].result = result]

-----------------------------------------------------------------------------
(* _handle_message_once, before the turn runner                            *)

\* Mutant: the busy session is taken over.
AcquireEvenBusy(t) ==
  /\ At(t, "new")
  /\ row' = [request |-> request[t], fence |-> row.fence + 1, left |-> TTL,
             released |-> FALSE]
  /\ token' = [token EXCEPT ![t] = [life |-> life, fence |-> row'.fence]]
  /\ Goes(t, "meta")
  /\ UNCHANGED <<life, log, thread, recent, sends, told, lapsed, orphaned>>

acquire_session_turn_lease(t) ==
  /\ At(t, "new")
  /\ \/ acquire(t) /\ Goes(t, "meta")
     \/ /\ Busy(t)
        /\ turn' = [turn EXCEPT ![t].pc = "done", ![t].result = "busy"]
        /\ UNCHANGED leaseVars
  /\ UNCHANGED <<thread, recent, sends, told, lapsed, orphaned>>

\* update_session_metadata and resume_session
update_session_metadata(t) ==
  /\ At(t, "meta")
  /\ write(t)
  /\ Goes(t, "route")
  /\ UNCHANGED <<thread, recent, sends, told, lapsed, orphaned>>

-----------------------------------------------------------------------------
(* _resolve_routing                                                        *)

\* resolve_thread_lifecycle; a thread without run events has no messages.
thread_state(h) ==
  CASE h.run = "failed" -> "failed"
    [] h.run = "awaiting" -> "awaiting"
    [] h.run = "completed" -> IF h.delivered THEN "settled" ELSE "undelivered"
    [] h.run = "none" -> "settled"

Forks(in, h) ==
  \/ in.reset
  \/ /\ thread_state(h) = "settled" /\ ~in.resume
     /\ in.attach = NULL \/ in.attach # h.writer

Replays(in, h) == ~in.reset /\ thread_state(h) = "undelivered"

\* Mutant: an answer that was delivered is replayed too.
RoutingReplaysAll(t) ==
  LET h == thread[recent]
  IN  /\ At(t, "route")
      /\ turn' = [turn EXCEPT
           ![t].thread = recent, ![t].before = h, ![t].state = thread_state(h),
           ![t].answer = h.out,
           ![t].pc = IF h.out # NULL THEN IF turn[t].in.mode = "channel" THEN "renew"
                                          ELSE "delivered"
                     ELSE "attach"]
      /\ UNCHANGED <<leaseVars, thread, recent, sends, told, lapsed, orphaned>>

\* A replayed answer goes to the delivery; if the caller neither delivers nor
\* handles delivery it is just returned.
_resolve_routing(t) ==
  LET in == turn[t].in
      h == thread[recent]
      replay == Replays(in, h) /\ h.out # NULL
  IN  /\ At(t, "route")
      /\ turn' = [turn EXCEPT
           ![t].thread = IF Forks(in, h) THEN t ELSE recent,
           ![t].before = h,
           ![t].state = thread_state(h),
           ![t].answer = IF replay THEN h.out ELSE NULL,
           ![t].result = IF replay THEN "replayed" ELSE @,
           ![t].pc = CASE ~replay -> "attach"
                       [] replay /\ in.mode = "channel" -> "renew"
                       [] replay /\ in.mode = "return" -> "delivered"
                       [] OTHER -> "release"]
      /\ UNCHANGED <<leaseVars, thread, recent, sends, told, lapsed, orphaned>>

Replaying(t) == turn[t].answer \notin {t, NULL}

-----------------------------------------------------------------------------
(* _setup_turn and the rest up to the agent: a failure here reaches no     *)
(* handler, and the run stays as it is                                     *)

\* _resolve_attach_role: the thread's writer keeps it while a run is under way.
Conflict(t) ==
  /\ turn[t].in.attach # NULL /\ turn[t].thread # t
  /\ turn[t].before.writer \notin {NULL, turn[t].in.attach}
  /\ turn[t].state \notin {"settled", "failed"}

_emit_attach_role_event(t) ==
  /\ At(t, "attach")
  /\ IF turn[t].in.attach = NULL
     THEN UNCHANGED <<leaseVars, thread>> /\ Goes(t, "queue")
     ELSE /\ write(t)
          /\ IF Conflict(t)
             THEN Ends(t, "error") /\ UNCHANGED thread
             ELSE /\ Goes(t, "queue")
                  /\ thread' = [thread EXCEPT ![turn[t].thread].writer = turn[t].in.attach]
  /\ UNCHANGED <<recent, sends, told, lapsed, orphaned>>

\* A run event of turn t: it is the latest one of the thread.
RunEvent(t, run) ==
  thread' = [thread EXCEPT ![turn[t].thread].run = run, ![turn[t].thread].of = t]

\* Mutant: the invocation goes on in every case.
SetupKeepsInvocation(t) ==
  LET inv == IF turn[t].before.inv = NULL THEN t ELSE turn[t].before.inv
  IN  /\ At(t, "queue")
      /\ write(t)
      /\ turn' = [turn EXCEPT ![t].pc = "prepare", ![t].inv = inv, ![t].run = "awaiting"]
      /\ thread' = [thread EXCEPT ![turn[t].thread].run = "awaiting",
                                  ![turn[t].thread].of = t,
                                  ![turn[t].thread].inv = inv]
      /\ UNCHANGED <<recent, sends, told, lapsed, orphaned>>

\* thread.decision and run.queued.  The invocation goes on unless the thread
\* that was looked at had ended it.
_setup_turn(t) ==
  LET inv == IF turn[t].before.inv = NULL \/ turn[t].state \in {"settled", "failed"}
             THEN t ELSE turn[t].before.inv
  IN  /\ At(t, "queue")
      /\ write(t)
      /\ turn' = [turn EXCEPT ![t].pc = "prepare", ![t].inv = inv, ![t].run = "awaiting"]
      /\ thread' = [thread EXCEPT ![turn[t].thread].run = "awaiting",
                                  ![turn[t].thread].of = t,
                                  ![turn[t].thread].inv = inv]
      /\ UNCHANGED <<recent, sends, told, lapsed, orphaned>>

\* Compaction, history, memory context, run.running: raises or goes on.
Prepare(t) ==
  /\ At(t, "prepare")
  /\ \/ write(t) /\ Goes(t, "inbound") /\ RunEvent(t, "awaiting")
     \/ Ends(t, "error") /\ UNCHANGED <<leaseVars, thread>>
  /\ UNCHANGED <<recent, sends, told, lapsed, orphaned>>

-----------------------------------------------------------------------------
(* The guarded part of run: what raises here goes to "fail"                *)

Raises(t) ==
  /\ \/ turn[t].pc \in {"inbound", "agent", "persist"}
     \/ At(t, "send") /\ ~Replaying(t)
  /\ Goes(t, "fail")
  /\ UNCHANGED <<leaseVars, thread, recent, sends, told, lapsed, orphaned>>

_persist_inbound_message_if_needed(t) ==
  /\ At(t, "inbound")
  /\ write(t)
  /\ Goes(t, "agent")
  /\ recent' = turn[t].thread
  /\ UNCHANGED <<thread, sends, told, lapsed, orphaned>>

\* run_turn, and then run.waiting_tool and run.responding
_execute_agent(t) ==
  /\ At(t, "agent")
  /\ write(t)
  /\ RunEvent(t, "awaiting")
  /\ \E pc \in {"suppress", "persist"} : Goes(t, pc)
  /\ UNCHANGED <<recent, sends, told, lapsed, orphaned>>

\* The run has ended, and an invocation with it: resolve_invocation_terminal.
Terminal(t, run, stored, shown) ==
  CASE run = "failed" -> {<<turn[t].inv, "failed">>}
    [] run = "completed" /\ stored /\ shown -> {<<turn[t].inv, "settled">>}
    [] OTHER -> {}

\* A suppressed idle tick: completed, with neither answer nor delivery.
_complete_suppressed_idle_tick(t) ==
  /\ At(t, "suppress")
  /\ write(t)
  /\ RunEvent(t, "completed")
  /\ turn' = [turn EXCEPT ![t].pc = "release", ![t].run = "completed",
                          ![t].record = "completed", ![t].result = "suppressed"]
  /\ UNCHANGED <<recent, sends, told, lapsed, orphaned>>

\* The outbound message, or an event only if it is a confirmation prompt, and
\* response.persisted; the memory write; _finish_run_record, which has no fence.
_build_outbound_and_persist(t) ==
  /\ At(t, "persist")
  /\ write(t)
  /\ \/ /\ thread' = [thread EXCEPT ![turn[t].thread].out = t]
        /\ recent' = turn[t].thread
     \/ UNCHANGED <<thread, recent>>
  /\ \E state \in {"completed", "failed"} :
       turn' = [turn EXCEPT ![t].answer = t, ![t].stored = TRUE, ![t].record = state,
                  ![t].pc = CASE turn[t].in.mode = "channel" -> "renew"
                              [] turn[t].in.mode = "return" -> "delivered"
                              [] OTHER -> "terminal"]
  /\ UNCHANGED <<sends, told, lapsed, orphaned>>

-----------------------------------------------------------------------------
(* Delivery, of the turn's own answer or of a replayed one                 *)

_renew_session_turn_lease(t) ==
  /\ At(t, "renew")
  /\ renew(t)
  /\ Goes(t, "send")
  /\ UNCHANGED <<thread, recent, sends, told, lapsed, orphaned>>

send(t) ==
  /\ At(t, "send")
  /\ sends' = sends \union {<<turn[t].answer, t>>}
  /\ Goes(t, "delivered")
  /\ UNCHANGED <<leaseVars, thread, recent, told, lapsed, orphaned>>

\* Mutant: the event is left out for a replayed answer.
DeliveredUnlessReplayed(t) ==
  /\ At(t, "delivered")
  /\ write(t)
  /\ IF Replaying(t)
     THEN Ends(t, "replayed") /\ UNCHANGED <<thread, told>>
     ELSE /\ turn' = [turn EXCEPT ![t].pc = "terminal", ![t].shown = TRUE,
                                  ![t].given = TRUE]
          /\ thread' = [thread EXCEPT ![turn[t].thread].delivered = TRUE]
          /\ UNCHANGED told
  /\ UNCHANGED <<recent, sends, lapsed, orphaned>>

\* response.delivered.  The one of a replay names the run the routing found
\* last and may end that run's invocation.
response_delivered(t) ==
  LET of == turn[t].before.of
  IN  /\ At(t, "delivered")
      /\ write(t)
      /\ thread' = [thread EXCEPT ![turn[t].thread].delivered = TRUE]
      /\ IF Replaying(t)
         THEN /\ turn' = [turn EXCEPT ![t].pc = "release", ![of].shown = TRUE,
                                      ![turn[t].answer].given = TRUE]
              /\ told' = told \union Terminal(of, turn[of].run, turn[of].stored, TRUE)
         ELSE /\ turn' = [turn EXCEPT ![t].pc = "terminal", ![t].shown = TRUE,
                                      ![t].given = TRUE]
              /\ UNCHANGED told
      /\ UNCHANGED <<recent, sends, lapsed, orphaned>>

\* Mutant: the run's state is left to the record.
TerminalOmitted(t) ==
  /\ At(t, "terminal")
  /\ Ends(t, "answered")
  /\ UNCHANGED <<leaseVars, thread, recent, sends, told, lapsed, orphaned>>

emit_terminal_run_state(t) ==
  LET run == turn[t].record
  IN  /\ At(t, "terminal")
      /\ write(t)
      /\ RunEvent(t, run)
      /\ turn' = [turn EXCEPT ![t].pc = "release", ![t].run = run,
                              ![t].result = "answered"]
      /\ told' = told \union Terminal(t, run, turn[t].stored, turn[t].shown)
      /\ UNCHANGED <<recent, sends, lapsed, orphaned>>

\* The exception handler: the record is written, the event only with the fence.
Fail(t) ==
  /\ At(t, "fail")
  /\ turn' = [turn EXCEPT ![t].pc = "release", ![t].record = "failed",
                          ![t].result = "error",
                          ![t].run = IF assert_fence(t) THEN "failed" ELSE @]
  /\ IF assert_fence(t)
     THEN /\ write(t) /\ RunEvent(t, "failed")
          /\ told' = told \union Terminal(t, "failed", FALSE, FALSE)
     ELSE UNCHANGED <<leaseVars, thread, told>>
  /\ UNCHANGED <<recent, sends, lapsed, orphaned>>

-----------------------------------------------------------------------------
(* Lost leases, the release and the environment                            *)

Writes == {"meta", "attach", "queue", "prepare", "inbound", "agent", "suppress",
           "persist", "delivered", "terminal"}

\* RuntimeSessionTurnFenceError from a write or from the renewal.
FenceError(t) ==
  /\ \/ turn[t].pc \in Writes /\ ~assert_fence(t)
     \/ At(t, "renew") /\ ~Owns(t)
  /\ Ends(t, "error")
  /\ UNCHANGED <<leaseVars, thread, recent, sends, told, lapsed, orphaned>>

\* A replayed answer cannot be sent: the exception goes to the caller.
ReplayRaises(t) ==
  /\ At(t, "send") /\ Replaying(t)
  /\ Ends(t, "error")
  /\ UNCHANGED <<leaseVars, thread, recent, sends, told, lapsed, orphaned>>

\* What it had in memory is gone.
Over(t, result) ==
  [turn[t] EXCEPT !.pc = "done", !.result = result, !.before = NoThread,
                  !.state = "settled", !.answer = NULL]

AtWork(t) == turn[t].pc \notin {"new", "done"}
Delivering(t) == turn[t].pc \in {"send", "delivered"}

\* A repeated call of the same request loses the lease with it.
release_session_turn_lease(t) ==
  /\ At(t, "release")
  /\ release(t)
  /\ turn' = [turn EXCEPT ![t] = Over(t, turn[t].result)]
  /\ lapsed' = lapsed \union {u \in Turn : Owns(t) /\ Delivering(u)}
  /\ UNCHANGED <<thread, recent, sends, told, orphaned>>

Crash(t) ==
  /\ AtWork(t)
  /\ Cardinality({u \in Turn : turn[u].result = "crashed"}) < MaxCrash
  /\ turn' = [turn EXCEPT ![t] = Over(t, "crashed")]
  /\ lapsed' = IF Delivering(t) THEN lapsed \union {t} ELSE lapsed
  /\ UNCHANGED <<leaseVars, thread, recent, sends, told, orphaned>>

\* The session is deleted with its messages and events.
Delete ==
  /\ delete_session
  /\ thread' = [h \in Thread |-> NoThread]
  /\ recent' = NULL
  /\ orphaned' = orphaned \union {t \in Turn : AtWork(t)}
  /\ UNCHANGED <<turn, sends, told, lapsed>>

Time ==
  /\ Cardinality({t \in Turn : AtWork(t) /\ ~Owns(t)}) < MaxStall
  /\ Tick
  /\ lapsed' = lapsed \union {t \in Turn : Delivering(t) /\ row.left <= 1}
  /\ UNCHANGED <<turn, thread, recent, sends, told, orphaned>>

TurnStep(t) ==
  \/ acquire_session_turn_lease(t) \/ update_session_metadata(t) \/ _resolve_routing(t)
  \/ _emit_attach_role_event(t) \/ _setup_turn(t) \/ Prepare(t)
  \/ _persist_inbound_message_if_needed(t) \/ _execute_agent(t)
  \/ _complete_suppressed_idle_tick(t) \/ _build_outbound_and_persist(t)
  \/ _renew_session_turn_lease(t) \/ send(t) \/ response_delivered(t)
  \/ emit_terminal_run_state(t) \/ Raises(t) \/ Fail(t) \/ FenceError(t)
  \/ ReplayRaises(t) \/ release_session_turn_lease(t)

TurnNext ==
  \/ \E t \in Turn : TurnStep(t) \/ Crash(t)
  \/ Delete
  \/ Time

TurnSpec == TurnInit /\ [][TurnNext]_allVars

-----------------------------------------------------------------------------
(* Properties                                                              *)

Senders(r) == {t \in Turn : <<r, t>> \in sends}

\* An answer is sent twice only if one of the senders lost the lease between
\* the renewal and the response.delivered event, by a stall or a crash, or had
\* its session deleted under it, or if both are calls of one request.
SentOnceUnlessLapsed ==
  \A r \in Turn : \A t1, t2 \in Senders(r) :
    t1 # t2 /\ request[t1] # request[t2] => {t1, t2} \cap (lapsed \union orphaned) # {}

\* Once response.delivered is recorded for an answer, no later turn decides to
\* replay it.
NoReplayAfterDelivered ==
  [][\A t \in Turn : At(t, "route") /\ turn'[t].answer # NULL
       => ~turn[turn'[t].answer].given]_allVars

\* A caller that got an answer finds the run ended in the events, in the same
\* way as in the runs table, whichever turn wrote last.
AnswerIsRecorded ==
  \A t \in Turn : turn[t].result = "answered" =>
    turn[t].run \in {"completed", "failed"} /\ turn[t].run = turn[t].record

\* The turns of the invocation are on one thread and no call of it was repeated.
Undisturbed(inv) ==
  \A t1, t2 \in Turn : t1 # t2 /\ turn[t1].inv = inv =>
    /\ request[t1] # request[t2]
    /\ turn[t2].inv = inv => turn[t1].thread = turn[t2].thread

\* An invocation ends in one way, unless a reset took it to a second thread, a
\* call of it was repeated, or the session was deleted under a turn at work.
OneEndPerInvocation ==
  \A inv \in Turn :
    orphaned = {} /\ Undisturbed(inv) => Cardinality({e \in told : e[1] = inv}) <= 1

\* The gateway uses the lease as SessionTurnLease says a client may.
ImplementsLease == LeaseSpec

\* Delivery: an answer is sent again only after a lapse, and never once its delivery
\* is on record.
AnsweredOnce == [](TurnTypeOK /\ SentOnceUnlessLapsed) /\ NoReplayAfterDelivered

\* Records: events, runs table and invocation tell one story of a turn that answered.
RunIsRecorded == AnswerIsRecorded /\ OneEndPerInvocation
=============================================================================
