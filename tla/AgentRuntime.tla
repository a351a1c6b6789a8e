---------------------------- MODULE AgentRuntime ----------------------------
(***************************************************************************)
(* The manager of agent runtimes (AgentRuntimeManager).  Each agent has    *)
(* one hot instance: a queue of turns and a worker thread that executes    *)
(* them in order, at most Limit at a time over all agents.  Instances are  *)
(* evicted on request, when idle for long, and when more than MaxHot are   *)
(* hot; a stopped worker first finishes the turn it holds.                 *)
(*                                                                         *)
(* An instance is named after the turn whose submission created it.        *)
(* Everything done under the manager's lock is one step.  The idle time    *)
(* of an instance is left out: the sweeper may meet any idle instance.     *)
(***************************************************************************)
EXTENDS Naturals, Sequences, FiniteSets

CONSTANTS Turn,     \* turns submitted, each by a thread of its own
          Agent,
          agentOf,  \* the agent each turn is for
          MaxHot,   \* max_agents_hot
          Limit,    \* max_global_concurrency
          NULL,
          MaxAsk    \* bound: cancellations, evictions and shutdowns

ASSUME RuntimeAssumption ==
  /\ agentOf \in [Turn -> Agent]
  /\ MaxHot \in Nat \ {0} /\ Limit \in Nat \ {0}
  /\ NULL \notin Turn \union {"executed", "evicted", "cancelled"}
  /\ MaxAsk \in Nat

VARIABLES hot,        \* _instances, and the order they are kept in: of two instances
          older,      \* the one that was used less recently comes first
          inst,       \* each instance: queue, stop_event, what its worker does
          traces,     \* _traces: the active turns
          cancelled,  \* turns whose cancel_event is set
          result,     \* what _set_result gave each handle
          submit,     \* where each turn's submit_turn stands
          evictor,    \* a requested eviction in progress
          accepting,  \* _accepting
          stopping,   \* _stop_event, and the limiter is closed soon after
          closed,     \* the limiter is closed
          stopper,    \* where kill_switch or shutdown stands, and what it captured
          asks

vars == <<hot, older, inst, traces, cancelled, result, submit, evictor, accepting,
          stopping, closed, stopper, asks>>
manager == <<accepting, stopping, closed, stopper>>

\* A turn's response is its executor's, a success or a failure, or says why it was
\* not executed.
Outcomes == {"executed", "evicted", "cancelled"}
Unborn == [queue |-> <<>>, stop |-> FALSE, pc |-> "none", turn |-> NULL, status |-> NULL]
Born == [Unborn EXCEPT !.pc = "get"]
Resting == [pc |-> "rest", inst |-> NULL, held |-> <<>>]
PCs == {"none", "get", "limiter", "run", "complete", "finish", "drain", "dead"}

\* Where the fields of an instance and of the stopper come from.
RuntimeTypeOK ==
  /\ hot \subseteq Turn /\ older \subseteq hot \X hot
  /\ inst \in [Turn -> [queue : Seq(Turn \union {NULL}), stop : BOOLEAN, pc : PCs,
                       turn : Turn \union {NULL}, status : Outcomes \union {NULL}]]
  /\ \A i \in Turn : (inst[i].turn = NULL) = (inst[i].pc \in {"none", "get", "drain", "dead"})
  /\ traces \subseteq Turn /\ cancelled \subseteq Turn
  /\ result \in [Turn -> Outcomes \union {NULL}]
  /\ submit \in [Turn -> {"new", "checked", "created", "returned", "late", "lost", "refused"}]
  /\ evictor \in [pc : {"rest", "drain", "settle", "retire"}, inst : Turn \union {NULL},
                  held : Seq(Turn)]
  /\ accepting \in BOOLEAN /\ stopping \in BOOLEAN /\ closed \in BOOLEAN
  /\ asks \in 0..MaxAsk
  /\ stopper \in [pc : {"up", "killing", "killed", "down", "over"}, traces : SUBSET Turn,
                  insts : SUBSET Turn]

RuntimeInit ==
  /\ hot = {} /\ older = {}
  /\ inst = [i \in Turn |-> Unborn]
  /\ traces = {} /\ cancelled = {}
  /\ result = [t \in Turn |-> NULL]
  /\ submit = [t \in Turn |-> "new"]
  /\ evictor = Resting
  /\ accepting = TRUE /\ stopping = FALSE /\ closed = FALSE
  /\ stopper = [pc |-> "up", traces |-> {}, insts |-> {}]
  /\ asks = 0

-----------------------------------------------------------------------------
(* Submission                                                              *)

Asks == asks < MaxAsk /\ asks' = asks + 1

\* active_turns is 0 and the queue is empty.
Idle(i) == inst[i].pc # "run" /\ inst[i].queue = <<>>

Hot(a) == {i \in hot : agentOf[i] = a}

\* The order that is left among the instances in S, and the one after
\* move_to_end(i), when the instances are those of S.
Among(S) == {p \in older : p[1] \in S /\ p[2] \in S}
MovedToEnd(i, S) == Among(S \ {i}) \union {<<j, i>> : j \in S \ {i}}

\* An evicted instance is told to stop, and woken.
Stopped(i) == [i EXCEPT !.stop = TRUE, !.queue = Append(@, NULL)]

\* The checks made before the lock is taken.
check(t) ==
  /\ submit[t] = "new"
  /\ submit' = [submit EXCEPT ![t] = IF accepting THEN "checked" ELSE "refused"]
  /\ UNCHANGED <<hot, older, inst, traces, cancelled, result, evictor, manager, asks>>

\* The agent's instance, a new one if it has none, becomes the most recently used,
\* and idle instances over the limit go, the least recently used first.
get_or_create_agent(t) ==
  /\ submit[t] = "checked"
  /\ submit' = [submit EXCEPT ![t] = "created"]
  /\ LET new == Hot(agentOf[t]) = {}
         mine == IF new THEN t ELSE CHOOSE i \in Hot(agentOf[t]) : TRUE
         all == hot \union {mine}
         order == MovedToEnd(mine, all)
         idle == {i \in all : Idle(i)}
         over == IF Cardinality(all) > MaxHot THEN Cardinality(all) - MaxHot ELSE 0
         born == IF new THEN [inst EXCEPT ![t] = Born] ELSE inst
     IN \E out \in SUBSET idle :
          /\ Cardinality(out) = over \/ (Cardinality(out) < over /\ out = idle)
          /\ \A i \in out, j \in idle \ out : <<i, j>> \in order
          /\ hot' = all \ out
          /\ older' = order \intersect (hot' \X hot')
          /\ inst' = [i \in Turn |-> IF i \in out THEN Stopped(born[i]) ELSE born[i]]
  /\ UNCHANGED <<traces, cancelled, result, evictor, manager, asks>>

\* The turn is entered in the table, then in the queue of its agent's hot instance.
\* If that was evicted meanwhile the look-up raises and the entry stays.
enqueue(t) ==
  /\ submit[t] = "created"
  /\ traces' = traces \union {t}
  /\ IF Hot(agentOf[t]) = {}
     THEN submit' = [submit EXCEPT ![t] = "lost"] /\ UNCHANGED inst
     ELSE LET i == CHOOSE j \in Hot(agentOf[t]) : TRUE
          IN /\ inst' = [inst EXCEPT ![i].queue = Append(@, t)]
             /\ submit' = [submit EXCEPT ![t] = IF stopping THEN "late" ELSE "returned"]
  /\ UNCHANGED <<hot, older, cancelled, result, evictor, manager, asks>>

cancel_turn(t) ==
  /\ t \in traces \ cancelled
  /\ cancelled' = cancelled \union {t}
  /\ Asks
  /\ UNCHANGED <<hot, older, inst, traces, result, submit, evictor, manager>>

-----------------------------------------------------------------------------
(* A worker thread (_worker_loop)                                          *)

At(i, pc) == inst[i].pc = pc
Works == UNCHANGED <<hot, older, cancelled, submit, evictor, manager, asks>>

\* The loop's condition: is the worker to stop?
Told(i) == stopping \/ inst[i].stop

Ends(i, status) == inst' = [inst EXCEPT ![i].pc = "complete", ![i].status = status]

\* The queue gives a turn or the mark to stop, or the worker, having waited in vain,
\* sees that it is to stop.  A turn cancelled while it was queued ends here.
Get(i) ==
  /\ At(i, "get")
  /\ \/ /\ inst[i].queue = <<>> /\ Told(i)
        /\ inst' = [inst EXCEPT ![i].pc = "drain"]
     \/ /\ inst[i].queue # <<>>
        /\ LET q == inst[i].queue
           IN inst' = [inst EXCEPT ![i] =
                CASE Head(q) = NULL -> [@ EXCEPT !.queue = Tail(q), !.pc = "drain"]
                  [] Head(q) \in cancelled ->
                       [@ EXCEPT !.queue = Tail(q), !.pc = "complete", !.turn = Head(q), !.status = "cancelled"]
                  [] OTHER -> [@ EXCEPT !.queue = Tail(q), !.pc = "limiter", !.turn = Head(q)]]
  /\ Works /\ UNCHANGED <<traces, result>>

\* _ConcurrencyLimiter.acquire; only now the instance counts the turn as active.
acquire(i) ==
  /\ At(i, "limiter")
  /\ \/ /\ closed \/ inst[i].turn \in cancelled
        /\ Ends(i, "cancelled")
     \/ /\ ~closed /\ inst[i].turn \notin cancelled
        /\ Cardinality({j \in Turn : At(j, "run")}) < Limit
        /\ inst' = [inst EXCEPT ![i].pc = "run"]
  /\ Works /\ UNCHANGED <<traces, result>>

\* The executor returns a response or raises; the limiter is released.
execute(i) ==
  /\ At(i, "run")
  /\ Ends(i, "executed")
  /\ Works /\ UNCHANGED <<traces, result>>

_complete_handle(i) ==
  /\ At(i, "complete")
  /\ result' = [result EXCEPT ![inst[i].turn] = inst[i].status]
  /\ inst' = [inst EXCEPT ![i].pc = "finish"]
  /\ Works /\ UNCHANGED traces

\* The order once the agent's instance, whichever is in the table, is the most
\* recently used.
Used(a) == IF Hot(a) = {} THEN older
           ELSE MovedToEnd(CHOOSE i \in Hot(a) : TRUE, hot)

\* The turn leaves the table and the agent's instance, this one or a newer, becomes
\* the most recently used; the worker looks whether it is to stop.
_finish_turn(i) ==
  /\ At(i, "finish")
  /\ traces' = traces \ {inst[i].turn}
  /\ older' = Used(agentOf[i]) /\ UNCHANGED hot
  /\ inst' = [inst EXCEPT ![i].pc = IF Told(i) THEN "drain" ELSE "get", ![i].turn = NULL,
                         ![i].status = NULL]
  /\ UNCHANGED <<cancelled, result, submit, evictor, manager, asks>>

\* A stopped worker cancels what is left in its queue.
_cancel_shutdown_queue(i) ==
  /\ At(i, "drain")
  /\ LET q == inst[i].queue
     IN inst' = [inst EXCEPT ![i] =
          IF q = <<>> THEN [@ EXCEPT !.pc = "dead"]
          ELSE IF Head(q) = NULL THEN [@ EXCEPT !.queue = Tail(q)]
          ELSE [@ EXCEPT !.pc = "complete", !.status = "cancelled", !.queue = Tail(q),
                         !.turn = Head(q)]]
  /\ Works /\ UNCHANGED <<traces, result>>

-----------------------------------------------------------------------------
(* Eviction                                                                *)

\* The sweeper evicts an instance that has been idle for long.  Its queue is empty
\* and stays so, for a turn is queued at a hot instance only.
_sweep_once(i) ==
  /\ i \in hot /\ Idle(i)
  /\ hot' = hot \ {i} /\ older' = Among(hot')
  /\ inst' = [inst EXCEPT ![i] = Stopped(@)]
  /\ Asks
  /\ UNCHANGED <<traces, cancelled, result, submit, evictor, manager>>

\* A requested eviction takes any instance; its worker goes on meanwhile.
evict(i) ==
  /\ evictor = Resting /\ i \in hot
  /\ hot' = hot \ {i} /\ older' = Among(hot')
  /\ evictor' = [pc |-> "drain", inst |-> i, held |-> <<>>]
  /\ Asks
  /\ UNCHANGED <<inst, traces, cancelled, result, submit, manager>>

\* Mutant: the queue is read, not emptied.
DrainCopies ==
  /\ evictor.pc = "drain"
  /\ evictor' = [evictor EXCEPT !.pc = "settle", !.held = inst[evictor.inst].queue]
  /\ UNCHANGED <<hot, older, inst, traces, cancelled, result, submit, manager, asks>>

\* It takes the queued turns one by one ...
Drain ==
  /\ evictor.pc = "drain"
  /\ LET q == inst[evictor.inst].queue
     IN IF q = <<>>
        THEN evictor' = [evictor EXCEPT !.pc = "settle"] /\ UNCHANGED inst
        ELSE /\ inst' = [inst EXCEPT ![evictor.inst].queue = Tail(q)]
             /\ evictor' = IF Head(q) = NULL THEN evictor
                           ELSE [evictor EXCEPT !.held = Append(@, Head(q))]
  /\ UNCHANGED <<hot, older, traces, cancelled, result, submit, manager, asks>>

\* Mutant: the turns taken are dropped without a result.
SettleNothing ==
  /\ evictor.pc = "settle"
  /\ evictor' = Resting
  /\ inst' = [inst EXCEPT ![evictor.inst] = Stopped(@)]
  /\ UNCHANGED <<hot, older, traces, cancelled, result, submit, manager, asks>>

\* ... fails each of them, and stops the worker.
Settle ==
  /\ evictor.pc = "settle"
  /\ IF evictor.held = <<>>
     THEN /\ evictor' = Resting
          /\ inst' = [inst EXCEPT ![evictor.inst] = Stopped(@)]
          /\ UNCHANGED <<cancelled, result>>
     ELSE /\ evictor' = [evictor EXCEPT !.pc = "retire"]
          /\ cancelled' = cancelled \union {Head(evictor.held)}
          /\ result' = [result EXCEPT ![Head(evictor.held)] = "evicted"]
          /\ UNCHANGED inst
  /\ UNCHANGED <<hot, older, traces, submit, manager, asks>>

Retire ==
  /\ evictor.pc = "retire"
  /\ traces' = traces \ {Head(evictor.held)}
  /\ older' = Used(agentOf[evictor.inst]) /\ UNCHANGED hot
  /\ evictor' = [evictor EXCEPT !.pc = "settle", !.held = Tail(@)]
  /\ UNCHANGED <<inst, cancelled, result, submit, manager, asks>>

-----------------------------------------------------------------------------
(* The end of the manager                                                  *)

\* kill_switch refuses new turns and cancels the active ones before it shuts down.
kill_switch ==
  /\ stopper.pc = "up" /\ Asks
  /\ accepting' = FALSE
  /\ stopper' = [stopper EXCEPT !.pc = "killing", !.traces = traces]
  /\ UNCHANGED <<hot, older, inst, traces, cancelled, result, submit, evictor, stopping, closed>>

CancelAll ==
  /\ stopper.pc = "killing"
  /\ cancelled' = cancelled \union (stopper.traces \intersect traces)
  /\ stopper' = [stopper EXCEPT !.pc = "killed"]
  /\ UNCHANGED <<hot, older, inst, traces, result, submit, evictor, accepting, stopping, closed, asks>>

shutdown ==
  /\ \/ stopper.pc = "up" /\ Asks
     \/ stopper.pc = "killed" /\ UNCHANGED asks
  /\ accepting' = FALSE /\ stopping' = TRUE
  /\ stopper' = [pc |-> "down", traces |-> traces, insts |-> hot]
  /\ hot' = {} /\ older' = {}
  /\ UNCHANGED <<inst, traces, cancelled, result, submit, evictor, closed>>

\* It cancels the turns it saw, closes the limiter and stops the workers it saw.
StopWorkers ==
  /\ stopper.pc = "down"
  /\ cancelled' = cancelled \union stopper.traces
  /\ closed' = TRUE
  /\ inst' = [i \in Turn |-> IF i \in stopper.insts THEN Stopped(inst[i]) ELSE inst[i]]
  /\ stopper' = [pc |-> "over", traces |-> {}, insts |-> {}]
  /\ UNCHANGED <<hot, older, traces, result, submit, evictor, accepting, stopping, asks>>

-----------------------------------------------------------------------------
SubmitStep(t) == check(t) \/ get_or_create_agent(t) \/ enqueue(t)
WorkerStep(i) == \/ Get(i) \/ acquire(i) \/ execute(i)
                 \/ _complete_handle(i) \/ _finish_turn(i) \/ _cancel_shutdown_queue(i)
EvictorStep == Drain \/ Settle \/ Retire
StopperStep == CancelAll \/ (stopper.pc = "killed" /\ shutdown) \/ StopWorkers

RuntimeNext ==
  \/ \E t \in Turn : SubmitStep(t) \/ cancel_turn(t) \/ WorkerStep(t) \/ _sweep_once(t) \/ evict(t)
  \/ EvictorStep
  \/ kill_switch \/ CancelAll \/ shutdown \/ StopWorkers

RuntimeSpec == RuntimeInit /\ [][RuntimeNext]_vars

\* Every thread goes on; the executor of a turn returns.  Nobody need evict, cancel
\* or stop anything.
RuntimeLiveSpec ==
  /\ RuntimeSpec
  /\ \A t \in Turn : WF_vars(enqueue(t)) /\ WF_vars(get_or_create_agent(t)) /\ WF_vars(WorkerStep(t))
  /\ WF_vars(EvictorStep) /\ WF_vars(StopperStep)

-----------------------------------------------------------------------------
(* Properties                                                              *)

\* get_or_create_agent, _evict_over_limit_locked: an agent has at most one hot
\* instance and no more than MaxHot are hot, also while all of them are busy.
HotIsBounded ==
  /\ Cardinality(hot) <= MaxHot
  /\ \A i, j \in hot : agentOf[i] = agentOf[j] => i = j

\* move_to_end: the hot instances stand in one order of use, so which of them go when
\* there are too many is determined.
HotIsOrdered ==
  \A i, j \in hot : /\ <<i, i>> \notin older
                    /\ i # j => <<i, j>> \in older \/ <<j, i>> \in older
                    /\ \A k \in hot : <<i, j>> \in older /\ <<j, k>> \in older => <<i, k>> \in older

\* A turn is queued only where a worker will look: while the manager accepts turns,
\* the worker of a hot instance is alive and has not been told to stop.
HotIsServed ==
  accepting => \A i \in hot : ~inst[i].stop /\ inst[i].pc \notin {"none", "drain", "dead"}

\* TurnHandle.result: every handle that submit_turn returned before the manager
\* stopped gets its result, and its turn leaves the table of active turns, whatever is
\* evicted, cancelled or shut down meanwhile.
TurnsSettle ==
  []<>(\A t \in Turn : submit[t] = "returned" => result[t] # NULL /\ t \notin traces)

\* The manager implements what its callers rely on.
stage == [t \in Turn |->
  IF result[t] # NULL THEN "ended"
  ELSE IF \E i \in Turn : inst[i].turn = t /\ (At(i, "run") \/ inst[i].status = "executed")
  THEN "running"
  ELSE IF submit[t] \in {"returned", "late"} THEN "accepted" ELSE "unknown"]
Service == INSTANCE TurnService WITH outcome <- result, registered <- traces

\* An accepted turn is executed at most once, gets one result, is not executed after
\* it, and leaves the table after it, although its worker, an eviction and a shutdown
\* may all be emptying the same queue.
ImplementsService == Service!ServiceSpec

\* AgentRuntimeManager as a whole: instances in order, and the service kept.
ManagerIsService ==
  /\ [](RuntimeTypeOK /\ HotIsBounded /\ HotIsOrdered /\ HotIsServed)
  /\ ImplementsService
=============================================================================
