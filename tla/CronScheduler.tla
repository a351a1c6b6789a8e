---------------------------- MODULE CronScheduler ----------------------------
(***************************************************************************)
(* The scheduler daemons (services/cron/scheduler.py and                   *)
(* modules/task/scheduling/coordination.py) on top of CronStore: the loop  *)
(* of each daemon, the worker and the lease renewer thread of each run it  *)
(* was given, delivery of the result, shutdown, crash and restart.  A step *)
(* makes one call to the store; between two calls of one thread anything   *)
(* may happen.                                                             *)
(*                                                                         *)
(* A call to the store may raise (the database is locked): every place     *)
(* that makes one handles that as it handles a refusal, so both are one    *)
(* disjunct, which is enabled whatever the tables hold.                    *)
(***************************************************************************)
EXTENDS CronStore

CONSTANTS Delivers,     \* jobs whose delivery mode is not none
          Marker,       \* the delivery marker mode:to
          MaxStops      \* bound: shutdowns and crashes

ASSUME SchedulerAssumption ==
  /\ Delivers \subseteq Job
  /\ Marker \in Target
  /\ MaxStops \in Nat
  /\ 2 * MaxConcurrentRuns <= MaxJobs

VARIABLES loop,      \* where the loop of a daemon is
          capacity,  \* the capacity its iteration computed
          workers,   \* self._workers of all daemons
          sent,      \* history: claims whose worker called the delivery handler
          stops      \* shutdowns and crashes so far

schedulerVars == <<loop, capacity, workers, sent, stops>>
allVars == <<vars, schedulerVars>>

Stage == {"idle", "control", "enqueue", "acquire", "outcomes", "stopped", "down"}
Phase == {"load", "execute", "renew", "mark", "send", "persist", "watch", "record",
          "done"}
WorkerState == [claim : Claim, phase : Phase, renewing : BOOLEAN,
                outcome : {"finished", "failed", "timed_out", "retryable"}]

SchedulerTypeOK ==
  /\ TypeOK
  /\ loop \in [Daemon -> Stage]
  /\ capacity \in [Daemon -> 0..MaxConcurrentRuns]
  /\ workers \subseteq WorkerState
  /\ sent \subseteq Claim
  /\ stops \in 0..MaxStops

Of(d) == {w \in workers : w.claim.owner = d}
SameRun(c, e) == c.run = e.run /\ c.run_id = e.run_id

-----------------------------------------------------------------------------
(* The loop                                                                *)

Goes(d, stage) == loop' = [loop EXCEPT ![d] = stage]

\* _reap_workers: drop the threads that ended.
Reaped(d) == {w \in workers : w.claim.owner = d => w.phase # "done"}

\* Mutant: twice the capacity is kept, the look-ahead of enqueueing.
RecoverTwice(d) ==
  LET free == MaxConcurrentRuns - Cardinality({w \in Reaped(d) : w.claim.owner = d})
  IN  /\ loop[d] = "idle"
      /\ workers' = Reaped(d)
      /\ free > 0
      /\ recover_expired_cron_runs
      /\ Goes(d, "control")
      /\ capacity' = [capacity EXCEPT ![d] = 2 * free]
      /\ UNCHANGED <<calls, sent, stops>>

\* Mutant: the workers that are busy are not counted.
RecoverAlways(d) ==
  /\ loop[d] = "idle"
  /\ workers' = Reaped(d)
  /\ recover_expired_cron_runs
  /\ Goes(d, "control")
  /\ capacity' = [capacity EXCEPT ![d] = MaxConcurrentRuns]
  /\ UNCHANGED <<calls, sent, stops>>

\* Head of an iteration: reap, compute the capacity, recover expired leases.
RecoverExpired(d) ==
  LET free == MaxConcurrentRuns - Cardinality({w \in Reaped(d) : w.claim.owner = d})
  IN  /\ loop[d] = "idle"
      /\ workers' = Reaped(d)
      /\ IF free \in 1..MaxConcurrentRuns
         THEN /\ recover_expired_cron_runs
              /\ Goes(d, "control")
              /\ capacity' = [capacity EXCEPT ![d] = free]
         ELSE /\ Goes(d, "outcomes")
              /\ UNCHANGED <<now, jobs, runs, paused, scope_state, claims, capacity>>
      /\ UNCHANGED <<calls, sent, stops>>

\* get_cron_scheduler_control
ReadControl(d) ==
  /\ loop[d] = "control"
  /\ Goes(d, IF paused THEN "outcomes" ELSE "enqueue")
  /\ UNCHANGED <<vars, capacity, workers, sent, stops>>

EnqueueDue(d) ==
  /\ loop[d] = "enqueue"
  /\ enqueue_due_cron_runs(d, 2 * capacity[d])
  /\ Goes(d, "acquire")
  /\ UNCHANGED <<calls, capacity, workers, sent, stops>>

\* _start_worker: no second thread for a run_id that still has one here.
Started(new) ==
  {[claim |-> c, phase |-> "load", renewing |-> TRUE, outcome |-> "failed"] :
     c \in {e \in new : \A w \in Of(e.owner) : ~SameRun(w.claim, e)}}

\* The loop over the acquired runs may be cut short (a thread cannot be
\* started, the event hook raises): the other runs are leased to nobody.
AcquireRuns(d) ==
  /\ loop[d] = "acquire"
  /\ acquire_cron_runs(d, capacity[d])
  /\ \E reached \in SUBSET (claims' \ claims) :
       /\ workers' = workers \union Started(reached)
       /\ Goes(d, IF reached = claims' \ claims THEN "outcomes" ELSE "idle")
  /\ UNCHANGED <<calls, capacity, sent, stops>>

\* The iteration ends early: can_start_background_work said no before runs
\* are acquired, or a call to the store raised.
AbandonIteration(d) ==
  /\ \/ loop[d] \in {"control", "enqueue", "acquire"} /\ Goes(d, "idle")
     \/ loop[d] = "acquire" /\ Goes(d, "outcomes")
  /\ UNCHANGED <<vars, capacity, workers, sent, stops>>

\* _record_task_outcome, as far as the cron tables see it: the task of a
\* one-time job or of a watch is closed by a run that ended, and its job is
\* disabled.  Which tasks are still open is in the task store, not here.
CloseTask(j) ==
  /\ j \in Closable
  /\ Config[j].task_owned
  /\ \E r \in Run : /\ r[1] = j
                    /\ runs[r].state \in TerminalStates
                    /\ runs[r].state = "cancelled" => runs[r].attempts > 0
  /\ set_cron_job_enabled(j, FALSE, FALSE)
  /\ UNCHANGED calls

\* The end of an iteration: any number of tasks are closed.
RecordOutcomes(d) ==
  /\ loop[d] = "outcomes"
  /\ \/ \E j \in Job : CloseTask(j) /\ UNCHANGED loop
     \/ Goes(d, "idle") /\ UNCHANGED vars
  /\ UNCHANGED <<capacity, workers, sent, stops>>

-----------------------------------------------------------------------------
(* A worker                                                                *)

Becomes(w, new) == workers' = (workers \ {w}) \union {new}
GoesOn(w, phase) == Becomes(w, [w EXCEPT !.phase = phase])

\* The first lines of _execute_claimed_run: read the job.
LoadJob(w) ==
  /\ w.phase = "load"
  /\ \/ Present(w.claim.run[1]) /\ GoesOn(w, "execute")
     \/ GoesOn(w, "persist")
  /\ UNCHANGED <<vars, loop, capacity, sent, stops>>

\* The executor returns or raises; only an error marked retryable is retried.
Execute(w) ==
  /\ w.phase = "execute"
  /\ \E outcome \in {"finished", "failed", "timed_out", "retryable"} :
       Becomes(w, [w EXCEPT !.outcome = outcome,
                     !.phase = IF outcome = "finished" /\ w.claim.run[1] \in Delivers
                               THEN "renew" ELSE "persist"])
  /\ UNCHANGED <<vars, loop, capacity, sent, stops>>

\* deliver_cron_run: renew the lease, mark the target, call the handler.  A
\* refusal or an error at any of the three ends delivery, not the run.
RenewToDeliver(w) ==
  /\ w.phase = "renew"
  /\ \/ renew_cron_run_lease(w.claim) /\ GoesOn(w, "mark") /\ UNCHANGED calls
     \/ GoesOn(w, "persist") /\ UNCHANGED vars
  /\ UNCHANGED <<loop, capacity, sent, stops>>

\* Mutant: a refused marker does not end delivery.
MarkTargetAnyway(w) ==
  /\ w.phase = "mark"
  /\ GoesOn(w, "send")
  /\ \/ mark_cron_delivery_target(w.claim, Marker) /\ UNCHANGED calls
     \/ UNCHANGED vars
  /\ UNCHANGED <<loop, capacity, sent, stops>>

MarkTarget(w) ==
  /\ w.phase = "mark"
  /\ \/ mark_cron_delivery_target(w.claim, Marker) /\ GoesOn(w, "send") /\ UNCHANGED calls
     \/ GoesOn(w, "persist") /\ UNCHANGED vars
  /\ UNCHANGED <<loop, capacity, sent, stops>>

CallHandler(w) ==
  /\ w.phase = "send"
  /\ sent' \in {sent, sent \union {w.claim}}
  /\ GoesOn(w, "persist")
  /\ UNCHANGED <<vars, loop, capacity, stops>>

\* persist_cron_run_outcome.  Only a result the executor returned can carry
\* watch_terminal.  An outcome that was refused, or a retry, closes nothing.
PersistOutcome(w) ==
  /\ w.phase = "persist"
  /\ \/ /\ w.outcome = "retryable"
        /\ retry_cron_run(w.claim)
        /\ GoesOn(w, IF runs'[w.claim.run].state = "queued" THEN "done" ELSE "record")
        /\ UNCHANGED calls
     \/ /\ w.outcome # "retryable"
        /\ \E watermark \in BOOLEAN : finish_cron_run(w.claim, w.outcome, watermark)
        /\ \/ GoesOn(w, "record")
           \/ /\ w.outcome \in {"finished", "failed"} /\ w.claim.run[1] \in Watch
              /\ GoesOn(w, "watch")
        /\ UNCHANGED calls
     \/ GoesOn(w, "done") /\ UNCHANGED vars
  /\ UNCHANGED <<loop, capacity, sent, stops>>

\* Mutant: the queued runs of the watch are cancelled with it.
disable_watch_cancelling(w) ==
  /\ w.phase = "watch"
  /\ set_cron_job_enabled(w.claim.run[1], FALSE, TRUE) /\ UNCHANGED calls
  /\ GoesOn(w, "record")
  /\ UNCHANGED <<loop, capacity, sent, stops>>

_disable_terminal_watch(w) ==
  /\ w.phase = "watch"
  /\ \/ set_cron_job_enabled(w.claim.run[1], FALSE, FALSE) /\ UNCHANGED calls
     \/ UNCHANGED vars
  /\ GoesOn(w, "record")
  /\ UNCHANGED <<loop, capacity, sent, stops>>

_record_task_outcome(w) ==
  /\ w.phase = "record"
  /\ CloseTask(w.claim.run[1]) \/ UNCHANGED vars
  /\ GoesOn(w, "done")
  /\ UNCHANGED <<loop, capacity, sent, stops>>

\* The renewer thread, which may still be in a call while the worker persists
\* (it is joined for one second only).  A refusal, an error or its stop event
\* ends it.
_lease_renewer(w) ==
  /\ w.renewing
  /\ \/ renew_cron_run_lease(w.claim) /\ UNCHANGED <<calls, workers>>
     \/ Becomes(w, [w EXCEPT !.renewing = FALSE]) /\ UNCHANGED vars
  /\ UNCHANGED <<loop, capacity, sent, stops>>

WorkerMain(w) ==
  \/ LoadJob(w) \/ Execute(w)
  \/ RenewToDeliver(w) \/ MarkTarget(w) \/ CallHandler(w)
  \/ PersistOutcome(w) \/ _disable_terminal_watch(w) \/ _record_task_outcome(w)

-----------------------------------------------------------------------------
(* Processes                                                               *)

\* The loop ends where it sees its stop event.  The workers go on until the
\* process exits; the renewers are told to end, which they may do anyway.
shutdown(d) ==
  /\ loop[d] = "idle"
  /\ stops < MaxStops
  /\ stops' = stops + 1
  /\ Goes(d, "stopped")
  /\ UNCHANGED <<vars, capacity, workers, sent>>

\* The process ends and its threads with it: after a shutdown, or by a crash.
Exit(d) ==
  /\ loop[d] # "down"
  /\ loop[d] # "stopped" => stops < MaxStops
  /\ stops' = IF loop[d] = "stopped" THEN stops ELSE stops + 1
  /\ Goes(d, "down")
  /\ workers' = workers \ Of(d)
  /\ UNCHANGED <<vars, capacity, sent>>

\* The daemon id is daemon-<pid>, and a restarted process can get the pid its
\* predecessor had.
start(d) ==
  /\ loop[d] = "down"
  /\ Goes(d, "idle")
  /\ UNCHANGED <<vars, capacity, workers, sent, stops>>

-----------------------------------------------------------------------------
SchedulerInit ==
  /\ Init
  /\ loop = [d \in Daemon |-> "down"]
  /\ capacity = [d \in Daemon |-> 0]
  /\ workers = {}
  /\ sent = {}
  /\ stops = 0

LoopStep(d) ==
  \/ RecoverExpired(d) \/ ReadControl(d) \/ EnqueueDue(d) \/ AcquireRuns(d)
  \/ AbandonIteration(d) \/ RecordOutcomes(d)

\* Ticks, users and operators.
Environment == (Tick \/ AddJob \/ Operator) /\ UNCHANGED schedulerVars

SchedulerNext ==
  \/ Environment
  \/ \E d \in Daemon : LoopStep(d) \/ shutdown(d) \/ Exit(d) \/ start(d)
  \/ \E w \in workers : WorkerMain(w) \/ _lease_renewer(w)

SchedulerSpec == SchedulerInit /\ [][SchedulerNext]_allVars

-----------------------------------------------------------------------------
(* Properties                                                              *)

\* The result of a run is handed to the delivery handler at most once, over
\* all the attempts and all the daemons that worked on it: the marker is
\* written under the fence before the handler is called and survives retries
\* (deliver_cron_run).
AtMostOneDelivery ==
  /\ \A c, e \in sent : SameRun(c, e) => c = e
  /\ \A c \in sent, w \in workers : w.phase = "send" => ~SameRun(c, w.claim)

\* A daemon never has more threads than max_concurrent_runs, although the
\* capacity is computed at the head of an iteration and used at its end.
WithinCapacity ==
  \A d \in Daemon : Cardinality(Of(d)) <= MaxConcurrentRuns

\* A running row ends as finished or timed_out, or is retried before its
\* lease expired, only on behalf of a worker whose lease is the newest one
\* granted on the row and that reached that outcome; a worker that was
\* superseded, also by its own daemon, changes nothing
\* (persist_cron_run_outcome).
OutcomeByHolder ==
  [][\A r \in Run :
       /\ runs[r].state = "running"
       /\ runs'[r].state # "running"
       /\ runs'[r].state \in {"finished", "timed_out"} \/ runs[r].lease_expires_at > now
       => \E w \in workers : /\ w.claim.run = r
                             /\ \A c \in claims : SameRun(c, w.claim)
                                                  => c.attempts <= w.claim.attempts
                             /\ w.phase = "persist"
                             /\ runs'[r].state \in {"finished", "timed_out"}
                                  => w.outcome = runs'[r].state]_allVars

\* The daemons use the tables only through the store's transactions.
ImplementsStore == Spec
=============================================================================
