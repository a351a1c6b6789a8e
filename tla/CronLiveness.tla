---------------------------- MODULE CronLiveness ----------------------------
(***************************************************************************)
(* Progress of the scheduler for one-time jobs.  The model's clock stops   *)
(* at MaxTime, and without a running clock no lease would expire; so from  *)
(* there on time passes by bringing the stored deadlines nearer.  Nothing  *)
(* in the code looks at an instant other than by comparing it with the     *)
(* clock, once the jobs are due.                                           *)
(***************************************************************************)
EXTENDS CronScheduler

\* Recurring jobs would need new names for rows as time goes on.
ASSUME OneTimeAssumption ==
  \A j \in Job : Config[j].kind = "at" /\ Config[j].schedule <= MaxTime

\* A deadline that is still to come, one instant later.
Nearer(t) == IF t # NULL /\ t > now THEN t - 1 ELSE t

Elapse ==
  /\ now = MaxTime
  /\ runs' = [r \in Run |-> [runs[r] EXCEPT !.available_at = Nearer(@),
                                            !.lease_expires_at = Nearer(@)]]
  /\ UNCHANGED <<now, jobs, paused, scope_state, claims, calls, schedulerVars>>

TimePasses == Elapse \/ (Tick /\ UNCHANGED schedulerVars)

LiveNext == Elapse \/ SchedulerNext

(***************************************************************************)
(* The clock runs.  A daemon that went down is started again, a process    *)
(* that shuts down exits, and the loop thread is scheduled; an iteration   *)
(* may be abandoned any number of times, but not for ever at the same      *)
(* call.  Executors and handlers return: agent turns have a timeout.       *)
(***************************************************************************)
LoopFairness(d) ==
  /\ WF_allVars(start(d))
  /\ WF_allVars(loop[d] = "stopped" /\ Exit(d))
  /\ WF_allVars(RecoverExpired(d))
  /\ WF_allVars(RecordOutcomes(d))
  /\ SF_allVars(ReadControl(d))
  /\ SF_allVars(EnqueueDue(d))
  /\ SF_allVars(AcquireRuns(d))

Fairness ==
  /\ WF_allVars(TimePasses)
  /\ \A d \in Daemon : LoopFairness(d)
  /\ \A d \in Daemon, r \in Run :
       WF_allVars(\E w \in workers : w.claim.owner = d /\ w.claim.run = r /\ WorkerMain(w))

LiveSpec == SchedulerInit /\ [][LiveNext]_allVars /\ Fairness

\* An operator has stopped the job or the whole scheduler.
Halted(j) == paused \/ ~Present(j) \/ ~jobs[j].enabled

\* Every run that was enqueued or started comes to an end, through crashes,
\* lost leases, abandoned iterations and rejected outcomes, unless an
\* operator stops its job (recover_and_acquire_cron_runs).
RunsEnd ==
  \A r \in Run : IsActive(runs[r]) ~> (~IsActive(runs[r]) \/ Halted(r[1]))

\* A queued run of a disabled job: nobody starts it, and it counts as active.
Blocked(j) ==
  /\ Key(j) # NULL
  /\ \E r \in Run : /\ InScope(r, Key(j))
                    /\ runs[r].state = "queued"
                    /\ ~jobs[r[1]].enabled

\* A job that is due does not stay due: it is enqueued, recorded as missed or
\* passed over.  The exception is in the code: disabling a job without
\* cancelling its queued run keeps every other job of the scope waiting
\* (enqueue_due_cron_runs, _active_cron_run_count).
DueIsServed ==
  \A j \in Job : IsDue(j) ~> (~IsDue(j) \/ Halted(j) \/ Blocked(j))
=============================================================================
