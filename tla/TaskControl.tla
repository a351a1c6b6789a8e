----------------------------- MODULE TaskControl -----------------------------
(***************************************************************************)
(* The control operations on one scheduled task (TaskManager.pause_task,   *)
(* resume_task, cancel_task, run_task_now) and the recording of its runs'  *)
(* outcomes.  A task is two rows in two databases: its lifecycle record    *)
(* and its cron job.  An operation writes the job, then the record, and    *)
(* puts the job back if the record refuses; meanwhile the scheduler goes   *)
(* on with the job, and its threads record outcomes.                       *)
(*                                                                         *)
(* The job and its runs are CronStore's, reduced to what the operations    *)
(* read and write; the task has max_concurrency 1.  The operations follow  *)
(* one another, as those of one client do; they overlap with the scheduler *)
(* and the recorders.                                                      *)
(***************************************************************************)
EXTENDS Naturals, FiniteSets

CONSTANTS Operator,  \* control operations, each made once
          Recorder,  \* threads that record outcomes: the tick loop, run workers
          MaxRuns,   \* bound: runs of the job
          MaxFault   \* bound: operations that die or fail to write the record

ControlAssumption == MaxRuns \in Nat /\ MaxFault \in Nat

VARIABLES oneTime,   \* the schedule is "at" (TRUE) or recurs (FALSE)
          past,      \* the one time has come
          fired,     \* its run's row exists (UNIQUE(job_id, due_at))
          task,      \* the lifecycle record: state, and the run in last_run (0: none)
          job,       \* the cron job: enabled, and whether next_due_at is set
          runs,      \* the state of each run, by order of creation
          op,        \* the control operations
          rec,       \* the recorders
          torn,      \* history: an operation died half way (until one ends well, if the
                     \* task recurs) or overlapped with the closing of a one-time task
          faults

vars == <<oneTime, past, fired, task, job, runs, op, rec, torn, faults>>
schedule == <<oneTime, past, fired>>

Open == {"active", "paused"}
Closed == {"cancelled", "done", "failed"}
RunIds == 1..MaxRuns
\* "queued" has attempts 0, "retrying" is queued again after an attempt; "failed"
\* also stands for what was missed, timed out or cancelled after an attempt, and
\* "dropped" for what was cancelled without one.
Waiting == {"queued", "retrying"}
Ended == {"finished", "failed"}
RunStates == {"none", "running", "dropped"} \union Waiting \union Ended

TaskTypeOK ==
  /\ oneTime \in BOOLEAN /\ past \in BOOLEAN /\ fired \in BOOLEAN
  /\ task \in [state : Open \union Closed, last : 0..MaxRuns]
  /\ task.last # 0 => runs[task.last] \in Ended
  /\ job \in [enabled : BOOLEAN, due : BOOLEAN] /\ (job.due => job.enabled)
  /\ runs \in [RunIds -> RunStates]
  /\ Cardinality({i \in RunIds : runs[i] \in Waiting \union {"running"}}) <= 1
  /\ op \in [Operator -> [pc : {"idle", "job", "check", "record", "undo", "last", "trigger", "over"},
                          kind : {"pause", "resume", "cancel", "run"},
                          had : BOOLEAN]]
  /\ rec \in [Recorder -> [pc : {"idle", "job", "record"}, run : 0..MaxRuns,
                           seen : Open \union Closed, on : BOOLEAN]]
  /\ torn \in BOOLEAN
  /\ faults \in 0..MaxFault

Resting(pc) == [pc |-> pc, kind |-> "pause", had |-> FALSE]
Idle == [pc |-> "idle", run |-> 0, seen |-> "active", on |-> FALSE]

TaskInit ==
  /\ oneTime \in BOOLEAN
  /\ past = FALSE /\ fired = FALSE
  /\ task = [state |-> "active", last |-> 0]
  /\ job = [enabled |-> TRUE, due |-> TRUE]
  /\ runs = [i \in RunIds |-> "none"]
  /\ op = [o \in Operator |-> Resting("idle")]
  /\ rec = [r \in Recorder |-> Idle]
  /\ torn = FALSE
  /\ faults = 0

-----------------------------------------------------------------------------
(* The job and its runs                                                    *)

\* set_cron_job_enabled: next_due_at is computed or given if the job is enabled.
set_cron_job_enabled(enabled) == job' = [enabled |-> enabled, due |-> enabled]

Active == \E i \in RunIds : runs[i] \in Waiting \union {"running"}
Fresh(i) == runs[i] = "none" /\ \A k \in RunIds : k < i => runs[k] # "none"
New(state) == \E i \in RunIds : Fresh(i) /\ runs' = [runs EXCEPT ![i] = state]

\* The time of a one-time schedule comes.
Comes ==
  /\ oneTime /\ ~past /\ past' = TRUE
  /\ UNCHANGED <<oneTime, fired, task, job, runs, op, rec, torn, faults>>

\* enqueue_due_cron_runs: a one-time job is queued once; if it is too late
\* (misfire_policy "skip") it fails unless it was queued before, and is disabled.
enqueue_due_cron_runs ==
  /\ job.enabled /\ job.due /\ (oneTime => past) /\ ~Active
  /\ fired' = oneTime
  /\ \/ /\ IF fired THEN UNCHANGED runs ELSE New("queued")
        /\ job' = [job EXCEPT !.due = ~oneTime]
     \/ /\ oneTime
        /\ IF fired THEN UNCHANGED runs ELSE New("failed")
        /\ set_cron_job_enabled(FALSE)
  /\ UNCHANGED <<oneTime, past, task, op, rec, torn, faults>>

\* Mutant: a queued run is started whether or not its job is enabled.
AcquireDisabled(i) ==
  /\ runs[i] \in Waiting
  /\ runs' = [runs EXCEPT ![i] = "running"]
  /\ UNCHANGED <<schedule, task, job, op, rec, torn, faults>>

\* acquire_cron_runs takes runs of enabled jobs only.
acquire_cron_runs(i) ==
  /\ runs[i] \in Waiting /\ job.enabled
  /\ runs' = [runs EXCEPT ![i] = "running"]
  /\ UNCHANGED <<schedule, task, job, op, rec, torn, faults>>

\* finish_cron_run: a one-time job that finished is disabled with its run; one
\* that failed is retried or stays as it is.
finish_cron_run(i) ==
  /\ runs[i] = "running"
  /\ \/ /\ runs' = [runs EXCEPT ![i] = "finished"]
        /\ IF oneTime THEN set_cron_job_enabled(FALSE) ELSE UNCHANGED job
     \/ \E s \in {"failed", "retrying"} : runs' = [runs EXCEPT ![i] = s] /\ UNCHANGED job
  /\ UNCHANGED <<schedule, task, op, rec, torn, faults>>

-----------------------------------------------------------------------------
(* Control operations                                                      *)

At(o, pc) == op[o].pc = pc
Goes(o, pc) == op' = [op EXCEPT ![o].pc = pc]
Returns(o) == op' = [op EXCEPT ![o] = Resting("over")]
Busy == \E o \in Operator : op[o].pc \notin {"idle", "over"}
Closing == oneTime /\ \E r \in Recorder : rec[r].pc # "idle"
Target(o) ==
  CASE op[o].kind = "pause" -> "paused" [] op[o].kind = "cancel" -> "cancelled"
    [] OTHER -> "active"

\* An operation begins: it reads the record and the job.  resume_task refuses a
\* one-time task whose time has come, and a closed one.
Begin(o) ==
  /\ At(o, "idle") /\ ~Busy
  /\ \E kind \in {"pause", "resume", "cancel", "run"} :
       /\ kind = "resume" => task.state \in Open /\ ~(oneTime /\ past)
       /\ kind = "run" => task.state = "active"
       /\ op' = [op EXCEPT ![o] = [pc |-> IF kind = "run" THEN "trigger" ELSE "job",
                                   kind |-> kind, had |-> job.enabled]]
  /\ torn' = (torn \/ Closing)
  /\ UNCHANGED <<schedule, task, job, runs, rec, faults>>

\* The job is disabled or, by resume_task, enabled first.
WriteJob(o) ==
  /\ At(o, "job")
  /\ set_cron_job_enabled(op[o].kind = "resume")
  /\ Goes(o, "check")
  /\ UNCHANGED <<schedule, task, runs, rec, torn, faults>>

\* _ALLOWED_STATE_TRANSITIONS
ALLOWED(from, to) == from \in Open

\* transition: the record is read and the step checked ...
transition(o) ==
  /\ At(o, "check")
  /\ Goes(o, IF task.state = Target(o) THEN "last"
             ELSE IF ALLOWED(task.state, Target(o)) THEN "record" ELSE "undo")
  /\ UNCHANGED <<schedule, task, job, runs, rec, torn, faults>>

\* ... and written, whatever the record says by now.  If that raises, the job is
\* put back.
WriteRecord(o) ==
  /\ At(o, "record")
  /\ \/ task' = [task EXCEPT !.state = Target(o)] /\ Goes(o, "last") /\ UNCHANGED faults
     \/ faults < MaxFault /\ faults' = faults + 1 /\ Goes(o, "undo") /\ UNCHANGED task
  /\ UNCHANGED <<schedule, job, runs, rec, torn>>

\* Mutant: the job is enabled again even if it was not.
UndoEnables(o) ==
  /\ At(o, "undo")
  /\ set_cron_job_enabled(op[o].kind # "resume")
  /\ Returns(o)
  /\ UNCHANGED <<schedule, task, runs, rec, torn, faults>>

\* The compensation: the job gets back the enabled flag it was read with.
Undo(o) ==
  /\ At(o, "undo")
  /\ set_cron_job_enabled(op[o].kind # "resume" /\ op[o].had)
  /\ Returns(o)
  /\ UNCHANGED <<schedule, task, runs, rec, torn, faults>>

Dropped ==
  [i \in RunIds |-> CASE runs[i] = "queued" -> "dropped" [] runs[i] = "retrying" -> "failed"
                      [] OTHER -> runs[i]]

\* pause_task and cancel_task cancel what was queued in the meantime.
Last(o) ==
  /\ At(o, "last")
  /\ IF op[o].kind = "resume" THEN UNCHANGED <<job, runs>>
     ELSE set_cron_job_enabled(FALSE) /\ runs' = Dropped
  /\ torn' = (torn /\ oneTime)
  /\ Returns(o)
  /\ UNCHANGED <<schedule, task, rec, faults>>

\* trigger_task_run_now
trigger_task_run_now(o) ==
  /\ At(o, "trigger")
  /\ IF job.enabled /\ ~Active THEN New("queued") ELSE UNCHANGED runs
  /\ Returns(o)
  /\ UNCHANGED <<schedule, task, job, rec, torn, faults>>

\* The caller's process dies within an operation, or a write of the job raises.
Die(o) ==
  /\ op[o].pc \in {"job", "check", "record", "undo", "last"}
  /\ faults < MaxFault /\ faults' = faults + 1
  /\ torn' = TRUE
  /\ Returns(o)
  /\ UNCHANGED <<schedule, task, job, runs, rec>>

-----------------------------------------------------------------------------
(* Outcomes (reconcile_scheduled_outcomes, record_scheduled_outcome)       *)

\* list_unresolved_task_runs: the newest run that ended, never-started
\* cancellations left out.
Newest(i) == runs[i] \in Ended /\ \A k \in RunIds : k > i => runs[k] \notin Ended

\* Mutant: what is recorded is not looked at again.
Unrecorded(i) == task.last # i

\* A run is recorded once, but looked at again while it should have closed the
\* task and has not.
Unresolved(i) == task.last # i \/ (oneTime /\ task.state \in Open)

\* The record and the job are read ...
ReadRecord(r, i) ==
  /\ rec[r].pc = "idle" /\ Newest(i) /\ Unresolved(i)
  /\ rec' = [rec EXCEPT ![r] = [pc |-> "job", run |-> i, seen |-> task.state,
                                on |-> job.enabled]]
  /\ torn' = (torn \/ (oneTime /\ Busy))
  /\ UNCHANGED <<schedule, task, job, runs, op, faults>>

\* ... a one-time job that was enabled is disabled ...
DisableJob(r) ==
  /\ rec[r].pc = "job"
  /\ IF oneTime /\ rec[r].on THEN set_cron_job_enabled(FALSE) ELSE UNCHANGED job
  /\ rec' = [rec EXCEPT ![r].pc = "record"]
  /\ UNCHANGED <<schedule, task, runs, op, torn, faults>>

Outcome(r) ==
  IF oneTime /\ rec[r].seen \in Open
  THEN IF runs[rec[r].run] = "finished" THEN "done" ELSE "failed"
  ELSE rec[r].seen

\* Mutant: the record is written whatever state it has by now.
record_any_state(r) ==
  /\ rec[r].pc = "record"
  /\ task' = [state |-> Outcome(r), last |-> rec[r].run]
  /\ rec' = [rec EXCEPT ![r] = Idle]
  /\ UNCHANGED <<schedule, job, runs, op, torn, faults>>

\* ... and the record written: UPDATE ... WHERE task_id = ? AND state = ?
record_scheduled_outcome(r) ==
  /\ rec[r].pc = "record"
  /\ task' = IF task.state = rec[r].seen THEN [state |-> Outcome(r), last |-> rec[r].run]
             ELSE task
  /\ rec' = [rec EXCEPT ![r] = Idle]
  /\ UNCHANGED <<schedule, job, runs, op, torn, faults>>

OpStep(o) ==
  \/ WriteJob(o) \/ transition(o) \/ WriteRecord(o) \/ Undo(o) \/ Last(o)
  \/ trigger_task_run_now(o)

Record(r) ==
  \/ \E i \in RunIds : ReadRecord(r, i)
  \/ DisableJob(r) \/ record_scheduled_outcome(r)

TaskNext ==
  \/ Comes \/ enqueue_due_cron_runs
  \/ \E i \in RunIds : acquire_cron_runs(i) \/ finish_cron_run(i)
  \/ \E o \in Operator : Begin(o) \/ OpStep(o) \/ Die(o)
  \/ \E r \in Recorder : Record(r)

TaskSpec == TaskInit /\ [][TaskNext]_vars

\* The scheduler records outcomes on every tick; operations run on.
TaskLiveSpec ==
  /\ TaskSpec
  /\ \A o \in Operator : WF_vars(OpStep(o))
  /\ \A r \in Recorder : WF_vars(Record(r))

-----------------------------------------------------------------------------
(* Properties                                                              *)

\* Once pause_task or cancel_task has returned, or the task has closed, no run
\* of it starts until it is resumed, whatever was queued, retried or triggered
\* in the meantime.  (But for an operation that died half way or met the closing
\* of a one-time task.)
NoStartWhenStopped ==
  [][\A i \in RunIds : runs[i] # "running" /\ runs'[i] = "running" =>
       task.state = "active" \/ Busy \/ torn]_vars

\* Between operations, a job is enabled only if its task is active: pauses,
\* cancellations, refusals and failed writes leave the two rows in agreement,
\* unless an operation died half way or met the closing of a one-time task, when
\* what it puts back may be stale.
RowsAgree == ~Busy /\ ~torn /\ job.enabled => task.state = "active"

\* A cancelled task stays cancelled: an outcome that was being recorded does not
\* bring it back.
CancelledIsFinal == [][task.state = "cancelled" => task'.state = "cancelled"]_vars

\* A one-time task whose run has ended gets closed and stays so, also if control
\* operations overlap with the recording and reopen it.
OneTimeCloses ==
  <>[](oneTime /\ (\E i \in RunIds : runs[i] \in Ended) => task.state \in Closed)

\* What pause_task and cancel_task promise: stopped is stopped, in both databases.
StopIsHonoured == [](TaskTypeOK /\ RowsAgree) /\ NoStartWhenStopped /\ CancelledIsFinal
=============================================================================
