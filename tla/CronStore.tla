------------------------------ MODULE CronStore ------------------------------
(***************************************************************************)
(* The cron tables of the session store (modules/session/storage): jobs,  *)
(* their runs with leases and attempt counters, the scheduler pause flag   *)
(* and the watermark of each coordination scope.  Every operation is one   *)
(* action, because the code runs it under the store's lock and in one      *)
(* SQLite transaction.                                                     *)
(*                                                                         *)
(* A run row is named by <<job, due_at>>: the table has a unique index on  *)
(* that pair and job ids are never reused.  run_id tells apart the rows    *)
(* that have successively had this name (history can be deleted).  The     *)
(* JOIN with cron_jobs is Present(job): deleting a job sets its runs'      *)
(* job_id to NULL.                                                         *)
(*                                                                         *)
(* claims is a history variable: what acquire_cron_runs returned and some  *)
(* daemon thread may still remember.  A claim may be used at any later     *)
(* time, so a stalled or superseded worker is one that uses an old claim.  *)
(***************************************************************************)
EXTENDS Naturals, FiniteSets

CONSTANTS Job,         \* ids add_cron_job can hand out
          Daemon,      \* daemon_id of each scheduler process
          Target,      \* delivery targets
          Scope,       \* values of concurrency_key
          Config,      \* the columns of a job that never change
          Watch,       \* jobs whose result may disable them (watch_terminal)
          NULL,        \* SQL NULL
          LeaseTTL,    \* lease_ttl_s
          MinEvery,    \* DEFAULT_TASK_MIN_EVERY_MS
          MaxBackoff,  \* MAX_CRON_RETRY_BACKOFF_SECONDS
          MaxDueCandidates,   \* the 512 of _select_due_points_for_job
          MaxJobs,     \* bound: the largest max_jobs, the jobs one enqueue looks at
          MaxConcurrentRuns,  \* max_concurrent_runs of a scheduler
          MaxCalls,    \* bound: operator calls after the jobs were added
          MaxTime,     \* bound: the last instant of the model
          MaxRunId     \* bound: rows that may successively use one name

Time == 0..MaxTime
Run == Job \X Time
TimeOrNull == Nat \union {NULL}
TerminalStates == {"finished", "failed", "cancelled", "timed_out"}
RunStates == TerminalStates \union {"none", "queued", "running"}

JobConfig == [rowid : Nat, kind : {"at", "every"}, schedule : Nat,
              concurrency_key : Scope \union {NULL}, max_concurrency : Nat \ {0},
              max_attempts : Nat \ {0}, retry_backoff : Nat \ {0},
              misfire : {"skip", "run_once", "catch_up"}, catch_up_max : Nat \ {0},
              max_lateness : Nat, delete_after_run : BOOLEAN,
              task_owned : BOOLEAN, manual : BOOLEAN]

ASSUME ConfigAssumption ==
  /\ Config \in [Job -> JobConfig]
  /\ \A j, k \in Job : Config[j].rowid = Config[k].rowid => j = k
  /\ \A j \in Job : Config[j].kind = "every" => Config[j].schedule > 0
ASSUME BoundsAssumption ==
  /\ Watch \subseteq Job
  /\ LeaseTTL \in Nat \ {0}
  /\ MinEvery \in Nat
  /\ MaxBackoff \in Nat \ {0}
  /\ MaxDueCandidates \in Nat \ {0}
  /\ MaxJobs \in Nat \ {0}
  /\ MaxConcurrentRuns \in Nat \ {0}
  /\ MaxCalls \in Nat
  /\ MaxTime \in Nat
  /\ MaxRunId \in Nat
ASSUME NullAssumption == NULL \notin Nat /\ NULL \notin Scope /\ NULL \notin Daemon

VARIABLES now,          \* utc_now()
          jobs,         \* cron_jobs
          runs,         \* cron_runs
          paused,       \* cron_scheduler_control.paused
          scope_state,  \* cron_scope_state.last_success_run_id
          claims,       \* history: leases ever granted on existing rows
          calls         \* operator calls so far, for the bound MaxCalls

vars == <<now, jobs, runs, paused, scope_state, claims, calls>>

JobRow == [row : {"new", "present", "deleted"}, enabled : BOOLEAN,
           next_due_at : TimeOrNull]
RunRow == [run_id : Nat, state : RunStates, available_at : TimeOrNull,
           lease_owner : Daemon \union {NULL}, lease_expires_at : TimeOrNull,
           attempts : Nat, delivery_targets : SUBSET Target]
Claim == [run : Run, run_id : Nat, owner : Daemon, attempts : Nat]

TypeOK ==
  /\ now \in Time
  /\ jobs \in [Job -> JobRow]
  /\ runs \in [Run -> RunRow]
  /\ paused \in BOOLEAN
  /\ scope_state \in [Scope -> Run \union {NULL}]
  /\ claims \subseteq Claim
  /\ calls \in 0..MaxCalls

-----------------------------------------------------------------------------
Present(j) == jobs[j].row = "present"
Key(j) == Config[j].concurrency_key
IsActive(row) == row.state \in {"queued", "running"}

\* WHERE j.concurrency_key = ? over cron_runs JOIN cron_jobs
InScope(r, key) == Present(r[1]) /\ Key(r[1]) = key

Unleased(row) == [row EXCEPT !.lease_owner = NULL, !.lease_expires_at = NULL]

\* Mutant: the lease columns are not cleared.
EndedKeepsLease(row, state) == [row EXCEPT !.state = state]

Ended(row, state) == [Unleased(row) EXCEPT !.state = state]

\* A freshly inserted row; owner and expires are NULL for an unleased one.
NewRow(row, state, available, owner, expires) ==
  [run_id |-> row.run_id + 1, state |-> state, available_at |-> available,
   lease_owner |-> owner, lease_expires_at |-> expires, attempts |-> 0,
   delivery_targets |-> {}]

\* Mutant: only the attempt number is compared.
FenceByAttempts(c) ==
  /\ runs[c.run].run_id = c.run_id
  /\ runs[c.run].attempts = c.attempts

\* Mutant: the attempt number is not compared.
FenceByOwner(c) ==
  /\ runs[c.run].run_id = c.run_id
  /\ runs[c.run].state = "running"
  /\ runs[c.run].lease_owner = c.owner

\* The UPDATE ... WHERE state = 'running' AND lease_owner = ? AND attempts = ?
Fence(c) ==
  /\ runs[c.run].run_id = c.run_id
  /\ runs[c.run].state = "running"
  /\ runs[c.run].lease_owner = c.owner
  /\ runs[c.run].attempts = c.attempts

-----------------------------------------------------------------------------
(* Retries and recovery of expired leases                                  *)

_retry_delay_seconds(attempts, base_backoff) ==
  LET delay == base_backoff * 2 ^ (IF attempts = 0 THEN 0 ELSE attempts - 1)
  IN  IF delay < MaxBackoff THEN delay ELSE MaxBackoff

\* Within the attempts a job is allowed, the backoff is a number of seconds,
\* at least one and at most MaxBackoff.
ASSUME BackoffAssumption ==
  \A j \in Job : \A n \in 0..Config[j].max_attempts :
    _retry_delay_seconds(n, Config[j].retry_backoff) \in 1..MaxBackoff

Requeue(row, backoff) ==
  [Unleased(row) EXCEPT !.state = "queued",
     !.available_at = now + _retry_delay_seconds(row.attempts, backoff)]

\* Mutant: one attempt too many.
RetriedOnceMore(row, attempt_limit, backoff) ==
  IF row.attempts > attempt_limit THEN Ended(row, "failed") ELSE Requeue(row, backoff)

\* Mutant: the retry starts counting afresh.
RetriedAfresh(row, attempt_limit, backoff) ==
  IF row.attempts >= attempt_limit THEN Ended(row, "failed")
  ELSE [Requeue(row, backoff) EXCEPT !.attempts = 0]

\* Mutant: the retry forgets which targets were tried.
RetriedUnmarked(row, attempt_limit, backoff) ==
  IF row.attempts >= attempt_limit THEN Ended(row, "failed")
  ELSE [Requeue(row, backoff) EXCEPT !.delivery_targets = {}]

\* Mutant: an exhausted run gets a state of its own.
RetriedOrExpired(row, attempt_limit, backoff) ==
  IF row.attempts >= attempt_limit THEN Ended(row, "expired") ELSE Requeue(row, backoff)

\* One more attempt after the backoff, or failed once attempts has reached
\* the limit: what recovery and retry_cron_run both do to a running row.
RetriedOrFailed(row, attempt_limit, backoff) ==
  IF row.attempts >= attempt_limit
  THEN Ended(row, "failed")
  ELSE Requeue(row, backoff)

Expired(r) ==
  /\ runs[r].state = "running"
  /\ Present(r[1])
  /\ runs[r].lease_expires_at # NULL
  /\ runs[r].lease_expires_at <= now

\* Mutant: nothing is recovered.
RecoverNothing == runs

_recover_expired_cron_runs_locked ==
  [r \in Run |->
     IF Expired(r)
     THEN RetriedOrFailed(runs[r], Config[r[1]].max_attempts, Config[r[1]].retry_backoff)
     ELSE runs[r]]

recover_expired_cron_runs ==
  /\ runs' = _recover_expired_cron_runs_locked
  /\ UNCHANGED <<now, jobs, paused, scope_state, claims>>

-----------------------------------------------------------------------------
(* Jobs                                                                    *)

_initial_next_due(j) ==
  IF Config[j].kind = "at" THEN Config[j].schedule ELSE now + Config[j].schedule

add_cron_job(j, enabled) ==
  /\ jobs[j].row = "new"
  /\ jobs' = [jobs EXCEPT ![j] =
                [row |-> "present", enabled |-> enabled,
                 next_due_at |-> IF enabled THEN _initial_next_due(j) ELSE NULL]]
  /\ UNCHANGED <<now, runs, paused, scope_state, claims>>

\* Mutant: running rows are cancelled too.
set_cron_job_enabled_cancelling_active(j, enabled, cancel_queued) ==
  /\ Present(j)
  /\ jobs' = [jobs EXCEPT ![j].enabled = enabled,
                          ![j].next_due_at = IF enabled THEN _initial_next_due(j) ELSE NULL]
  /\ runs' = [r \in Run |->
                IF r[1] = j /\ ~enabled /\ cancel_queued /\ IsActive(runs[r])
                THEN Ended(runs[r], "cancelled") ELSE runs[r]]
  /\ UNCHANGED <<now, paused, scope_state, claims>>

set_cron_job_enabled(j, enabled, cancel_queued) ==
  /\ Present(j)
  /\ jobs' = [jobs EXCEPT ![j].enabled = enabled,
                          ![j].next_due_at = IF enabled THEN _initial_next_due(j) ELSE NULL]
  /\ runs' = [r \in Run |->
                IF r[1] = j /\ ~enabled /\ cancel_queued /\ runs[r].state = "queued"
                THEN Ended(runs[r], "cancelled") ELSE runs[r]]
  /\ UNCHANGED <<now, paused, scope_state, claims>>

Deleted(j) == [jobs EXCEPT ![j] = [row |-> "deleted", enabled |-> FALSE, next_due_at |-> NULL]]

delete_cron_job(j) ==
  /\ Present(j)
  /\ jobs' = Deleted(j)
  /\ UNCHANGED <<now, runs, paused, scope_state, claims>>

set_cron_scheduler_control(pause) ==
  /\ paused' = pause
  /\ UNCHANGED <<now, jobs, runs, scope_state, claims>>

-----------------------------------------------------------------------------
(* Due jobs.  table is cron_runs as the transaction sees it after the      *)
(* recovery that opens it, due the jobs its query returns.                 *)

\* Mutant: rows that ended are counted too.
active_count_with_history(table, j) ==
  Cardinality({r \in Run : /\ table[r].state # "none"
                           /\ IF Key(j) = NULL THEN r[1] = j ELSE InScope(r, Key(j))})

\* COUNT of queued or running rows in the job's scope, or of the job itself.
_active_cron_run_count(table, j) ==
  Cardinality({r \in Run : /\ IsActive(table[r])
                           /\ IF Key(j) = NULL THEN r[1] = j ELSE InScope(r, Key(j))})

max_for_job(j) == IF Key(j) = NULL THEN Config[j].max_concurrency ELSE 1

\* The n smallest, and the n largest, elements of a set of instants.
FirstN(S, n) == {t \in S : Cardinality({u \in S : u < t}) < n}
LastN(S, n) == {t \in S : Cardinality({u \in S : u > t}) < n}

\* Candidate instants from next_due_at up to now, but only the oldest ones if
\* there are many; and those not too late.
DueCandidates(j) ==
  FirstN({t \in Time : /\ jobs[j].next_due_at <= t /\ t <= now
                       /\ IF Config[j].kind = "at" THEN t = jobs[j].next_due_at
                          ELSE (t - jobs[j].next_due_at) % Config[j].schedule = 0},
         MaxDueCandidates)

\* Mutant: max_lateness is ignored.
AllCandidates(j) == DueCandidates(j)

RecentCandidates(j) == {t \in DueCandidates(j) : t + Config[j].max_lateness >= now}

\* The instants to run (first component of the code's pair) ...
_select_due_points_for_job(j) ==
  LET recent == RecentCandidates(j)
      policy == Config[j].misfire
      chosen == LastN(recent, IF policy = "catch_up" THEN Config[j].catch_up_max ELSE 1)
      late == IF policy = "run_once" \/ (policy = "catch_up" /\ Config[j].kind = "at")
              THEN {now} ELSE {}
  IN  IF recent = {} THEN late ELSE chosen

\* ... and the next_due_at to store (the second): past every candidate, even
\* the ones the job has no room for.
NextDue(j) ==
  LET elapsed == (now - jobs[j].next_due_at) \div Config[j].schedule + 1
      skipped == IF elapsed < MaxDueCandidates THEN elapsed ELSE MaxDueCandidates
  IN  IF Config[j].kind = "at" THEN NULL
      ELSE jobs[j].next_due_at + skipped * Config[j].schedule

IsDue(j) ==
  /\ Present(j)
  /\ jobs[j].enabled
  /\ jobs[j].next_due_at # NULL
  /\ jobs[j].next_due_at <= now

\* ORDER BY next_due_at, rows of equal key in index (rowid) order.
JobPrecedes(k, j) ==
  \/ jobs[k].next_due_at < jobs[j].next_due_at
  \/ jobs[k].next_due_at = jobs[j].next_due_at /\ Config[k].rowid < Config[j].rowid

_due_job_rows(max_jobs) ==
  LET due == {j \in Job : IsDue(j)}
  IN  {j \in due : Cardinality({k \in due : JobPrecedes(k, j)}) < max_jobs}

LegacyShortInterval(j) == Config[j].kind = "every" /\ Config[j].schedule < MinEvery

\* Mutant: the due points are not cut to the room there is.
AllDuePoints(table, j) == _select_due_points_for_job(j)

\* due_points[:room]
DuePoints(table, j) ==
  FirstN(_select_due_points_for_job(j), max_for_job(j) - _active_cron_run_count(table, j))

\* The rows INSERT ... ON CONFLICT(job_id, due_at) DO NOTHING really adds.
InsertedPoints(table, j) == {t \in DuePoints(table, j) : table[<<j, t>>].state = "none"}

\* Mutant: an interval below the floor is accepted.
HasRoomAtAnyInterval(table, due, j) ==
  j \in due /\ _active_cron_run_count(table, j) < max_for_job(j)

HasRoom(table, due, j) ==
  /\ j \in due
  /\ ~LegacyShortInterval(j)
  /\ _active_cron_run_count(table, j) < max_for_job(j)

\* The jobs the loop goes on with: there is room, and no job handled earlier
\* in the same transaction has just taken the scope.
Admitted(table, due, j) ==
  /\ HasRoom(table, due, j)
  /\ Key(j) # NULL =>
       \A k \in Job \ {j} : Key(k) = Key(j) /\ HasRoom(table, due, k) /\ JobPrecedes(k, j)
                              => InsertedPoints(table, k) = {}

\* Mutant: the test is on the wrong column.
ScheduleMissedIfDeleted(table, j) ==
  /\ Config[j].kind = "at"
  /\ Config[j].misfire = "skip"
  /\ DuePoints(table, j) = {}
  /\ Config[j].delete_after_run

\* A one-time task that is too late under the skip policy.
ScheduleMissed(table, j) ==
  /\ Config[j].kind = "at"
  /\ Config[j].misfire = "skip"
  /\ DuePoints(table, j) = {}
  /\ Config[j].task_owned

\* Mutant: next_due_at moves on only when a row was added.
JobAfterInsert(table, due, j) ==
  IF Admitted(table, due, j) /\ InsertedPoints(table, j) # {}
  THEN [jobs[j] EXCEPT !.next_due_at = NextDue(j)]
  ELSE jobs[j]

\* The row of a job after the transaction; enabled = FALSE goes with NULL.
JobAfterEnqueue(table, due, j) ==
  IF j \in due /\ LegacyShortInterval(j)
  THEN [jobs[j] EXCEPT !.enabled = FALSE, !.next_due_at = NULL]
  ELSE IF ~Admitted(table, due, j) THEN jobs[j]
  ELSE IF ScheduleMissed(table, j)
       THEN [jobs[j] EXCEPT !.enabled = FALSE, !.next_due_at = NULL]
       ELSE [jobs[j] EXCEPT !.next_due_at = NextDue(j)]

RunAfterEnqueue(table, due, r, owner) ==
  IF ~Admitted(table, due, r[1]) THEN table[r]
  ELSE IF r[2] \in InsertedPoints(table, r[1])
       THEN NewRow(table[r], "queued", r[2], owner, now + LeaseTTL)
  ELSE IF /\ ScheduleMissed(table, r[1])
          /\ r[2] = jobs[r[1]].next_due_at
          /\ table[r].state = "none"
       THEN NewRow(table[r], "failed", NULL, NULL, NULL)
  ELSE table[r]

enqueue_due_cron_runs(owner, max_jobs) ==
  LET table == _recover_expired_cron_runs_locked
      due == _due_job_rows(max_jobs)
  IN  /\ IF paused
         THEN jobs' = jobs /\ runs' = table
         ELSE /\ jobs' = [j \in Job |-> JobAfterEnqueue(table, due, j)]
              /\ runs' = [r \in Run |-> RunAfterEnqueue(table, due, r, owner)]
      /\ UNCHANGED <<now, paused, scope_state, claims>>

-----------------------------------------------------------------------------
(* Manual runs                                                             *)

trigger_task_run_now(j) ==
  LET r == <<j, now>>
  IN  /\ ~paused
      /\ Present(j)
      /\ jobs[j].enabled
      /\ Cardinality({q \in Run : q[1] = j /\ IsActive(runs[q])}) < Config[j].max_concurrency
      /\ runs[r].state = "none"
      /\ runs' = [runs EXCEPT ![r] = NewRow(@, "queued", now, NULL, NULL)]
      /\ UNCHANGED <<now, jobs, paused, scope_state, claims>>

\* No caller passes a lease_owner, so the row is unleased.
trigger_cron_run(j, due_at) ==
  LET r == <<j, due_at>>
  IN  /\ Config[j].manual
      /\ Present(j)
      /\ Key(j) # NULL => _active_cron_run_count(runs, j) = 0
      /\ runs[r].state = "none"
      /\ runs' = [runs EXCEPT ![r] = NewRow(@, "queued", due_at, NULL, NULL)]
      /\ UNCHANGED <<now, jobs, paused, scope_state, claims>>

-----------------------------------------------------------------------------
(* Leases                                                                  *)

\* WHERE clause of the candidate query of acquire_cron_runs.
IsCandidate(table, r, owner) ==
  LET row == table[r]
  IN  /\ row.state = "queued"
      /\ Present(r[1])
      /\ jobs[r[1]].enabled
      /\ row.available_at = NULL \/ row.available_at <= now
      /\ \/ row.lease_owner \in {NULL, owner}
         \/ row.lease_expires_at = NULL
         \/ row.lease_expires_at <= now

\* ORDER BY due_at
RunPrecedes(q, r) ==
  q[2] < r[2] \/ (q[2] = r[2] /\ Config[q[1]].rowid < Config[r[1]].rowid)

\* LIMIT is applied before the scope check below.
Candidates(table, owner, limit) ==
  LET all == {r \in Run : IsCandidate(table, r, owner)}
  IN  {r \in all : Cardinality({q \in all : RunPrecedes(q, r)}) < limit}

\* Mutant: a queued run of the scope counts as well.
scope_has_active_run(table, key, excluding) ==
  \E q \in Run \ {excluding} : InScope(q, key) /\ IsActive(table[q])

_scope_has_running_run_locked(table, key, excluding) ==
  \E q \in Run \ {excluding} : InScope(q, key) /\ table[q].state = "running"

\* Mutant: what the same transaction has just started is not seen.
AcquiredFromSnapshot(table, owner, limit) ==
  {r \in Candidates(table, owner, limit) :
     Key(r[1]) # NULL => ~_scope_has_running_run_locked(table, Key(r[1]), r)}

\* The candidates the loop starts: a keyed one only when its scope has no
\* running row, neither before the transaction nor started earlier in it.
Acquired(table, owner, limit) ==
  LET candidates == Candidates(table, owner, limit)
  IN  {r \in candidates :
         Key(r[1]) # NULL =>
           /\ ~_scope_has_running_run_locked(table, Key(r[1]), r)
           /\ \A q \in candidates : RunPrecedes(q, r) => Key(q[1]) # Key(r[1])}

StartedRow(row, owner) ==
  [row EXCEPT !.state = "running", !.available_at = NULL, !.lease_owner = owner,
              !.lease_expires_at = now + LeaseTTL, !.attempts = @ + 1]

ClaimOn(table, r, owner) ==
  [run |-> r, run_id |-> table[r].run_id, owner |-> owner, attempts |-> table[r].attempts + 1]

\* Mutant: the pause flag is not read again.
acquire_cron_runs_unpaused(owner, limit) ==
  LET table == _recover_expired_cron_runs_locked
      acquired == Acquired(table, owner, limit)
  IN  /\ runs' = [r \in Run |-> IF r \in acquired THEN StartedRow(table[r], owner) ELSE table[r]]
      /\ claims' = claims \union {ClaimOn(table, r, owner) : r \in acquired}
      /\ UNCHANGED <<now, jobs, paused, scope_state>>

acquire_cron_runs(owner, limit) ==
  LET table == _recover_expired_cron_runs_locked
      acquired == IF paused THEN {} ELSE Acquired(table, owner, limit)
  IN  /\ runs' = [r \in Run |-> IF r \in acquired THEN StartedRow(table[r], owner) ELSE table[r]]
      /\ claims' = claims \union {ClaimOn(table, r, owner) : r \in acquired}
      /\ UNCHANGED <<now, jobs, paused, scope_state>>

renew_cron_run_lease(c) ==
  /\ Fence(c)
  /\ runs' = [runs EXCEPT ![c.run].lease_expires_at = now + LeaseTTL]
  /\ UNCHANGED <<now, jobs, paused, scope_state, claims>>

-----------------------------------------------------------------------------
(* Outcomes                                                                *)

\* Mutant: any outcome moves the watermark.
persist_any_watermark(r, state, watermark) ==
  IF Key(r[1]) # NULL /\ watermark
  THEN [scope_state EXCEPT ![Key(r[1])] = r]
  ELSE scope_state

_persist_scope_watermark_locked(r, state, watermark) ==
  IF state = "finished" /\ Key(r[1]) # NULL /\ watermark
  THEN [scope_state EXCEPT ![Key(r[1])] = r]
  ELSE scope_state

_finalize_one_time_job_locked(j, state) ==
  IF state # "finished" \/ Config[j].kind # "at" THEN jobs
  ELSE IF Config[j].delete_after_run THEN Deleted(j)
  ELSE [jobs EXCEPT ![j].enabled = FALSE, ![j].next_due_at = NULL]

finish_cron_run(c, state, watermark) ==
  LET j == c.run[1]
  IN  /\ Fence(c)
      /\ runs' = [runs EXCEPT ![c.run] = Ended(@, state)]
      /\ IF Present(j)
         THEN /\ scope_state' = _persist_scope_watermark_locked(c.run, state, watermark)
              /\ jobs' = _finalize_one_time_job_locked(j, state)
         ELSE UNCHANGED <<jobs, scope_state>>
      /\ UNCHANGED <<now, paused, claims>>

\* A deleted job has no attempt limit left to read: it counts as 1.
retry_cron_run(c) ==
  LET j == c.run[1]
  IN  /\ Fence(c)
      /\ runs' = [runs EXCEPT ![c.run] =
                    RetriedOrFailed(@, IF Present(j) THEN Config[j].max_attempts ELSE 1,
                                       Config[j].retry_backoff)]
      /\ UNCHANGED <<now, jobs, paused, scope_state, claims>>

mark_cron_delivery_target(c, target) ==
  /\ Fence(c)
  /\ target \notin runs[c.run].delivery_targets
  /\ runs' = [runs EXCEPT ![c.run].delivery_targets = @ \union {target}]
  /\ UNCHANGED <<now, jobs, paused, scope_state, claims>>

\* Deleting history: the rows in S that are terminal.
DeleteTerminal(S) ==
  LET gone == {r \in S : runs[r].state \in TerminalStates}
  IN  /\ \A r \in gone : runs[r].run_id < MaxRunId
      /\ runs' = [r \in Run |->
                    IF r \in gone
                    THEN [run_id |-> runs[r].run_id, state |-> "none", available_at |-> NULL,
                          lease_owner |-> NULL, lease_expires_at |-> NULL, attempts |-> 0,
                          delivery_targets |-> {}]
                    ELSE runs[r]]
      /\ claims' = {c \in claims : c.run \notin gone}
      /\ UNCHANGED <<now, jobs, paused, scope_state>>

delete_terminal_cron_runs(j) ==
  /\ Present(j)
  /\ DeleteTerminal({r \in Run : r[1] = j})

\* created_at is not kept: any set of terminal rows may be the old ones.
delete_old_cron_runs ==
  \E S \in SUBSET {r \in Run : runs[r].state \in TerminalStates} : DeleteTerminal(S)

-----------------------------------------------------------------------------
Init ==
  /\ now = 0
  /\ jobs = [j \in Job |-> [row |-> "new", enabled |-> FALSE, next_due_at |-> NULL]]
  /\ runs = [r \in Run |->
               [run_id |-> 0, state |-> "none", available_at |-> NULL, lease_owner |-> NULL,
                lease_expires_at |-> NULL, attempts |-> 0, delivery_targets |-> {}]]
  /\ paused = FALSE
  /\ scope_state = [k \in Scope |-> NULL]
  /\ claims = {}
  /\ calls = 0

Tick ==
  /\ now < MaxTime
  /\ now' = now + 1
  /\ UNCHANGED <<jobs, runs, paused, scope_state, claims, calls>>

\* What users and operators call.
Operator ==
  /\ calls < MaxCalls
  /\ calls' = calls + 1
  /\ \/ \E j \in Job :
          \/ \E enabled, cancel_queued \in BOOLEAN :
               set_cron_job_enabled(j, enabled, cancel_queued)
          \/ delete_cron_job(j)
          \/ trigger_task_run_now(j)
          \/ \E due_at \in Time : trigger_cron_run(j, due_at)
          \/ delete_terminal_cron_runs(j)
     \/ \E pause \in BOOLEAN : set_cron_scheduler_control(pause)
     \/ delete_old_cron_runs

AddJob ==
  /\ \E j \in Job, enabled \in BOOLEAN : add_cron_job(j, enabled)
  /\ UNCHANGED calls

\* Jobs that a scheduler disables when a run of them has ended: watches, and
\* the one-time jobs of tasks (record_scheduled_outcome).
Closable == {j \in Job : j \in Watch \/ (Config[j].kind = "at" /\ Config[j].task_owned)}

\* What a scheduler calls in its loop and when a worker has an outcome.
Scheduler ==
  /\ \/ recover_expired_cron_runs
     \/ \E j \in Closable : set_cron_job_enabled(j, FALSE, FALSE)
     \/ \E d \in Daemon :
          \/ \E max_jobs \in 1..MaxJobs : enqueue_due_cron_runs(d, max_jobs)
          \/ \E limit \in 1..MaxConcurrentRuns : acquire_cron_runs(d, limit)
  /\ UNCHANGED calls

\* What the thread that was given claim c calls, however late.
Worker(c) ==
  /\ \/ renew_cron_run_lease(c)
     \/ \E state \in {"finished", "failed", "timed_out"}, watermark \in BOOLEAN :
          finish_cron_run(c, state, watermark)
     \/ retry_cron_run(c)
     \/ \E target \in Target : mark_cron_delivery_target(c, target)
  /\ UNCHANGED calls

Next == Tick \/ AddJob \/ Operator \/ Scheduler \/ \E c \in claims : Worker(c)

Spec == Init /\ [][Next]_vars

-----------------------------------------------------------------------------
(* Properties                                                              *)

\* Mutual exclusion of a coordination scope: of the jobs that share a
\* concurrency_key at most one run is running, whatever was enqueued,
\* triggered by hand, recovered or retried meanwhile (acquire_cron_runs).
ScopeMutex ==
  \A q, r \in Run :
    /\ runs[q].state = "running"
    /\ runs[r].state = "running"
    /\ Present(q[1])
    /\ Present(r[1])
    /\ Key(q[1]) # NULL
    /\ Key(q[1]) = Key(r[1])
    => q = r

\* The fencing token works: two leases on the same row never carry the same
\* attempt number under different owners, and only the newest lease carries
\* the row's current number.  So at most one claim can pass the fence of
\* renew, finish, retry and mark.
FencingTokens ==
  /\ \A c, d \in claims : /\ c.run = d.run
                          /\ c.attempts = d.attempts
                          => c.owner = d.owner
  /\ \A c \in claims : /\ runs[c.run].run_id = c.run_id
                       /\ c.attempts <= runs[c.run].attempts

\* A row never starts more often than the job's max_attempts allows, through
\* any mix of crashes, expired leases, recoveries and explicit retries; and a
\* queued row can still be started once more.
AttemptLimit ==
  \A r \in Run :
    /\ runs[r].attempts <= Config[r[1]].max_attempts
    /\ runs[r].state = "queued" => runs[r].attempts < Config[r[1]].max_attempts

\* A running row has an owner and a deadline, so recovery can find it when
\* the owner dies; a terminal row has neither.
LeaseIffRunning ==
  \A r \in Run :
    /\ runs[r].state = "running" =>
         runs[r].lease_owner # NULL /\ runs[r].lease_expires_at # NULL
    /\ runs[r].state \in TerminalStates =>
         runs[r].lease_owner = NULL /\ runs[r].lease_expires_at = NULL

\* Jobs that nobody triggers through the manual entry point stay within
\* max_concurrency queued or running rows, although the count is checked
\* when rows are added and not when recovery puts them back.
ConcurrencyLimit ==
  \A j \in Job :
    (Key(j) = NULL /\ ~Config[j].manual)
      => Cardinality({r \in Run : r[1] = j /\ IsActive(runs[r])}) <= Config[j].max_concurrency

\* An enabled one-time job that has no due time any more has had a row: it
\* is never silently dropped, not when it was too late, nor when its instant
\* was already taken by a manual run (_persist_due_decision).
OneTimeNeverDropped ==
  \A j \in Job :
    /\ Present(j) /\ jobs[j].enabled /\ jobs[j].next_due_at = NULL
    /\ Config[j].kind = "at"
    /\ Config[j].task_owned \/ Config[j].misfire # "skip"
    => \E t \in Time : runs[<<j, t>>].run_id > 0

\* The watermark of a scope names a run that did finish: a run that lost its
\* lease, failed or was retried never moves it.
WatermarkIsSuccess ==
  \A k \in Scope :
    scope_state[k] # NULL =>
      LET row == runs[scope_state[k]] IN row.state \in {"finished", "none"} \/ row.run_id > 1

\* A terminal row is never rewritten: a worker that reports after its lease
\* was taken away cannot change the recorded outcome.
TerminalIsFinal ==
  [][\A r \in Run :
       runs[r].state \in TerminalStates =>
         \/ runs'[r].state = runs[r].state
         \/ runs'[r].state = "none"]_vars

\* While the scheduler is paused no row is started: the flag that the loop
\* read may be stale, so both transactions read it again.
PausedStartsNothing ==
  [][paused => \A r \in Run : runs'[r].attempts <= runs[r].attempts]_vars

\* A job under the skip policy is never run for an instant that is more than
\* max_lateness old or still to come, however long no scheduler looked.
SkipNeverRunsLate ==
  [][\A r \in Run :
       /\ Config[r[1]].misfire = "skip" /\ ~Config[r[1]].manual
       /\ runs[r].state = "none" /\ runs'[r].state = "queued"
       => r[2] <= now /\ now <= r[2] + Config[r[1]].max_lateness]_vars

\* A recurring job below the interval floor never gets a row from the
\* scheduler, also after an operator enabled it again: the enqueueing that
\* finds it due pauses it instead (_auto_pause_legacy_short_interval_job).
CadenceFloor ==
  [][\A r \in Run :
       /\ LegacyShortInterval(r[1])
       /\ runs[r].state = "none" /\ runs'[r].state # "none"
       => calls' > calls]_vars

\* A delivery marker, once set, stays as long as the row does: a retried run
\* sees that the target was already attempted.
MarkersStay ==
  [][\A r \in Run :
       runs'[r].run_id = runs[r].run_id /\ runs'[r].state # "none"
         => runs[r].delivery_targets \subseteq runs'[r].delivery_targets]_vars

\* The store implements the life cycle of a run: forget everything but each
\* row's state and attempt count.
Lifecycle == INSTANCE CronRunLifecycle
               WITH Row <- Run,
                    Limit <- [r \in Run |-> Config[r[1]].max_attempts],
                    state <- [r \in Run |-> runs[r].state],
                    attempts <- [r \in Run |-> runs[r].attempts]

\* Every transaction moves each row along the life cycle or leaves it alone.
ImplementsLifecycle == Lifecycle!Spec
=============================================================================
