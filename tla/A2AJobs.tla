------------------------------- MODULE A2AJobs -------------------------------
(***************************************************************************)
(* Agent-to-agent jobs under one idempotency key (A2ARuntime.job_start,    *)
(* job_status, job_cancel, recover_stale_jobs and the workers of the job   *)
(* pool), by runtimes that share a state store.                            *)
(*                                                                         *)
(* A runtime does all its bookkeeping under one lock, so it is in one      *)
(* operation at a time (op); the operation's accesses to the store are     *)
(* separate steps, which other runtimes and crashes come between.  A       *)
(* handler runs outside the lock.  A job is named after the job_start call *)
(* that created it.                                                        *)
(***************************************************************************)
EXTENDS Naturals, FiniteSets

CONSTANTS Call,       \* job_start calls with this key; also the task ids
          Runtime,
          runtimeOf,  \* the runtime each call is made to
          NULL,
          MaxFault    \* bound: crashes and accesses to the store that raise

JobAssumption ==
  /\ runtimeOf \in [Call -> Runtime]
  /\ NULL \notin Call
  /\ MaxFault \in Nat

VARIABLES idem,       \* the idempotency_keys row: status and task_id
          job,        \* the state in each job's row, "none" if there is no row
          stale,      \* the jobs whose heartbeat is past the threshold
          start,      \* what each job_start call returned
          op,         \* the operation each runtime is in
          futures,    \* the jobs in _futures and _cancel_events of their runtime
          cancelled,  \* the jobs whose cancel event is set
          worker,     \* where the worker of each job is
          told,       \* history: the terminal state clients were told
          ran,        \* history: handler runs
          lost,       \* history: the key was left reserved, with no job to settle it
          faults

store == <<idem, job, stale>>
memory == <<op, futures, cancelled, worker>>
vars == <<idem, job, stale, start, op, futures, cancelled, worker, told, ran, lost, faults>>

Terminal == {"success", "failed", "canceled"}
States == {"none", "pending", "running"} \union Terminal
Kinds == {"create", "link", "mark", "update", "settle"}
Idle == [kind |-> "idle", task |-> NULL, to |-> NULL, by |-> NULL]

JobTypeOK ==
  /\ idem \in [status : {"none", "in_progress"} \union Terminal, task : Call \union {NULL}]
  /\ idem.status = "none" => idem.task = NULL
  /\ idem.status \in Terminal => idem.task # NULL
  /\ job \in [Call -> States]
  /\ stale \subseteq {t \in Call : job[t] \in {"pending", "running"}}
  /\ start \in [Call -> {"new", "open", "raised"} \union Call]
  /\ \A r \in Runtime :
       \/ op[r] = Idle
       \/ op[r] \in [kind : Kinds, task : {t \in Call : r = runtimeOf[t]}, to : Terminal \union {NULL},
                     by : {"start", "worker"}]
       \/ op[r] \in [kind : Kinds, task : Call, to : Terminal, by : {"client"}]
  /\ futures \subseteq Call /\ cancelled \subseteq Call
  /\ worker \in [Call -> {"none", "queued", "started", "handler", "returned", "raised", "over"}]
  /\ told \in [Call -> Terminal \union {NULL}]
  /\ ran \in [Call -> Nat]
  /\ lost \in BOOLEAN
  /\ faults \in 0..MaxFault

JobInit ==
  /\ idem = [status |-> "none", task |-> NULL]
  /\ job = [t \in Call |-> "none"]
  /\ stale = {}
  /\ start = [c \in Call |-> "new"]
  /\ op = [r \in Runtime |-> Idle]
  /\ futures = {} /\ cancelled = {}
  /\ worker = [t \in Call |-> "none"]
  /\ told = [t \in Call |-> NULL]
  /\ ran = [t \in Call |-> 0]
  /\ lost = FALSE
  /\ faults = 0

Free(r) == op[r] = Idle
In(r, kind) == op[r].kind = kind
Enters(r, kind, t, to, by) ==
  op' = [op EXCEPT ![r] = [kind |-> kind, task |-> t, to |-> to, by |-> by]]
Leaves(r) == op' = [op EXCEPT ![r] = Idle]

\* _job_patch: every update of a job renews its heartbeat.
Updated(t, state) ==
  /\ job' = [job EXCEPT ![t] = state]
  /\ stale' = stale \ {t}

-----------------------------------------------------------------------------
(* job_start                                                               *)

\* Mutant: a key whose job has ended is free again.
ReserveEnded(c) ==
  LET r == runtimeOf[c]
  IN  /\ Free(r) /\ start[c] = "new"
      /\ IF idem.status \in {"none"} \union Terminal
         THEN /\ idem' = [status |-> "in_progress", task |-> NULL]
              /\ start' = [start EXCEPT ![c] = "open"]
              /\ Enters(r, "create", c, NULL, "start")
         ELSE /\ start' = [start EXCEPT ![c] = IF idem.task # NULL THEN idem.task ELSE "raised"]
              /\ UNCHANGED <<idem, op>>
      /\ UNCHANGED <<job, stale, futures, cancelled, worker, told, ran, lost, faults>>

\* reserve_idempotency: a call that finds the key taken returns the job's id, or
\* raises while there is none.
reserve(c) ==
  LET r == runtimeOf[c]
  IN  /\ Free(r) /\ start[c] = "new"
      /\ IF idem.status = "none"
         THEN /\ idem' = [status |-> "in_progress", task |-> NULL]
              /\ start' = [start EXCEPT ![c] = "open"]
              /\ Enters(r, "create", c, NULL, "start")
         ELSE /\ start' = [start EXCEPT ![c] = IF idem.task # NULL THEN idem.task ELSE "raised"]
              /\ UNCHANGED <<idem, op>>
      /\ UNCHANGED <<job, stale, futures, cancelled, worker, told, ran, lost, faults>>

create_job(r) ==
  /\ In(r, "create")
  /\ Updated(op[r].task, "pending")
  /\ Enters(r, "link", op[r].task, NULL, "start")
  /\ UNCHANGED <<idem, start, futures, cancelled, worker, told, ran, lost, faults>>

\* set_idempotency_result with the task id, then submit to the pool
submit(r) ==
  LET t == op[r].task
  IN  /\ In(r, "link")
      /\ idem' = [status |-> "in_progress", task |-> t]
      /\ futures' = futures \union {t}
      /\ worker' = [worker EXCEPT ![t] = "queued"]
      /\ start' = [start EXCEPT ![t] = t]
      /\ Leaves(r)
      /\ UNCHANGED <<job, stale, cancelled, told, ran, lost, faults>>

-----------------------------------------------------------------------------
(* The worker (_run_job)                                                   *)

Over(t) == worker' = [worker EXCEPT ![t] = "over"]

\* _mark_job_running: get_job ...
_mark_job_running(t) ==
  LET r == runtimeOf[t]
  IN  /\ worker[t] = "queued" /\ Free(r)
      /\ IF job[t] \in Terminal THEN Over(t) /\ UNCHANGED op
         ELSE Enters(r, "mark", t, NULL, "worker") /\ UNCHANGED worker
      /\ UNCHANGED <<store, start, futures, cancelled, told, ran, lost, faults>>

\* ... and update_job
MarkRunning(r) ==
  /\ In(r, "mark")
  /\ Updated(op[r].task, "running")
  /\ worker' = [worker EXCEPT ![op[r].task] = "started"]
  /\ Leaves(r)
  /\ UNCHANGED <<idem, start, futures, cancelled, told, ran, lost, faults>>

\* Mutant: the cancel event is not looked at.
RunAnyway(t) ==
  /\ worker[t] = "started"
  /\ worker' = [worker EXCEPT ![t] = "handler"] /\ ran' = [ran EXCEPT ![t] = @ + 1]
  /\ UNCHANGED <<store, start, op, futures, cancelled, told, lost, faults>>

\* The handler starts, unless the job was cancelled ...
Run(t) ==
  /\ worker[t] = "started"
  /\ IF t \in cancelled THEN Over(t) /\ UNCHANGED ran
     ELSE worker' = [worker EXCEPT ![t] = "handler"] /\ ran' = [ran EXCEPT ![t] = @ + 1]
  /\ UNCHANGED <<store, start, op, futures, cancelled, told, lost, faults>>

\* ... and returns or raises.
handler(t) ==
  /\ worker[t] = "handler"
  /\ \E w \in {"returned", "raised"} : worker' = [worker EXCEPT ![t] = w]
  /\ UNCHANGED <<store, start, op, futures, cancelled, told, ran, lost, faults>>

\* Mutant: the end of the handler is recorded whatever the job's state is.
EndAnyway(t) ==
  LET r == runtimeOf[t]
  IN  /\ worker[t] \in {"returned", "raised"} /\ Free(r)
      /\ Enters(r, "update", t, IF worker[t] = "returned" THEN "success" ELSE "failed", "worker")
      /\ UNCHANGED <<store, start, futures, cancelled, worker, told, ran, lost, faults>>

\* _mark_job_success and _mark_job_failed, up to get_job: a job that was
\* cancelled or has ended is left alone.
_mark_job_ended(t) ==
  LET r == runtimeOf[t]
  IN  /\ worker[t] \in {"returned", "raised"} /\ Free(r)
      /\ IF t \in cancelled \/ job[t] \in Terminal THEN Over(t) /\ UNCHANGED op
         ELSE /\ Enters(r, "update", t, IF worker[t] = "returned" THEN "success" ELSE "failed", "worker")
              /\ UNCHANGED worker
      /\ UNCHANGED <<store, start, futures, cancelled, told, ran, lost, faults>>

\* _forget_job, the done callback of the future
_forget_job(t) ==
  /\ worker[t] = "over" /\ t \in futures /\ Free(runtimeOf[t])
  /\ futures' = futures \ {t}
  /\ UNCHANGED <<store, start, op, cancelled, worker, told, ran, lost, faults>>

-----------------------------------------------------------------------------
(* job_status, job_cancel and recovery                                     *)

Mine(r, t) == t \in futures /\ runtimeOf[t] = r

\* Mutant: a job that was never started is not recovered.
RecoverRunning(r, t) ==
  /\ Free(r) /\ job[t] = "running" /\ t \in stale /\ ~Mine(r, t)
  /\ Enters(r, "update", t, "failed", "client")
  /\ UNCHANGED <<store, start, futures, cancelled, worker, told, ran, lost, faults>>

\* _recover_stale_job, as job_status, job_cancel and a starting runtime call it.
_recover_stale_job(r, t) ==
  /\ Free(r) /\ job[t] \in {"pending", "running"} /\ t \in stale /\ ~Mine(r, t)
  /\ Enters(r, "update", t, "failed", "client")
  /\ UNCHANGED <<store, start, futures, cancelled, worker, told, ran, lost, faults>>

\* job_status or job_cancel of a job that has ended
job_status(r, t) ==
  /\ Free(r) /\ job[t] \in Terminal /\ told[t] # job[t]
  /\ told' = [told EXCEPT ![t] = job[t]]
  /\ UNCHANGED <<store, start, memory, ran, lost, faults>>

\* job_cancel of one that has not
job_cancel(r, t) ==
  /\ Free(r) /\ job[t] \in {"pending", "running"} /\ (t \in stale => Mine(r, t))
  /\ Enters(r, "update", t, "canceled", "client")
  /\ UNCHANGED <<store, start, futures, cancelled, worker, told, ran, lost, faults>>

\* update_job, of a worker's end, a recovery or a cancellation
update_job(r) ==
  /\ In(r, "update")
  /\ Updated(op[r].task, op[r].to)
  /\ op' = [op EXCEPT ![r].kind = "settle"]
  /\ UNCHANGED <<idem, start, futures, cancelled, worker, told, ran, lost, faults>>

\* A cancellation sets the event and drops the job if no worker has it yet.
Signalled(r, t) ==
  /\ cancelled' = IF op[r].to = "canceled" /\ Mine(r, t) THEN cancelled \union {t} ELSE cancelled
  /\ LET drop == op[r].to = "canceled" /\ Mine(r, t) /\ worker[t] = "queued"
     IN  /\ worker' = IF drop \/ op[r].by = "worker" THEN [worker EXCEPT ![t] = "over"] ELSE worker
         /\ futures' = IF drop THEN futures \ {t} ELSE futures

\* Mutant: a key knows success and failure only.
SettleByOutcome(r) ==
  LET t == op[r].task
  IN  /\ In(r, "settle")
      /\ Signalled(r, t)
      /\ idem' = [status |-> IF op[r].to = "canceled" THEN "failed" ELSE op[r].to, task |-> t]
      /\ told' = IF op[r].by = "client" THEN [told EXCEPT ![t] = op[r].to] ELSE told
      /\ Leaves(r)
      /\ UNCHANGED <<job, stale, start, ran, lost, faults>>

\* The cancel event and set_idempotency_result, and the operation returns.
settle(r) ==
  LET t == op[r].task
  IN  /\ In(r, "settle")
      /\ Signalled(r, t)
      /\ idem' = [status |-> op[r].to, task |-> t]
      /\ told' = IF op[r].by = "client" THEN [told EXCEPT ![t] = op[r].to] ELSE told
      /\ Leaves(r)
      /\ UNCHANGED <<job, stale, start, ran, lost, faults>>

-----------------------------------------------------------------------------
(* Faults and time                                                         *)

\* The operation is the one that would have given the key its job, and the last.
KeyStranded(r) == In(r, "create") \/ (In(r, "settle") /\ idem.task = NULL)

\* An access to the store raises.  job_start ends with what it has done so far;
\* the worker records a failure instead, once, and only if the job has not
\* ended; a cancellation that cannot settle the key has set the event already.
StoreRaises(r) ==
  LET t == op[r].task
  IN  /\ ~Free(r) /\ faults < MaxFault
      /\ faults' = faults + 1
      /\ start' = IF op[r].by = "start" THEN [start EXCEPT ![t] = "raised"] ELSE start
      /\ lost' = (lost \/ KeyStranded(r))
      /\ IF op[r].by # "client"
         THEN /\ worker' = [worker EXCEPT ![t] =
                   CASE In(r, "mark") \/ op[r].to = "success" -> "raised"
                     [] op[r].to = "failed" -> "over"
                     [] OTHER -> @]
              /\ UNCHANGED <<futures, cancelled>>
         ELSE IF In(r, "settle") THEN Signalled(r, t)
         ELSE UNCHANGED <<futures, cancelled, worker>>
      /\ Leaves(r)
      /\ UNCHANGED <<store, told, ran>>

\* A runtime dies, or is closed with the store, and another is started.
Crash(r) ==
  LET mine == {t \in Call : runtimeOf[t] = r}
  IN  /\ faults < MaxFault
      /\ faults' = faults + 1
      /\ start' = [c \in Call |-> IF c \in mine /\ start[c] = "open" THEN "raised" ELSE start[c]]
      /\ lost' = (lost \/ KeyStranded(r))
      /\ op' = [op EXCEPT ![r] = Idle]
      /\ futures' = futures \ mine
      /\ cancelled' = cancelled \ mine
      /\ worker' = [t \in Call |-> IF t \in mine /\ worker[t] # "none" THEN "over" ELSE worker[t]]
      /\ UNCHANGED <<store, told, ran>>

\* The recovery threshold passes since the last update of a job.
Stale(t) ==
  /\ job[t] \in {"pending", "running"} /\ t \notin stale
  /\ stale' = stale \union {t}
  /\ UNCHANGED <<idem, job, start, memory, told, ran, lost, faults>>

\* What the runtime's threads do by themselves
WorkerStep(t) ==
  \/ _mark_job_running(t) \/ Run(t) \/ handler(t) \/ _mark_job_ended(t) \/ _forget_job(t)
OpStep(r) ==
  \/ create_job(r) \/ submit(r) \/ MarkRunning(r) \/ update_job(r) \/ settle(r)

JobNext ==
  \/ \E c \in Call : reserve(c) \/ WorkerStep(c) \/ Stale(c)
  \/ \E r \in Runtime, t \in Call :
       job_status(r, t) \/ job_cancel(r, t) \/ _recover_stale_job(r, t)
  \/ \E r \in Runtime : OpStep(r) \/ StoreRaises(r) \/ Crash(r)

JobSpec == JobInit /\ [][JobNext]_vars

\* Threads are scheduled, handlers end, time passes, and clients poll job_status
\* of the jobs they started.
JobLiveSpec ==
  /\ JobSpec
  /\ \A r \in Runtime : WF_vars(OpStep(r))
  /\ \A t \in Call : /\ WF_vars(WorkerStep(t)) /\ WF_vars(Stale(t))
                     /\ SF_vars(\E r \in Runtime : _recover_stale_job(r, t))

-----------------------------------------------------------------------------
(* Properties                                                              *)

\* However often job_start is called with a key, one job is created, and its
\* handler runs once: a job is failed after a crash, never run again.
OneJobPerKey ==
  /\ Cardinality({t \in Call : job[t] # "none"}) <= 1
  /\ \A t \in Call : ran[t] <= 1

\* A client that was told how a job ended is never contradicted: a late worker,
\* cancellation or recovery leaves the job alone.  (For one runtime.  Two that
\* share a store check and write without a common lock.)
ToldIsFinal == \A t \in Call : told[t] # NULL => job[t] = told[t]

\* Once a job's key is settled it says what the job's row says.  (For one
\* runtime; the key may lag behind if it could not be written.)
KeyAgreesWithJob == idem.status \in Terminal => job[idem.task] = idem.status

\* Once job_cancel has returned, the job's handler does not start any more.
\* (For one runtime: the cancel event is local to the one that runs the job.)
NoRunAfterTold == [][\A t \in Call : told[t] # NULL => ran'[t] = ran[t]]_vars

\* A job that is polled ends, also if its runtime crashed, its store raised, or
\* it was never submitted.
JobsSettle == []<>(\A t \in Call : job[t] # "none" => job[t] \in Terminal)

\* A reserved key gets its job, so that repeated calls return it, unless the
\* first call ended between the reservation and the job's row, or both its link
\* and the recovery of its job failed.
KeyGetsJob == []<>(idem.status # "none" => idem.task # NULL \/ lost)

\* What job_start, job_status and job_cancel promise under a key, liveness apart.
JobsAreHonoured ==
  [](JobTypeOK /\ OneJobPerKey /\ ToldIsFinal /\ KeyAgreesWithJob) /\ NoRunAfterTold
=============================================================================
