----------------------------- MODULE MCRecords ------------------------------
(***************************************************************************)
(* Small instances of the protocols that several processes follow over one *)
(* durable record: the key of an A2A call (A2ACalls) and of an A2A job     *)
(* (A2AJobs), a task and its cron job (TaskControl), a project's           *)
(* checkpoints (ProjectCycle), and the rows of the inbox and the outbox    *)
(* (ChannelWorkers).  They share no state: a behaviour is one of the       *)
(* protocol in focus, and the others rest in their initial states.         *)
(***************************************************************************)
EXTENDS A2ACalls, Naturals

CONSTANTS i2, NULL,
          JobCall, Runtime, MaxJobFault,                              \* of A2AJobs
          Operator, Recorder, MaxRuns, MaxTaskFault,                  \* of TaskControl
          ProjectWorker, Nobody, MaxCycle, MaxCrash, MaxStall,        \* of ProjectCycle
          Message, InboxWorker, OutboxWorker, MaxAttempts, MaxClaims, MaxLost

VARIABLES
  focus,
  jobKey, job, jobStale, start, jobOp, futures, cancelled, jobWorker, told, jobRan, jobLost,
  jobFaults,
  oneTime, past, fired, task, cronJob, runs, op, rec, torn, taskFaults,
  log, claim, project, run, wake, holder, linked, worker, crossed, crashes, stalls,
  inbox, outbox, queueWorker, delivered, reclaimed, lost

jobVars == <<jobKey, job, jobStale, start, jobOp, futures, cancelled, jobWorker, told, jobRan,
             jobLost, jobFaults>>
taskVars == <<oneTime, past, fired, task, cronJob, runs, op, rec, torn, taskFaults>>
projectVars == <<log, claim, project, run, wake, holder, linked, worker, crossed, crashes,
                 stalls>>
queueVars == <<inbox, outbox, queueWorker, delivered, reclaimed, lost>>

Jobs == INSTANCE A2AJobs WITH
  Call <- JobCall, MaxFault <- MaxJobFault,
  runtimeOf <- [c \in JobCall |-> CHOOSE r \in Runtime : TRUE],
  idem <- jobKey, stale <- jobStale, op <- jobOp, worker <- jobWorker, ran <- jobRan,
  lost <- jobLost, faults <- jobFaults

Control == INSTANCE TaskControl WITH
  MaxFault <- MaxTaskFault, job <- cronJob, faults <- taskFaults

Project == INSTANCE ProjectCycle WITH
  Worker <- ProjectWorker, task <- project, job <- wake

Queues == INSTANCE ChannelWorkers WITH
  ReclaimTTL <- 1, MaxBackoff <- 1, worker <- queueWorker

ASSUME RecordConstants ==
  /\ Jobs!JobAssumption /\ Control!ControlAssumption /\ Project!ProjectAssumption
  /\ Queues!WorkersAssumption

InitAll ==
  /\ focus \in {"calls", "jobs", "control", "project", "queues"}
  /\ CallInit /\ Jobs!JobInit /\ Control!TaskInit /\ Project!ProjectInit
  /\ Queues!Init
  /\ focus # "control" => oneTime

\* A worker of a project stalls in the first cycle, and if one crashes too it does so
\* before the second wake.
Bounded ==
  /\ stalls = 0 \/ Project!Latest.cycles <= 1
  /\ stalls = 0 \/ crashes = 0 \/ wake[1] \in {"none", "due"}

\* The second inbox worker only takes over the first claim of a message.
TakesOver ==
  queueWorker[i2].row = 0 /\ queueWorker'[i2].row # 0
    => lost = 0 /\ inbox[1].status = "claimed" /\ inbox[1].attempts = 1

\* A worker is lost before any claim was given up.
LostEarly == lost' # lost => reclaimed = {}

NextInFocus ==
  /\ UNCHANGED focus
  /\ IF focus = "calls" THEN CallNext ELSE UNCHANGED vars
  /\ IF focus = "jobs" THEN Jobs!JobNext ELSE UNCHANGED jobVars
  /\ IF focus = "control" THEN Control!TaskNext ELSE UNCHANGED taskVars
  /\ IF focus = "project" THEN Project!ProjectNext ELSE UNCHANGED projectVars
  /\ IF focus = "queues" THEN Queues!Next ELSE UNCHANGED queueVars
  /\ Bounded'
  /\ TakesOver
  /\ LostEarly

\* The fairness of JobLiveSpec, TaskLiveSpec and LiveSpec.
JobFairness ==
  /\ \A r \in Runtime : WF_jobVars(focus = "jobs" /\ Jobs!OpStep(r))
  /\ \A t \in JobCall :
       /\ WF_jobVars(focus = "jobs" /\ Jobs!WorkerStep(t))
       /\ WF_jobVars(focus = "jobs" /\ Jobs!Stale(t))
       /\ SF_jobVars(focus = "jobs" /\ \E r \in Runtime : Jobs!_recover_stale_job(r, t))
TaskFairness ==
  /\ \A o \in Operator : WF_taskVars(focus = "control" /\ Control!OpStep(o))
  /\ \A r \in Recorder : WF_taskVars(focus = "control" /\ Control!Record(r))
QueueFairness ==
  /\ \A w \in InboxWorker : WF_queueVars(focus = "queues" /\ Queues!InboxStep(w))
  /\ \A w \in OutboxWorker : WF_queueVars(focus = "queues" /\ Queues!OutboxStep(w))
  /\ WF_queueVars(focus = "queues" /\ Queues!Tick)

RecordsSpec ==
  /\ InitAll
  /\ [][NextInFocus]_<<focus, vars, jobVars, taskVars, projectVars, queueVars>>
  /\ JobFairness /\ TaskFairness /\ QueueFairness

-----------------------------------------------------------------------------
(* The properties of the protocols, as their modules state them            *)

\* job_start, job_status, job_cancel: one job per key, and what a client was told holds.
JobsAreHonoured == Jobs!JobsAreHonoured

\* pause_task, cancel_task: stopped is stopped, in both databases.
StopIsHonoured == Control!StopIsHonoured

\* ProjectWorker.run_cycle: no cycle twice, one history, no wake or decision forgotten.
CyclesAreSafe == focus = "project" => Project!CyclesAreSafe

\* InboxWorker, OutboxWorker: at least once, and no more often than claims allow.
QueuesAreSafe == Queues!QueuesAreSafe

\* Whatever was begun ends: every A2A job and its key, a one-time task whose run is
\* over, every message and every answer.
RecordsSettle ==
  /\ Jobs!JobsSettle /\ Jobs!KeyGetsJob
  /\ Control!OneTimeCloses
  /\ Queues!MessagesSettle /\ Queues!AnswersSettle
=============================================================================
