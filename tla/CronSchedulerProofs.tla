------------------------- MODULE CronSchedulerProofs -------------------------
(***************************************************************************)
(* Proofs about CronScheduler: the daemons only make the transactions of   *)
(* CronStore, so what is proved there holds of the whole; and a result is  *)
(* handed to the delivery handler at most once.                            *)
(***************************************************************************)
EXTENDS CronScheduler, CronStoreProofs

\* The row a claim is on is gone: deleted, or replaced by a later one.
Dead(c) ==
  \/ c.run_id < runs[c.run].run_id
  \/ c.run_id = runs[c.run].run_id /\ runs[c.run].state = "none"

\* What a worker holds was granted, unless history was deleted since.
Live(c) == c \in claims \/ Dead(c)

\* The daemons' own variables.
ControlOK ==
  /\ loop \in [Daemon -> Stage]
  /\ capacity \in [Daemon -> 0..MaxConcurrentRuns]
  /\ \A d \in Daemon : loop[d] \in {"control", "enqueue", "acquire"} => capacity[d] > 0
  /\ workers \subseteq WorkerState
  /\ \A w \in workers : /\ Live(w.claim)
                        /\ w.phase = "watch" => w.claim.run[1] \in Watch

-----------------------------------------------------------------------------
(* Claims                                                                  *)

\* A dead claim does not pass the fence, so a claim that does was granted.
LEMMA FenceIsClaim ==
  ASSUME IInv, NEW c \in Claim, Live(c), Fence(c)
  PROVE  c \in claims
<1>1. runs[c.run].run_id \in Nat
  BY DEF IInv, TypeOK, Claim, RunRow
<1> QED BY <1>1 DEF Live, Dead, Fence

\* A claim that is alive stays alive or is dead for good.
LEMMA LiveStep ==
  ASSUME IInv, [Next]_vars, NEW c \in Claim, Live(c)
  PROVE  Live(c)'
<1>1. TypeOK /\ RowsOK BY DEF IInv
<1>2. TableStep BY <1>1, NextTableStep
<1>3. c.run \in Run /\ c.run_id \in Nat BY DEF Claim
<1>4. /\ runs[c.run].run_id \in Nat /\ runs'[c.run].run_id \in Nat
      /\ RowStep(c.run, runs[c.run], runs'[c.run])
  BY <1>1, <1>2, <1>3 DEF TypeOK, TableStep, RunRow
<1>5. CASE Dead(c)
  <2>1. Dead(c)'
    BY <1>3, <1>4, <1>5
    DEF Dead, RowStep, QuietStep, Stays, SameRow, Created, StartedStep, Requeued, EndedStep,
        Cancelled, Purged, TerminalStates
  <2> QED BY <2>1, Zenon DEF Live
<1>6. CASE c \in claims
  <2>1. CASE QuietTable /\ claims' = claims BY <1>6, <2>1 DEF Live
  <2>2. ASSUME NEW S \in SUBSET Run, DeleteTerminal(S) PROVE Live(c)'
    <3>1. CASE c \in claims' BY <3>1 DEF Live
    <3>2. CASE c \notin claims'
      <4>1. runs'[c.run].run_id = runs[c.run].run_id /\ runs'[c.run].state = "none"
        BY <1>3, <1>6, <2>2, <3>2 DEF DeleteTerminal
      <4>2. runs[c.run].run_id = c.run_id
        BY <1>6 DEF IInv, FencingTokens
      <4> QED BY <4>1, <4>2 DEF Live, Dead
    <3> QED BY <3>1, <3>2
  <2>3. ASSUME NEW d \in Daemon, NEW limit, acquire_cron_runs(d, limit) PROVE Live(c)'
    BY <1>6, <2>3 DEF acquire_cron_runs, Live
  <2> QED BY <1>1, <2>1, <2>2, <2>3, NextKinds
<1> QED BY <1>5, <1>6 DEF Live

-----------------------------------------------------------------------------
(* Every step of a daemon is a transaction of the store or none            *)

\* The loop of a daemon calls the store with a capacity in range.
LEMMA LoopMakesNext ==
  ASSUME IInv, ControlOK, NEW d \in Daemon, LoopStep(d)
  PROVE  [Next]_vars
<1>1. CASE RecoverExpired(d)
  BY <1>1, Zenon DEF RecoverExpired, recover_expired_cron_runs, Next, Scheduler, vars
<1>2. CASE ReadControl(d) \/ AbandonIteration(d)
  BY <1>2 DEF ReadControl, AbandonIteration
<1>3. CASE EnqueueDue(d)
  <2>1. 2 * capacity[d] \in 1..MaxJobs
    BY <1>3, SchedulerAssumption, BoundsAssumption DEF EnqueueDue, ControlOK
  <2> QED BY <1>3, <2>1, Zenon DEF EnqueueDue, Next, Scheduler
<1>4. CASE AcquireRuns(d)
  <2>1. capacity[d] \in 1..MaxConcurrentRuns
    BY <1>4, BoundsAssumption DEF AcquireRuns, ControlOK
  <2> QED BY <1>4, <2>1, Zenon DEF AcquireRuns, Next, Scheduler
<1>5. CASE RecordOutcomes(d)
  BY <1>5, Zenon DEF RecordOutcomes, CloseTask, Next, Scheduler
<1> QED BY <1>1, <1>2, <1>3, <1>4, <1>5 DEF LoopStep

\* A worker's calls are made under a claim that was granted, or are refused.
LEMMA WorkerMakesNext ==
  ASSUME IInv, ControlOK, NEW w \in workers, WorkerMain(w) \/ _lease_renewer(w)
  PROVE  [Next]_vars
<1>1. w.claim \in Claim /\ Live(w.claim) /\ w.outcome \in {"finished", "failed", "timed_out", "retryable"}
  BY DEF ControlOK, WorkerState
<1>2. Fence(w.claim) => w.claim \in claims
  BY <1>1, FenceIsClaim
<1>3. CASE LoadJob(w) \/ Execute(w) \/ CallHandler(w)
  BY <1>3 DEF LoadJob, Execute, CallHandler
<1>4. CASE RenewToDeliver(w)
  BY <1>2, <1>4, Zenon DEF RenewToDeliver, renew_cron_run_lease, Next, Worker
<1>5. CASE MarkTarget(w)
  <2>1. Marker \in Target BY SchedulerAssumption, Zenon
  <2> QED BY <1>2, <1>5, <2>1, Zenon DEF MarkTarget, mark_cron_delivery_target, Next, Worker
<1>6. CASE PersistOutcome(w)
  BY <1>1, <1>2, <1>6 DEF PersistOutcome, retry_cron_run, finish_cron_run, Next, Worker
<1>7. CASE _disable_terminal_watch(w)
  <2>1. w.claim.run[1] \in Closable
    BY <1>7, BoundsAssumption DEF _disable_terminal_watch, ControlOK, Closable
  <2> QED BY <1>7, <2>1, Zenon DEF _disable_terminal_watch, Next, Scheduler
<1>8. CASE _lease_renewer(w)
  BY <1>2, <1>8, Zenon DEF _lease_renewer, renew_cron_run_lease, Next, Worker
<1>9. CASE _record_task_outcome(w)
  BY <1>9, Zenon DEF _record_task_outcome, CloseTask, Next, Scheduler
<1> QED BY <1>3, <1>4, <1>5, <1>6, <1>7, <1>8, <1>9 DEF WorkerMain

\* Every step of the composition is a step of the store.
LEMMA SchedulerMakesNext ==
  ASSUME IInv, ControlOK, [SchedulerNext]_allVars
  PROVE  [Next]_vars
<1>1. CASE Environment BY <1>1 DEF Environment, Next
<1>2. ASSUME NEW d \in Daemon, shutdown(d) \/ Exit(d) \/ start(d) PROVE [Next]_vars
  BY <1>2 DEF shutdown, Exit, start
<1>3. CASE UNCHANGED allVars BY <1>3 DEF allVars
<1> QED BY <1>1, <1>2, <1>3, LoopMakesNext, WorkerMakesNext DEF SchedulerNext

-----------------------------------------------------------------------------
(* ControlOK is kept                                                       *)

\* How one step changes the set of threads: threads are dropped, one thread
\* goes on with the same claim, or threads are started for leases that have
\* just been granted.
ThreadsStep ==
  /\ workers' \subseteq WorkerState
  /\ \A n \in workers' :
       \/ n \in workers
       \/ \E w \in workers : n.claim = w.claim
       \/ n.claim \in claims'
  /\ \A n \in workers' : n.phase = "watch" => n.claim.run[1] \in Watch

\* Replacing one thread by another of the same claim.
LEMMA BecomesThreads ==
  ASSUME ControlOK, NEW w \in workers, NEW new \in WorkerState, new.claim = w.claim,
         new.phase = "watch" => w.claim.run[1] \in Watch, Becomes(w, new)
  PROVE  ThreadsStep
BY DEF ControlOK, Becomes, ThreadsStep

\* A thread in another phase is still a thread.
LEMMA ThreadTypes ==
  ASSUME NEW w \in WorkerState, NEW p \in Phase
  PROVE  /\ [w EXCEPT !.phase = p] \in WorkerState
         /\ [w EXCEPT !.phase = p].claim = w.claim
         /\ [w EXCEPT !.phase = p].phase = p
BY DEF WorkerState

\* A thread that goes on to another phase.
LEMMA GoesOnThreads ==
  ASSUME ControlOK, NEW w \in workers, NEW p \in Phase, GoesOn(w, p),
         p = "watch" => w.claim.run[1] \in Watch
  PROVE  ThreadsStep
<1>1. w \in WorkerState BY DEF ControlOK
<1> QED BY <1>1, ThreadTypes, BecomesThreads, Zenon DEF GoesOn

\* The steps of workers and renewers.
LEMMA WorkerThreads ==
  ASSUME IInv, ControlOK, NEW w \in workers, WorkerMain(w) \/ _lease_renewer(w)
  PROVE  ThreadsStep
<1>1. w \in WorkerState BY DEF ControlOK
<1>2. CASE LoadJob(w)
  BY <1>2, GoesOnThreads DEF LoadJob, Phase
<1>3. CASE Execute(w)
  <2>1. PICK o \in {"finished", "failed", "timed_out", "retryable"} :
          Becomes(w, [w EXCEPT !.outcome = o,
                       !.phase = IF o = "finished" /\ w.claim.run[1] \in Delivers
                                 THEN "renew" ELSE "persist"])
    BY <1>3, Zenon DEF Execute
  <2>2. PICK p \in {"renew", "persist"} : Becomes(w, [w EXCEPT !.outcome = o, !.phase = p])
    BY <2>1, Zenon
  <2>3. p \in Phase BY DEF Phase
  <2>4. /\ [w EXCEPT !.outcome = o, !.phase = p] \in WorkerState
        /\ [w EXCEPT !.outcome = o, !.phase = p].claim = w.claim
        /\ [w EXCEPT !.outcome = o, !.phase = p].phase # "watch"
    BY <1>1, <2>3, Zenon DEF WorkerState
  <2> QED BY <2>2, <2>4, BecomesThreads, Zenon
<1>4. CASE RenewToDeliver(w)
  BY <1>4, GoesOnThreads DEF RenewToDeliver, Phase
<1>5. CASE MarkTarget(w)
  BY <1>5, GoesOnThreads DEF MarkTarget, Phase
<1>6. CASE CallHandler(w)
  BY <1>6, GoesOnThreads DEF CallHandler, Phase
<1>7. CASE PersistOutcome(w)
  BY <1>7, GoesOnThreads DEF PersistOutcome, Phase
<1>8. CASE _disable_terminal_watch(w)
  BY <1>8, GoesOnThreads DEF _disable_terminal_watch, Phase
<1>9. CASE _lease_renewer(w)
  <2>1. CASE workers' = workers
    BY <2>1 DEF ControlOK, ThreadsStep
  <2>2. CASE Becomes(w, [w EXCEPT !.renewing = FALSE])
    <3>1. /\ [w EXCEPT !.renewing = FALSE] \in WorkerState
          /\ [w EXCEPT !.renewing = FALSE].claim = w.claim
          /\ [w EXCEPT !.renewing = FALSE].phase = w.phase
      BY <1>1, Zenon DEF WorkerState
    <3> QED BY <2>2, <3>1, BecomesThreads, Zenon DEF ControlOK
  <2> QED BY <1>9, <2>1, <2>2 DEF _lease_renewer
<1>10. CASE _record_task_outcome(w)
  BY <1>10, GoesOnThreads DEF _record_task_outcome, Phase
<1> QED BY <1>2, <1>3, <1>4, <1>5, <1>6, <1>7, <1>8, <1>9, <1>10 DEF WorkerMain

\* The steps of the loops and processes.
LEMMA ProcessThreads ==
  ASSUME IInv, ControlOK, NEW d \in Daemon,
         LoopStep(d) \/ shutdown(d) \/ Exit(d) \/ start(d)
  PROVE  ThreadsStep
<1>0. workers \subseteq WorkerState BY DEF ControlOK
<1>1. CASE workers' \subseteq workers
  BY <1>1 DEF ControlOK, ThreadsStep
<1>2. CASE AcquireRuns(d)
  <2>1. PICK reached \in SUBSET (claims' \ claims) : workers' = workers \union Started(reached)
    BY <1>2 DEF AcquireRuns
  <2>2. claims' \ claims \subseteq Claim
    BY <1>2, NewClaim DEF AcquireRuns
  <2>3. \A n \in Started(reached) :
          n \in WorkerState /\ n.claim \in claims' /\ n.phase = "load"
    <3> SUFFICES ASSUME NEW n \in Started(reached)
                 PROVE  n \in WorkerState /\ n.claim \in claims' /\ n.phase = "load"
      OBVIOUS
    <3>1. PICK c \in reached :
            n = [claim |-> c, phase |-> "load", renewing |-> TRUE, outcome |-> "failed"]
      BY DEF Started
    <3>2. c \in Claim /\ c \in claims' BY <2>2
    <3> QED BY <3>1, <3>2 DEF WorkerState, Phase
  <2> QED BY <2>1, <2>3 DEF ControlOK, ThreadsStep
<1> QED
  BY <1>1, <1>2
  DEF LoopStep, RecoverExpired, Reaped, ReadControl, EnqueueDue, AbandonIteration,
      RecordOutcomes, shutdown, Exit, start

\* Every step keeps the threads well formed.
LEMMA NextThreads ==
  ASSUME IInv, ControlOK, [SchedulerNext]_allVars
  PROVE  ThreadsStep
<1>1. CASE workers' = workers
  BY <1>1 DEF ControlOK, ThreadsStep
<1> QED
  BY <1>1, ProcessThreads, WorkerThreads
  DEF SchedulerNext, Environment, schedulerVars, allVars

\* The loops: a stage after the head of an iteration has a capacity.
LEMMA NextLoops ==
  ASSUME ControlOK, [SchedulerNext]_allVars
  PROVE  /\ loop' \in [Daemon -> Stage]
         /\ capacity' \in [Daemon -> 0..MaxConcurrentRuns]
         /\ \A d \in Daemon : loop'[d] \in {"control", "enqueue", "acquire"} => capacity'[d] > 0
<1> DEFINE OK == /\ loop' \in [Daemon -> Stage]
                 /\ capacity' \in [Daemon -> 0..MaxConcurrentRuns]
                 /\ \A d \in Daemon : loop'[d] \in {"control", "enqueue", "acquire"} => capacity'[d] > 0
<1>1. CASE UNCHANGED <<loop, capacity>>
  BY <1>1 DEF ControlOK
<1>2. ASSUME NEW d \in Daemon, NEW n \in 1..MaxConcurrentRuns,
             Goes(d, "control"), capacity' = [capacity EXCEPT ![d] = n]
      PROVE  OK
  BY <1>2, BoundsAssumption DEF Goes, ControlOK, Stage
<1>3. ASSUME NEW d \in Daemon, NEW stage \in Stage, Goes(d, stage), capacity' = capacity,
             stage \in {"control", "enqueue", "acquire"} =>
               loop[d] \in {"control", "enqueue", "acquire"}
      PROVE  OK
  BY <1>3 DEF ControlOK, Goes
<1>4. ASSUME NEW d \in Daemon, LoopStep(d) \/ shutdown(d) \/ Exit(d) \/ start(d) PROVE OK
  <2>1. CASE RecoverExpired(d)
    <3>1. CASE Goes(d, "outcomes") /\ capacity' = capacity BY <1>3, <3>1 DEF Stage
    <3>2. CASE \E n \in 1..MaxConcurrentRuns :
                 Goes(d, "control") /\ capacity' = [capacity EXCEPT ![d] = n]
      BY <1>2, <3>2, Zenon
    <3> QED BY <2>1, <3>1, <3>2 DEF RecoverExpired
  <2>2. CASE AcquireRuns(d)
    <3>1. PICK stage \in {"idle", "outcomes"} : Goes(d, stage) BY <2>2 DEF AcquireRuns
    <3>2. stage \in Stage /\ stage \notin {"control", "enqueue", "acquire"} BY DEF Stage
    <3> QED BY <1>3, <2>2, <3>1, <3>2 DEF AcquireRuns
  <2>3. CASE RecordOutcomes(d)
    <3>1. CASE UNCHANGED loop BY <1>1, <2>3, <3>1 DEF RecordOutcomes
    <3>2. CASE Goes(d, "idle") BY <1>3, <2>3, <3>2, Zenon DEF RecordOutcomes, Stage
    <3> QED BY <2>3, <3>1, <3>2 DEF RecordOutcomes
  <2>4. CASE AbandonIteration(d) \/ ReadControl(d) \/ EnqueueDue(d)
    BY <1>3, <2>4, Zenon DEF ReadControl, EnqueueDue, AbandonIteration, Stage
  <2>5. CASE shutdown(d) \/ Exit(d) \/ start(d)
    BY <1>3, <2>5 DEF shutdown, Exit, start, Stage
  <2> QED BY <1>4, <2>1, <2>2, <2>3, <2>4, <2>5, Zenon DEF LoopStep
<1>5. ASSUME NEW w \in workers, WorkerMain(w) \/ _lease_renewer(w) PROVE OK
  BY <1>1, <1>5, Zenon
  DEF WorkerMain, LoadJob, Execute, RenewToDeliver, MarkTarget, CallHandler, PersistOutcome,
      _disable_terminal_watch, _record_task_outcome, _lease_renewer
<1> QED
  BY <1>1, <1>4, <1>5 DEF SchedulerNext, Environment, schedulerVars, allVars

\* ControlOK is inductive.
LEMMA NextControlOK ==
  ASSUME IInv, ControlOK, [SchedulerNext]_allVars
  PROVE  ControlOK'
<1>1. ThreadsStep BY NextThreads
<1>2. [Next]_vars BY SchedulerMakesNext
<1>3. ASSUME NEW n \in workers' PROVE Live(n.claim)'
  <2>1. CASE n.claim \in claims' BY <2>1 DEF Live
  <2>2. ASSUME NEW w \in workers, n.claim = w.claim PROVE Live(n.claim)'
    <3>1. w.claim \in Claim /\ Live(w.claim) BY DEF ControlOK, WorkerState
    <3> QED BY <1>2, <2>2, <3>1, LiveStep
  <2> QED BY <1>1, <2>1, <2>2 DEF ThreadsStep
<1> QED BY <1>1, <1>3, NextLoops DEF ControlOK, ThreadsStep

-----------------------------------------------------------------------------
\* The daemons make only the transactions of the store.
THEOREM SchedulerImplementsStore == SchedulerSpec => ImplementsStore
<1>1. SchedulerInit => IInv /\ ControlOK /\ Init
  <2> SUFFICES ASSUME SchedulerInit PROVE IInv /\ ControlOK /\ Init OBVIOUS
  <2>1. Init BY DEF SchedulerInit
  <2>2. ControlOK
    BY BoundsAssumption DEF SchedulerInit, ControlOK, Stage
  <2> QED BY <2>1, <2>2, InitIInv
<1>2. IInv /\ ControlOK /\ [SchedulerNext]_allVars => IInv' /\ ControlOK' /\ [Next]_vars
  BY NextControlOK, SchedulerMakesNext, NextIInv
<1> QED BY <1>1, <1>2, PTL DEF SchedulerSpec, ImplementsStore, Spec

\* So what holds of the store holds of the daemons on top of it: one running
\* run per scope, fencing, the attempt limit.
THEOREM SchedulerSafety ==
  SchedulerSpec => [](ScopeMutex /\ FencingTokens /\ AttemptLimit)
<1>1. SchedulerSpec => Spec BY SchedulerImplementsStore DEF ImplementsStore
<1> QED BY <1>1, ScopeMutexHolds, FencingHolds, AttemptLimitHolds, PTL

-----------------------------------------------------------------------------
(* At most one delivery                                                    *)

\* The row of claim c carries the marker, as long as there is such a row.
Marked(c) ==
  /\ c.run_id <= runs[c.run].run_id
  /\ c.run_id = runs[c.run].run_id /\ runs[c.run].state # "none"
       => Marker \in runs[c.run].delivery_targets

\* A thread is at the handler, or was there, only after it set the marker;
\* and two threads are never at the handler for the same run.
DeliveryOK ==
  /\ sent \subseteq Claim
  /\ \A c \in sent : Marked(c)
  /\ \A w \in workers : w.phase = "send" => Marked(w.claim)
  /\ \A v, w \in workers :
       v.phase = "send" /\ w.phase = "send" /\ SameRun(v.claim, w.claim) => v = w
  /\ AtMostOneDelivery

\* No transaction takes a marker away from a row that stays.
LEMMA MarkedStep ==
  ASSUME IInv, [Next]_vars, NEW c \in Claim, Marked(c)
  PROVE  Marked(c)'
<1>1. TypeOK /\ RowsOK BY DEF IInv
<1>2. TableStep BY <1>1, NextTableStep
<1>3. c.run \in Run /\ c.run_id \in Nat BY DEF Claim
<1>4. /\ runs[c.run].run_id \in Nat /\ runs'[c.run].run_id \in Nat
      /\ RowStep(c.run, runs[c.run], runs'[c.run])
  BY <1>1, <1>2, <1>3 DEF TypeOK, TableStep, RunRow
<1>5. CASE Created(runs[c.run], runs'[c.run])
  BY <1>3, <1>4, <1>5 DEF Marked, Created
<1>6. CASE Purged(runs[c.run], runs'[c.run])
  BY <1>6 DEF Marked, Purged
<1>7. CASE /\ runs'[c.run].run_id = runs[c.run].run_id
           /\ runs[c.run].state = "none" => runs'[c.run].state = "none"
           /\ runs[c.run].delivery_targets \subseteq runs'[c.run].delivery_targets
  BY <1>7 DEF Marked
<1> QED
  BY <1>4, <1>5, <1>6, <1>7, Zenon
  DEF RowStep, QuietStep, Stays, SameRow, StartedStep, Requeued, EndedStep, Cancelled

\* When no thread arrives at the handler, DeliveryOK is kept.
LEMMA NoNewSender ==
  ASSUME IInv, ControlOK, DeliveryOK, [Next]_vars, sent' = sent,
         \A n \in workers' : n.phase = "send" => n \in workers
  PROVE  DeliveryOK'
<1>1. \A w \in workers : w.claim \in Claim BY DEF ControlOK, WorkerState
<1>2. \A c \in sent : Marked(c)' BY MarkedStep DEF DeliveryOK
<1>3. \A w \in workers' : w.phase = "send" => Marked(w.claim)'
  BY <1>1, MarkedStep DEF DeliveryOK
<1> QED BY <1>2, <1>3 DEF DeliveryOK, AtMostOneDelivery, SameRun

\* A thread at the handler may lose its renewer and stay where it is.
LEMMA SenderReplaced ==
  ASSUME IInv, ControlOK, DeliveryOK, [Next]_vars, sent' = sent,
         NEW f, \A w \in workers : f[w].claim = w.claim /\ f[w].phase = w.phase,
         \A n \in workers' : \E w \in workers : n = f[w]
  PROVE  DeliveryOK'
<1>1. \A w \in workers : w.claim \in Claim BY DEF ControlOK, WorkerState
<1>2. \A c \in sent : Marked(c)' BY MarkedStep DEF DeliveryOK
<1>3. \A w \in workers' : w.phase = "send" => Marked(w.claim)'
  BY <1>1, MarkedStep DEF DeliveryOK
<1> QED BY <1>2, <1>3 DEF DeliveryOK, AtMostOneDelivery, SameRun

\* Setting the marker succeeds only when nobody was at the handler before.
LEMMA MarkDelivery ==
  ASSUME IInv, ControlOK, DeliveryOK, NEW w \in workers, [Next]_vars, sent' = sent,
         mark_cron_delivery_target(w.claim, Marker), GoesOn(w, "send")
  PROVE  DeliveryOK'
<1> DEFINE c == w.claim
           n == [w EXCEPT !.phase = "send"]
<1>1. c \in Claim /\ w \in WorkerState /\ n.claim = c /\ n.phase = "send"
  BY ThreadTypes, ZenonT(30) DEF ControlOK, WorkerState, Phase
<1>2. workers' = (workers \ {w}) \union {n} BY DEF GoesOn, Becomes
<1>3. Fence(c) /\ Marker \notin runs[c.run].delivery_targets
  BY DEF mark_cron_delivery_target
<1>4. ASSUME NEW e \in Claim, SameRun(e, c), Marked(e) PROVE FALSE
  BY <1>3, <1>4 DEF SameRun, Marked, Fence
<1>5. Marked(c)'
  <2>1. c.run \in Run /\ runs \in [Run -> RunRow] BY <1>1 DEF Claim, IInv, TypeOK
  <2>2. runs'[c.run] = [runs[c.run] EXCEPT !.delivery_targets = @ \union {Marker}]
    BY <2>1, Zenon DEF mark_cron_delivery_target
  <2>3. runs'[c.run].run_id = c.run_id /\ Marker \in runs'[c.run].delivery_targets
    BY <1>3, <2>1, <2>2 DEF Fence, RunRow
  <2>4. c.run_id \in Nat BY <1>1 DEF Claim
  <2> QED BY <2>3, <2>4 DEF Marked
<1>6. \A e \in sent : e \in Claim /\ Marked(e) /\ Marked(e)' /\ ~SameRun(e, c)
  BY <1>4, MarkedStep DEF DeliveryOK
<1>7. \A v \in workers : v.phase = "send" =>
        v.claim \in Claim /\ Marked(v.claim)' /\ ~SameRun(v.claim, c)
  BY <1>4, MarkedStep DEF DeliveryOK, ControlOK, WorkerState
<1> HIDE DEF n, c
<1> QED
  BY <1>1, <1>2, <1>5, <1>6, <1>7 DEF DeliveryOK, AtMostOneDelivery, SameRun

\* Calling the handler leaves nobody else at it for the same run.
LEMMA CallDelivery ==
  ASSUME IInv, ControlOK, DeliveryOK, NEW w \in workers, [Next]_vars, CallHandler(w)
  PROVE  DeliveryOK'
<1> DEFINE n == [w EXCEPT !.phase = "persist"]
<1>1. w.claim \in Claim /\ w.phase = "send" /\ n.phase = "persist"
  BY DEF ControlOK, WorkerState, CallHandler
<1>2. workers' = (workers \ {w}) \union {n} BY DEF CallHandler, GoesOn, Becomes
<1>3. sent' = sent \/ sent' = sent \union {w.claim} BY DEF CallHandler
<1>4. \A c \in sent : Marked(c)' BY MarkedStep DEF DeliveryOK
<1>5. \A v \in workers : v.phase = "send" => Marked(v.claim)'
  BY MarkedStep DEF DeliveryOK, ControlOK, WorkerState
<1>6. \A c \in sent : ~SameRun(c, w.claim) /\ ~SameRun(w.claim, c)
  BY <1>1 DEF DeliveryOK, AtMostOneDelivery, SameRun
<1>7. \A v \in workers' : v.phase = "send" => v \in workers /\ ~SameRun(w.claim, v.claim)
  BY <1>1, <1>2, Zenon DEF DeliveryOK, SameRun
<1> HIDE DEF n
<1> QED BY <1>1, <1>3, <1>4, <1>5, <1>6, <1>7 DEF DeliveryOK, AtMostOneDelivery

\* DeliveryOK is inductive.
LEMMA NextDeliveryOK ==
  ASSUME IInv, ControlOK, DeliveryOK, [SchedulerNext]_allVars
  PROVE  DeliveryOK'
<1>0. [Next]_vars BY SchedulerMakesNext
<1>1. CASE workers' \subseteq workers /\ sent' = sent
  BY <1>0, <1>1, NoNewSender
<1>2. ASSUME NEW d \in Daemon, AcquireRuns(d) PROVE DeliveryOK'
  <2>1. \A n \in workers' : n.phase = "send" => n \in workers
    BY <1>2 DEF AcquireRuns, Started
  <2>2. sent' = sent BY <1>2 DEF AcquireRuns
  <2> QED BY <1>0, <2>1, <2>2, NoNewSender
<1>4. ASSUME NEW w \in workers, _lease_renewer(w), Becomes(w, [w EXCEPT !.renewing = FALSE])
      PROVE  DeliveryOK'
  <2> DEFINE f == [v \in workers |-> IF v = w THEN [w EXCEPT !.renewing = FALSE] ELSE v]
  <2>1. \A n \in workers' : \E v \in workers : n = f[v]
    BY <1>4 DEF Becomes
  <2>2. \A v \in workers : f[v].claim = v.claim /\ f[v].phase = v.phase
    BY DEF ControlOK, WorkerState
  <2>3. sent' = sent BY <1>4 DEF _lease_renewer
  <2> HIDE DEF f
  <2> QED BY <1>0, <2>1, <2>2, <2>3, SenderReplaced
<1>5. ASSUME NEW w \in workers, NEW p \in Phase \ {"send"}, GoesOn(w, p), sent' = sent
      PROVE  DeliveryOK'
  <2>1. [w EXCEPT !.phase = p].phase = p BY ThreadTypes DEF ControlOK
  <2>2. \A n \in workers' : n.phase = "send" => n \in workers
    BY <1>5, <2>1, Zenon DEF GoesOn, Becomes
  <2> QED BY <1>0, <1>5, <2>2, NoNewSender
<1>6. ASSUME NEW w \in workers, Execute(w) PROVE DeliveryOK'
  <2>1. \A n \in workers' : n.phase = "send" => n \in workers
    BY <1>6, Zenon DEF Execute, Becomes, ControlOK, WorkerState
  <2>2. sent' = sent BY <1>6 DEF Execute
  <2> QED BY <1>0, <2>1, <2>2, NoNewSender
<1>7. ASSUME NEW w \in workers, MarkTarget(w) PROVE DeliveryOK'
  <2>1. sent' = sent BY <1>7 DEF MarkTarget
  <2>2. CASE mark_cron_delivery_target(w.claim, Marker) /\ GoesOn(w, "send")
    BY <1>0, <2>1, <2>2, MarkDelivery
  <2>3. CASE GoesOn(w, "persist")
    BY <1>5, <2>1, <2>3 DEF Phase
  <2> QED BY <1>7, <2>2, <2>3 DEF MarkTarget
<1>8. ASSUME NEW w \in workers, WorkerMain(w) \/ _lease_renewer(w) PROVE DeliveryOK'
  <2>1. CASE LoadJob(w) BY <1>5, <2>1 DEF LoadJob, Phase
  <2>2. CASE RenewToDeliver(w) BY <1>5, <2>2 DEF RenewToDeliver, Phase
  <2>3. CASE CallHandler(w) BY <1>0, <2>3, CallDelivery
  <2>4. CASE PersistOutcome(w) BY <1>5, <2>4 DEF PersistOutcome, Phase
  <2>5. CASE _disable_terminal_watch(w) BY <1>5, <2>5 DEF _disable_terminal_watch, Phase
  <2>6. CASE _lease_renewer(w) BY <1>1, <1>4, <2>6 DEF _lease_renewer
  <2>7. CASE _record_task_outcome(w) BY <1>5, <2>7 DEF _record_task_outcome, Phase
  <2> QED BY <1>6, <1>7, <1>8, <2>1, <2>2, <2>3, <2>4, <2>5, <2>6, <2>7 DEF WorkerMain
<1> QED
  BY <1>1, <1>2, <1>8, Zenon
  DEF SchedulerNext, Environment, schedulerVars, allVars, LoopStep, RecoverExpired, Reaped,
      ReadControl, EnqueueDue, AbandonIteration, RecordOutcomes, shutdown, Exit, start

\* The delivery handler is called at most once for a run, whatever crashes,
\* retries and takeovers happen (deliver_cron_run).
THEOREM AtMostOneDeliveryHolds == SchedulerSpec => []AtMostOneDelivery
<1>1. SchedulerInit => IInv /\ ControlOK /\ DeliveryOK
  <2> SUFFICES ASSUME SchedulerInit PROVE IInv /\ ControlOK /\ DeliveryOK OBVIOUS
  <2>1. Init BY DEF SchedulerInit
  <2>2. ControlOK BY BoundsAssumption DEF SchedulerInit, ControlOK, Stage
  <2>3. DeliveryOK BY DEF SchedulerInit, DeliveryOK, AtMostOneDelivery
  <2> QED BY <2>1, <2>2, <2>3, InitIInv
<1>2. IInv /\ ControlOK /\ DeliveryOK /\ [SchedulerNext]_allVars
        => IInv' /\ ControlOK' /\ DeliveryOK'
  BY NextControlOK, NextDeliveryOK, SchedulerMakesNext, NextIInv
<1>3. DeliveryOK => AtMostOneDelivery BY DEF DeliveryOK
<1> QED BY <1>1, <1>2, <1>3, PTL DEF SchedulerSpec

-----------------------------------------------------------------------------
(* Threads, shutdowns and crashes                                          *)

\* Every step of a thread leaves the loops alone and replaces the thread by
\* one with the same claim.
LEMMA ThreadReplaced ==
  ASSUME ControlOK, NEW w \in workers, WorkerMain(w) \/ _lease_renewer(w)
  PROVE  /\ UNCHANGED <<loop, capacity, stops>>
         /\ \/ workers' = workers
            \/ \E n : n.claim = w.claim /\ workers' = (workers \ {w}) \union {n}
<1> DEFINE Replaced == \E n : n.claim = w.claim /\ workers' = (workers \ {w}) \union {n}
<1> SUFFICES UNCHANGED <<loop, capacity, stops>> /\ (workers' = workers \/ Replaced) OBVIOUS
<1> HIDE DEF Replaced
<1>1. w \in WorkerState BY DEF ControlOK
<1>2. ASSUME NEW p, GoesOn(w, p) PROVE Replaced
  <2>1. [w EXCEPT !.phase = p].claim = w.claim BY <1>1 DEF WorkerState
  <2> QED BY <1>2, <2>1, Zenon DEF GoesOn, Becomes, Replaced
<1>3. CASE Execute(w)
  <2>1. PICK o, p : Becomes(w, [w EXCEPT !.outcome = o, !.phase = p]) BY <1>3, Zenon DEF Execute
  <2>2. [w EXCEPT !.outcome = o, !.phase = p].claim = w.claim BY <1>1, Zenon DEF WorkerState
  <2> QED BY <1>3, <2>1, <2>2, Zenon DEF Execute, Becomes, Replaced
<1>4. CASE _lease_renewer(w)
  <2>1. [w EXCEPT !.renewing = FALSE].claim = w.claim BY <1>1, Zenon DEF WorkerState
  <2> QED BY <1>4, <2>1, Zenon DEF _lease_renewer, Becomes, Replaced
<1>5. CASE WorkerMain(w) /\ ~Execute(w)
  <2>1. CASE LoadJob(w) BY <1>2, <2>1 DEF LoadJob
  <2>2. CASE RenewToDeliver(w) BY <1>2, <2>2 DEF RenewToDeliver
  <2>3. CASE MarkTarget(w) BY <1>2, <2>3 DEF MarkTarget
  <2>4. CASE CallHandler(w) BY <1>2, <2>4, ZenonT(30) DEF CallHandler
  <2>5. CASE PersistOutcome(w) BY <1>2, <2>5 DEF PersistOutcome
  <2>6. CASE _disable_terminal_watch(w) BY <1>2, <2>6 DEF _disable_terminal_watch
  <2>7. CASE _record_task_outcome(w) BY <1>2, <2>7 DEF _record_task_outcome
  <2> QED BY <1>5, <2>1, <2>2, <2>3, <2>4, <2>5, <2>6, <2>7 DEF WorkerMain
<1> QED BY <1>3, <1>4, <1>5

\* Shutdowns and crashes stay within their bound.
LEMMA NextStops ==
  ASSUME ControlOK, stops \in 0..MaxStops, [SchedulerNext]_allVars
  PROVE  stops' \in 0..MaxStops
<1>1. ASSUME NEW w \in workers, WorkerMain(w) \/ _lease_renewer(w) PROVE stops' = stops
  BY <1>1, ThreadReplaced, Zenon
<1>2. ASSUME NEW d \in Daemon, LoopStep(d) \/ start(d) PROVE stops' = stops
  BY <1>2
  DEF LoopStep, RecoverExpired, ReadControl, EnqueueDue, AcquireRuns, AbandonIteration,
      RecordOutcomes, start
<1>3. ASSUME NEW d \in Daemon, shutdown(d) \/ Exit(d)
      PROVE  stops' = stops \/ (stops < MaxStops /\ stops' = stops + 1)
  BY <1>3 DEF shutdown, Exit
<1>4. stops' = stops \/ (stops < MaxStops /\ stops' = stops + 1)
  BY <1>1, <1>2, <1>3 DEF SchedulerNext, Environment, schedulerVars, allVars
<1> QED BY <1>4, SchedulerAssumption

\* The daemons' variables and the tables keep their types.
THEOREM SchedulerTypeCorrectness == SchedulerSpec => []SchedulerTypeOK
<1> DEFINE Inv == IInv /\ ControlOK /\ DeliveryOK /\ stops \in 0..MaxStops
<1>1. SchedulerInit => Inv
  <2> SUFFICES ASSUME SchedulerInit PROVE Inv OBVIOUS
  <2>1. Init BY DEF SchedulerInit
  <2>2. ControlOK BY BoundsAssumption DEF SchedulerInit, ControlOK, Stage
  <2>3. DeliveryOK BY DEF SchedulerInit, DeliveryOK, AtMostOneDelivery
  <2>4. stops \in 0..MaxStops BY SchedulerAssumption DEF SchedulerInit
  <2> QED BY <2>1, <2>2, <2>3, <2>4, InitIInv
<1>2. Inv /\ [SchedulerNext]_allVars => Inv'
  BY NextControlOK, NextDeliveryOK, NextStops, SchedulerMakesNext, NextIInv, Zenon
<1>3. Inv => SchedulerTypeOK BY DEF IInv, ControlOK, DeliveryOK, SchedulerTypeOK
<1> QED BY <1>1, <1>2, <1>3, PTL DEF SchedulerSpec

-----------------------------------------------------------------------------
(* Outcomes                                                                *)

\* What a transaction does to a running row that is not its caller's: it
\* leaves it running, or the lease had expired and recovery took it away.
LeftAlone(r) ==
  \/ runs'[r].state = "running"
  \/ Expired(r) /\ runs'[r].state \in {"queued", "failed"}

\* Recovery takes away only leases that expired.
LEMMA RecoveryLeaves ==
  ASSUME TypeOK, RowsOK, NEW r \in Run, runs[r].state = "running"
  PROVE  LET row == _recover_expired_cron_runs_locked[r]
         IN  row.state = "running" \/ (Expired(r) /\ row.state \in {"queued", "failed"})
<1>1. CASE Expired(r)
  <2>1. _recover_expired_cron_runs_locked[r] =
          RetriedOrFailed(runs[r], Config[r[1]].max_attempts, Config[r[1]].retry_backoff)
    BY <1>1 DEF _recover_expired_cron_runs_locked
  <2>2. Config[r[1]].max_attempts \in Nat /\ Config[r[1]].max_attempts <= Config[r[1]].max_attempts
    BY ConfigTypes
  <2>3. RowOK(r, runs[r]) /\ now \in Time BY Zenon DEF RowsOK, TypeOK
  <2>4. RetriedOrFailed(runs[r], Config[r[1]].max_attempts, Config[r[1]].retry_backoff).state
          \in {"queued", "failed"}
    BY <2>2, <2>3, RetriedOK, Zenon
  <2> QED BY <1>1, <2>1, <2>4, Zenon
<1>2. CASE ~Expired(r)
  BY <1>2 DEF _recover_expired_cron_runs_locked
<1> QED BY <1>1, <1>2

\* The transactions of operators leave running rows alone.
LEMMA OperatorLeaves ==
  ASSUME TypeOK, Operator, NEW r \in Run, runs[r].state = "running"
  PROVE  LeftAlone(r)
<1>0. runs \in [Run -> RunRow] BY DEF TypeOK
<1>1. ASSUME NEW j \in Job, NEW en, NEW cq, set_cron_job_enabled(j, en, cq) PROVE LeftAlone(r)
  BY <1>1 DEF set_cron_job_enabled, LeftAlone
<1>2. ASSUME NEW j \in Job, NEW t \in Time, trigger_cron_run(j, t) PROVE LeftAlone(r)
  BY <1>0, <1>2, Zenon DEF trigger_cron_run, LeftAlone
<1>3. ASSUME NEW j \in Job, trigger_task_run_now(j) PROVE LeftAlone(r)
  BY <1>0, <1>3 DEF trigger_task_run_now, LeftAlone
<1>4. ASSUME NEW S, DeleteTerminal(S) PROVE LeftAlone(r)
  BY <1>4, Zenon DEF DeleteTerminal, LeftAlone, TerminalStates
<1>5. CASE runs' = runs BY <1>5 DEF LeftAlone
<1> QED
  BY <1>1, <1>2, <1>3, <1>4, <1>5, Zenon
  DEF Operator, delete_cron_job, set_cron_scheduler_control, delete_terminal_cron_runs,
      delete_old_cron_runs

\* So do the loops of the daemons, but for recovery.
LEMMA LoopLeaves ==
  ASSUME TypeOK, RowsOK, NEW d \in Daemon, LoopStep(d), NEW r \in Run, runs[r].state = "running"
  PROVE  LeftAlone(r)
<1> DEFINE table == _recover_expired_cron_runs_locked
<1>1. table[r].state = "running" \/ (Expired(r) /\ table[r].state \in {"queued", "failed"})
  BY RecoveryLeaves
<1>2. table[r].state # "none" BY <1>1
<1> HIDE DEF table
<1>3. CASE runs' = runs BY <1>3 DEF LeftAlone
<1>4. CASE runs'[r] = table[r] BY <1>1, <1>4 DEF LeftAlone
<1>5. CASE RecoverExpired(d)
  BY <1>3, <1>4, <1>5 DEF RecoverExpired, recover_expired_cron_runs, table
<1>6. CASE EnqueueDue(d)
  <2>1. enqueue_due_cron_runs(d, 2 * capacity[d]) BY <1>6 DEF EnqueueDue
  <2> DEFINE due == _due_job_rows(2 * capacity[d])
  <2>2. runs'[r] = table[r] \/ runs'[r] = RunAfterEnqueue(table, due, r, d)
    BY <2>1 DEF enqueue_due_cron_runs, table
  <2>3. r = <<r[1], r[2]>> BY DEF Run
  <2> HIDE DEF due
  <2>4. RunAfterEnqueue(table, due, r, d) = table[r]
    BY <1>2, <2>3, ZenonT(30) DEF RunAfterEnqueue, InsertedPoints
  <2> QED BY <1>4, <2>2, <2>4
<1>7. CASE AcquireRuns(d)
  <2>1. acquire_cron_runs(d, capacity[d]) BY <1>7 DEF AcquireRuns
  <2>2. r \notin Acquired(_recover_expired_cron_runs_locked, d, capacity[d])
    BY AcquiredWasQueued
  <2> QED BY <1>4, <2>1, <2>2, Zenon DEF acquire_cron_runs, table
<1>8. CASE RecordOutcomes(d)
  BY <1>8, Zenon DEF RecordOutcomes, CloseTask, set_cron_job_enabled, vars, LeftAlone
<1>9. CASE ReadControl(d) \/ AbandonIteration(d)
  BY <1>3, <1>9 DEF ReadControl, AbandonIteration, vars
<1> QED BY <1>5, <1>6, <1>7, <1>8, <1>9 DEF LoopStep

\* retry_cron_run queues the run again or ends it as failed.
LEMMA RetryEnds ==
  ASSUME RowsOK, now \in Time, NEW c, c.run \in Run, retry_cron_run(c)
  PROVE  \E new : /\ runs' = [runs EXCEPT ![c.run] = new] /\ Fence(c)
                  /\ new.state \in {"queued", "failed"}
<1> DEFINE limit == IF Present(c.run[1]) THEN Config[c.run[1]].max_attempts ELSE 1
           new == RetriedOrFailed(runs[c.run], limit, Config[c.run[1]].retry_backoff)
<1>1. runs' = [runs EXCEPT ![c.run] = new] /\ Fence(c)
  BY Zenon DEF retry_cron_run
<1>2. limit \in Nat /\ limit <= Config[c.run[1]].max_attempts
  BY ConfigTypes
<1>3. runs[c.run].state = "running" BY <1>1, Zenon DEF Fence
<1> HIDE DEF limit
<1>4. new.state \in {"queued", "failed"}
  BY <1>2, <1>3, RetriedOK, Zenon DEF RowsOK
<1> QED BY <1>1, <1>4, Zenon

\* So do the threads, but for an outcome under the fence.
LEMMA ThreadLeaves ==
  ASSUME IInv, ControlOK, NEW w \in workers, WorkerMain(w) \/ _lease_renewer(w),
         NEW r \in Run, runs[r].state = "running"
  PROVE  \/ LeftAlone(r)
         \/ /\ w.claim.run = r /\ w.phase = "persist" /\ Fence(w.claim)
            /\ runs'[r].state \in {"finished", "timed_out"} => w.outcome = runs'[r].state
<1>0. runs \in [Run -> RunRow] /\ w \in WorkerState /\ w.claim.run \in Run /\ RowsOK /\ now \in Time
  BY DEF IInv, TypeOK, ControlOK, WorkerState, Claim
<1>1. CASE runs' = runs BY <1>1 DEF LeftAlone
<1>2. CASE renew_cron_run_lease(w.claim)
  BY <1>0, <1>2 DEF renew_cron_run_lease, LeftAlone, RunRow
<1>3. CASE mark_cron_delivery_target(w.claim, Marker)
  BY <1>0, <1>3 DEF mark_cron_delivery_target, LeftAlone, RunRow
<1>4. ASSUME NEW j \in Job, set_cron_job_enabled(j, FALSE, FALSE) PROVE LeftAlone(r)
  BY <1>4 DEF set_cron_job_enabled, LeftAlone
<1>5. CASE PersistOutcome(w)
  <2>1. w.phase = "persist" BY <1>5, Zenon DEF PersistOutcome
  <2>2. CASE retry_cron_run(w.claim)
    <3>1. PICK new : /\ runs' = [runs EXCEPT ![w.claim.run] = new] /\ Fence(w.claim)
                     /\ new.state \in {"queued", "failed"}
      BY <1>0, <2>2, RetryEnds, Zenon
    <3>5. CASE w.claim.run = r BY <1>0, <2>1, <3>1, <3>5
    <3>6. CASE w.claim.run # r BY <1>0, <3>1, <3>6, Zenon DEF LeftAlone
    <3> QED BY <3>5, <3>6, Zenon
  <2>3. ASSUME NEW wm \in BOOLEAN, finish_cron_run(w.claim, w.outcome, wm)
        PROVE  \/ LeftAlone(r)
               \/ /\ w.claim.run = r /\ w.phase = "persist" /\ Fence(w.claim)
                  /\ runs'[r].state \in {"finished", "timed_out"} => w.outcome = runs'[r].state
    <3>1. runs' = [runs EXCEPT ![w.claim.run] = Ended(runs[w.claim.run], w.outcome)] /\ Fence(w.claim)
      BY <2>3 DEF finish_cron_run
    <3>2. Ended(runs[w.claim.run], w.outcome).state = w.outcome
      BY <1>0 DEF Ended, Unleased, RunRow
    <3>3. CASE w.claim.run = r
      <4>1. runs'[r].state = w.outcome BY <1>0, <3>1, <3>2, <3>3, Zenon
      <4> QED BY <2>1, <3>1, <3>3, <4>1
    <3>4. CASE w.claim.run # r BY <1>0, <3>1, <3>4 DEF LeftAlone
    <3> QED BY <3>3, <3>4, Zenon
  <2>4. \/ retry_cron_run(w.claim)
        \/ \E wm \in BOOLEAN : finish_cron_run(w.claim, w.outcome, wm)
        \/ runs' = runs
    <3>1. UNCHANGED vars => runs' = runs BY DEF vars
    <3> QED BY <1>5, <3>1, Zenon DEF PersistOutcome
  <2> QED BY <1>1, <2>2, <2>3, <2>4, Zenon
<1>6. CASE LoadJob(w) \/ Execute(w) \/ CallHandler(w)
  BY <1>1, <1>6, Zenon DEF LoadJob, Execute, CallHandler, vars
<1>7. CASE RenewToDeliver(w) BY <1>1, <1>2, <1>7, ZenonT(30) DEF RenewToDeliver, vars
<1>8. CASE MarkTarget(w) BY <1>1, <1>3, <1>8 DEF MarkTarget, vars
<1>9. w.claim.run[1] \in Job BY <1>0, ConfigTypes
<1>10. CASE _disable_terminal_watch(w)
  BY <1>1, <1>4, <1>9, <1>10, Zenon DEF _disable_terminal_watch, vars
<1>11. CASE _record_task_outcome(w)
  BY <1>1, <1>4, <1>9, <1>11, Zenon DEF _record_task_outcome, CloseTask, vars
<1>12. CASE _lease_renewer(w) BY <1>1, <1>2, <1>12 DEF _lease_renewer, vars
<1> QED
  BY <1>5, <1>6, <1>7, <1>8, <1>10, <1>11, <1>12, Zenon DEF WorkerMain

\* A run ends, or is retried before its lease expired, only on behalf of the
\* thread that holds its newest lease (persist_cron_run_outcome).
THEOREM OutcomeByHolderHolds == SchedulerSpec => OutcomeByHolder
<1> DEFINE ByHolder ==
      \A r \in Run :
       /\ runs[r].state = "running"
       /\ runs'[r].state # "running"
       /\ runs'[r].state \in {"finished", "timed_out"} \/ runs[r].lease_expires_at > now
       => \E w \in workers : /\ w.claim.run = r
                             /\ \A c \in claims : SameRun(c, w.claim)
                                                  => c.attempts <= w.claim.attempts
                             /\ w.phase = "persist"
                             /\ runs'[r].state \in {"finished", "timed_out"}
                                  => w.outcome = runs'[r].state
<1>1. IInv /\ ControlOK /\ [SchedulerNext]_allVars => [ByHolder]_allVars
  <2> SUFFICES ASSUME IInv, ControlOK, SchedulerNext, NEW r \in Run,
                      runs[r].state = "running", runs'[r].state # "running",
                      runs'[r].state \in {"finished", "timed_out"} \/ runs[r].lease_expires_at > now
               PROVE  \E w \in workers :
                        /\ w.claim.run = r
                        /\ \A c \in claims : SameRun(c, w.claim) => c.attempts <= w.claim.attempts
                        /\ w.phase = "persist"
                        /\ runs'[r].state \in {"finished", "timed_out"} => w.outcome = runs'[r].state
    OBVIOUS
  <2>1. TypeOK /\ RowsOK /\ FencingTokens BY DEF IInv
  <2>2. ~LeftAlone(r)
    <3>1. Expired(r) => ~(runs[r].lease_expires_at > now)
      <4>1. runs[r].lease_expires_at \in TimeOrNull /\ now \in Nat
        BY <2>1, TimeIsNat DEF TypeOK, RunRow
      <4> QED BY <4>1 DEF Expired, TimeOrNull
    <3> QED BY <3>1 DEF LeftAlone
  <2>3. PICK w \in workers : WorkerMain(w) \/ _lease_renewer(w)
    <3>1. ~Environment
      <4>1. runs' = runs => LeftAlone(r) BY DEF LeftAlone
      <4> QED BY <2>1, <2>2, <4>1, OperatorLeaves DEF Environment, Tick, AddJob, add_cron_job
    <3>2. ASSUME NEW d \in Daemon, shutdown(d) \/ Exit(d) \/ start(d) PROVE FALSE
      BY <3>2, Zenon DEF shutdown, Exit, start, vars
    <3> QED BY <2>1, <2>2, <3>1, <3>2, LoopLeaves, Zenon DEF SchedulerNext
  <2>4. /\ w.claim.run = r /\ w.phase = "persist" /\ Fence(w.claim)
        /\ runs'[r].state \in {"finished", "timed_out"} => w.outcome = runs'[r].state
    BY <2>2, <2>3, ThreadLeaves, Zenon
  <2>5. \A c \in claims : SameRun(c, w.claim) => c.attempts <= w.claim.attempts
    BY <2>1, <2>4 DEF FencingTokens, SameRun, Fence
  <2> QED BY <2>4, <2>5, Zenon
<1>2. SchedulerInit => IInv /\ ControlOK
  <2> SUFFICES ASSUME SchedulerInit PROVE IInv /\ ControlOK OBVIOUS
  <2>1. Init BY DEF SchedulerInit
  <2>2. ControlOK BY BoundsAssumption DEF SchedulerInit, ControlOK, Stage
  <2> QED BY <2>1, <2>2, InitIInv
<1>3. IInv /\ ControlOK /\ [SchedulerNext]_allVars => IInv' /\ ControlOK'
  BY NextControlOK, SchedulerMakesNext, NextIInv
<1> QED BY <1>1, <1>2, <1>3, PTL DEF SchedulerSpec, OutcomeByHolder
=============================================================================
