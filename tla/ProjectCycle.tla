---------------------------- MODULE ProjectCycle ----------------------------
(***************************************************************************)
(* Unattended project runs.  A project advances by cycles: a cron job (a   *)
(* wake) runs ProjectWorker.run_cycle, which claims the cycle, runs one    *)
(* agent turn, commits a checkpoint under the claim's fence, settles the   *)
(* run and its task, and schedules the next wake.  Cron delivers a wake    *)
(* again if its worker dies or loses its lease.                            *)
(*                                                                         *)
(* Every wake opens its own connection to the task database, and the       *)
(* repository reads before SQLite begins the write transaction, so a       *)
(* claim and a commit are each a read step and a write step.               *)
(***************************************************************************)
EXTENDS Naturals, Sequences, SequencesExt, FiniteSets

CONSTANTS Worker,    \* threads that execute cron runs
          Nobody,    \* no worker
          MaxCycle,  \* the project's iteration budget
          MaxCrash,  \* bound: workers that die and turns that raise
          MaxStall   \* bound: leases and claims that run out in a live worker's hands

ProjectAssumption == MaxCycle \in Nat /\ MaxCrash \in Nat /\ MaxStall \in Nat

VARIABLES log,     \* task_checkpoints: the committed checkpoints, oldest first
          claim,   \* the row of project_cycle_claims
          task,    \* the state of the task
          run,     \* the autonomy run: the checkpoint it shows, and a status
          job,     \* the wakes' cron jobs; wake n is scheduled by cycle n
          holder,  \* whose attempt at a wake has cron's lease
          linked,  \* the task's linked_cron_job_id
          worker,  \* the workers
          crossed, \* history: two workers were between a commit's read and its insert at once
          crashes, stalls

vars == <<log, claim, task, run, job, holder, linked, worker, crossed, crashes, stalls>>
faults == <<crashes, stalls>>

Wake == 0..MaxCycle
NoWake == MaxCycle + 1
\* "running": the decision was to continue; "waiting": it needs input.
Statuses == {"running", "completed", "failed", "blocked", "waiting"}
PCs == {"idle", "load", "acquire", "claim", "check", "turn", "commit", "write", "settle",
        "release", "wake", "finish"}
Free == [pc |-> "idle", wake |-> 0, base |-> 0, fence |-> 0, status |-> "running",
         cycle |-> FALSE, next |-> NoWake, result |-> "none"]

Latest == Last(log)

ProjectTypeOK ==
  /\ log \in Seq([cycles : 0..MaxCycle, trigger : Wake \union {NoWake},
                  next : Wake \union {NoWake}, status : Statuses, base : 0..Len(log), cycle : BOOLEAN])
  /\ claim \in [owner : Wake, fence : Nat, expected : 0..Len(log), live : BOOLEAN]
  /\ task \in {"active", "paused", "done", "failed", "cancelled"}
  /\ run \in [cp : 1..Len(log), status : Statuses \union {"cancelled"}]
  /\ job \in [Wake -> {"none", "due", "running", "gone", "failed"}]
  /\ holder \in [Wake -> Worker \union {Nobody}]
  /\ linked \in Wake \union {NoWake}
  /\ worker \in [Worker -> [pc : PCs, wake : Wake, base : 0..Len(log), fence : Nat,
                            status : Statuses, cycle : BOOLEAN,
                            next : Wake \union {NoWake}, result : {"none", "continue", "error"}]]
  /\ crossed \in BOOLEAN
  /\ crashes \in 0..MaxCrash /\ stalls \in 0..MaxStall

\* The project is started: a first checkpoint, and a wake due at once.
ProjectInit ==
  /\ log = <<[cycles |-> 0, trigger |-> NoWake, next |-> 0, status |-> "running", base |-> 0,
             cycle |-> FALSE]>>
  /\ claim = [owner |-> 0, fence |-> 0, expected |-> 0, live |-> FALSE]
  /\ task = "active"
  /\ run = [cp |-> 1, status |-> "running"]
  /\ job = [w \in Wake |-> IF w = 0 THEN "due" ELSE "none"]
  /\ holder = [w \in Wake |-> Nobody]
  /\ linked = 0
  /\ worker = [k \in Worker |-> Free]
  /\ crossed = FALSE
  /\ crashes = 0 /\ stalls = 0

-----------------------------------------------------------------------------
(* Cron: a wake is delivered until an attempt that has the lease ends      *)

At(k, pc) == worker[k].pc = pc
Goes(k, pc) == worker' = [worker EXCEPT ![k].pc = pc]
Raises(k, pc) == worker' = [worker EXCEPT ![k].pc = pc, ![k].result = "error"]
Dies == crashes < MaxCrash /\ crashes' = crashes + 1 /\ UNCHANGED stalls
Stalls == stalls < MaxStall /\ stalls' = stalls + 1 /\ UNCHANGED crashes

Deliver(k, w) ==
  /\ At(k, "idle") /\ job[w] = "due"
  /\ job' = [job EXCEPT ![w] = "running"]
  /\ holder' = [holder EXCEPT ![w] = k]
  /\ worker' = [worker EXCEPT ![k] = [Free EXCEPT !.pc = "load", !.wake = w]]
  /\ UNCHANGED <<log, claim, task, run, linked, faults, crossed>>

\* The lease of an attempt runs out: its worker has died, or has stalled.
Redeliver(w) ==
  /\ job[w] = "running"
  /\ IF holder[w] = Nobody THEN UNCHANGED faults ELSE Stalls
  /\ job' = [job EXCEPT ![w] = "due"]
  /\ holder' = [holder EXCEPT ![w] = Nobody]
  /\ UNCHANGED <<log, claim, task, run, linked, worker, crossed>>

Crash(k) ==
  /\ ~At(k, "idle") /\ Dies
  /\ holder' = [w \in Wake |-> IF holder[w] = k THEN Nobody ELSE holder[w]]
  /\ worker' = [worker EXCEPT ![k] = Free]
  /\ UNCHANGED <<log, claim, task, run, job, linked, crossed>>

\* The attempt ends; delete_after_run deletes a job that finished.
Finish(k) ==
  /\ At(k, "finish")
  /\ LET w == worker[k].wake IN
     IF holder[w] = k
     THEN /\ job' = [job EXCEPT ![w] = IF worker[k].result = "error" THEN "failed" ELSE "gone"]
          /\ holder' = [holder EXCEPT ![w] = Nobody]
     ELSE UNCHANGED <<job, holder>>
  /\ worker' = [worker EXCEPT ![k] = Free]
  /\ UNCHANGED <<log, claim, task, run, linked, faults, crossed>>

-----------------------------------------------------------------------------
(* ProjectWorker.run_cycle                                                 *)

Closed == {"completed", "failed", "blocked"}

\* transition_project_task: the state the task gets, if any.
Target(status) ==
  CASE status = "completed" -> "done" [] status = "failed" -> "failed"
    [] status \in {"blocked", "waiting"} -> "paused" [] OTHER -> task
Allowed(to) == task = to \/ task \in {"active", "paused"}
Settle(status) ==
  /\ run' = [cp |-> Len(log), status |-> status]
  /\ task' = IF Allowed(Target(status)) THEN Target(status) ELSE task

\* The run of an inactive task is closed with it.
Inactive(k, pc) ==
  /\ task # "active"
  /\ run' = CASE task = "paused" -> run
              [] task = "done" -> [run EXCEPT !.status = "completed"]
              [] OTHER -> [run EXCEPT !.status = task]
  /\ Goes(k, pc)

\* Mutant: a closed checkpoint is taken to have been settled.
RecoverNothing(k) ==
  /\ Latest.status \in Closed
  /\ Goes(k, "finish")
  /\ UNCHANGED <<run, task>>

\* A closed checkpoint is settled again.
recover_terminal_checkpoint(k) ==
  /\ Latest.status \in Closed
  /\ Settle(Latest.status)
  /\ IF Allowed(Target(Latest.status)) THEN Goes(k, "finish") ELSE Raises(k, "finish")

\* run_cycle up to the claim: a wake that the latest checkpoint was committed for
\* only schedules the next one.
Load(k) ==
  /\ At(k, "load")
  /\ \/ recover_terminal_checkpoint(k)
     \/ /\ Latest.status \notin Closed /\ UNCHANGED task
        /\ LET shown == [cp |-> Len(log), status |-> Latest.status] IN
           \/ /\ Latest.trigger = worker[k].wake
              /\ run' = shown
              /\ worker' = [worker EXCEPT ![k].pc = "wake", ![k].next = Latest.next,
                              ![k].result = IF Latest.status = "running" THEN "continue" ELSE "none"]
           \/ /\ Latest.trigger # worker[k].wake
              /\ \/ /\ task = "active" /\ Latest.cycles < MaxCycle
                    /\ run' = shown
                    /\ worker' = [worker EXCEPT ![k].pc = "acquire", ![k].base = Len(log)]
                 \/ /\ task = "active" /\ Latest.cycles = MaxCycle
                    /\ run' = [shown EXCEPT !.status = "blocked"] /\ Goes(k, "finish")
                 \/ Inactive(k, "finish")
  /\ UNCHANGED <<log, claim, job, holder, linked, faults, crossed>>

Mine(k) == claim.owner = worker[k].wake
Matches(k) == Mine(k) /\ claim.fence = worker[k].fence /\ claim.expected = worker[k].base

\* acquire_project_cycle_claim reads the latest checkpoint and the claim ...
ReadClaim(k) ==
  /\ At(k, "acquire")
  /\ IF Len(log) # worker[k].base \/ (claim.live /\ ~Mine(k)) THEN Raises(k, "finish")
     ELSE IF claim.live /\ claim.expected = worker[k].base
     THEN worker' = [worker EXCEPT ![k].pc = "check", ![k].fence = claim.fence]
     ELSE worker' = [worker EXCEPT ![k].pc = "claim", ![k].fence = claim.fence + 1]
  /\ UNCHANGED <<log, claim, task, run, job, holder, linked, faults, crossed>>

\* ... and writes it.
WriteClaim(k) ==
  /\ At(k, "claim")
  /\ claim' = [owner |-> worker[k].wake, fence |-> worker[k].fence,
               expected |-> worker[k].base, live |-> TRUE]
  /\ Goes(k, "check")
  /\ UNCHANGED <<log, task, run, job, holder, linked, faults, crossed>>

\* The task is looked at again under the claim.
Check(k) ==
  /\ At(k, "check")
  /\ \/ task = "active" /\ Goes(k, "turn") /\ UNCHANGED run
     \/ Inactive(k, "release")
  /\ UNCHANGED <<log, claim, task, job, holder, linked, faults, crossed>>

\* The turn and its verification give a decision, or raise: then an interruption
\* is to be recorded, if the checkpoint is still the latest.
_evaluate_cycle(k) ==
  /\ At(k, "turn")
  /\ \/ \E status \in Statuses :
          worker' = [worker EXCEPT ![k].pc = "commit", ![k].status = status, ![k].cycle = TRUE]
        /\ UNCHANGED faults
     \/ /\ Dies
        /\ IF Len(log) = worker[k].base
           THEN worker' = [worker EXCEPT ![k].pc = "commit", ![k].status = "blocked",
                                         ![k].cycle = FALSE, ![k].result = "error"]
           ELSE Raises(k, "release")
  /\ UNCHANGED <<log, claim, task, run, job, holder, linked, crossed>>

\* Mutant: the claim is not asked for.
CommitUnclaimed(k) ==
  /\ At(k, "commit")
  /\ Goes(k, "write")
  /\ crossed' = (crossed \/ \E j \in Worker : At(j, "write"))
  /\ UNCHANGED <<log, claim, task, run, job, holder, linked, faults>>

\* commit_project_cycle_checkpoint reads the claim and the latest checkpoint ...
ReadCommit(k) ==
  /\ At(k, "commit")
  /\ IF Matches(k) /\ claim.live /\ Len(log) = worker[k].base
     THEN /\ Goes(k, "write")
          /\ crossed' = (crossed \/ \E j \in Worker : At(j, "write"))
     ELSE Raises(k, "release") /\ UNCHANGED crossed
  /\ UNCHANGED <<log, claim, task, run, job, holder, linked, faults>>

Checkpoint(k) ==
  LET cycles == log[worker[k].base].cycles + IF worker[k].cycle THEN 1 ELSE 0 IN
  [cycles |-> cycles, trigger |-> worker[k].wake, base |-> worker[k].base,
   next |-> IF worker[k].status = "running" THEN cycles ELSE NoWake,
   status |-> worker[k].status, cycle |-> worker[k].cycle]

\* Mutant: the insert replaces.
NeverTaken(k) == FALSE

\* The checkpoint's id is made of the cycle's number: it cannot be used twice.
Taken(k) ==
  worker[k].cycle /\ \E i \in DOMAIN log :
    log[i].cycle /\ log[i].cycles = log[worker[k].base].cycles + 1

\* ... and inserts.
WriteCommit(k) ==
  /\ At(k, "write")
  /\ IF Taken(k) THEN Raises(k, "release") /\ UNCHANGED log
     ELSE /\ log' = Append(log, Checkpoint(k))
          /\ worker' = [worker EXCEPT ![k].pc = "settle", ![k].next = Checkpoint(k).next]
  /\ UNCHANGED <<claim, task, run, job, holder, linked, faults, crossed>>

\* _finalize_cycle, or the end of record_project_cycle_interruption: the run is
\* saved, then the task is moved, which raises if it has been closed.
_finalize_cycle(k) ==
  /\ At(k, "settle")
  /\ Settle(worker[k].status)
  /\ worker' = [worker EXCEPT ![k].pc = "release",
       ![k].result = IF @ = "error" \/ ~Allowed(Target(worker[k].status)) THEN "error"
                     ELSE IF worker[k].status = "running" THEN "continue" ELSE "none"]
  /\ UNCHANGED <<log, claim, job, holder, linked, faults, crossed>>

\* release_project_cycle_claim raises if the claim is another's by now.
release_project_cycle_claim(k) ==
  /\ At(k, "release")
  /\ IF Matches(k)
     THEN /\ claim' = [claim EXCEPT !.live = FALSE]
          /\ Goes(k, IF worker[k].result = "continue" THEN "wake" ELSE "finish")
     ELSE Raises(k, "finish") /\ UNCHANGED claim
  /\ UNCHANGED <<log, task, run, job, holder, linked, faults, crossed>>

\* The claim's time runs out in a stalled worker's hands, or after a crash.
Expire ==
  /\ claim.live
  /\ IF \E k \in Worker : worker[k].pc \in {"check", "turn", "commit", "write", "settle", "release"}
     THEN Stalls ELSE UNCHANGED faults
  /\ claim' = [claim EXCEPT !.live = FALSE]
  /\ UNCHANGED <<log, task, run, job, holder, linked, worker, crossed>>

\* Mutant: the next wake is only scheduled by the attempt that committed.
WakeOnce(k) ==
  /\ At(k, "wake")
  /\ IF worker[k].result = "continue" /\ worker[k].base > 0
     THEN /\ job' = [job EXCEPT ![worker[k].next] = IF @ \in {"none", "gone"} THEN "due" ELSE @]
          /\ linked' = worker[k].next
     ELSE UNCHANGED <<job, linked>>
  /\ Goes(k, "finish")
  /\ UNCHANGED <<log, claim, task, run, holder, faults, crossed>>

\* _record_project_wake: the next wake is scheduled unless its job exists.
_record_project_wake(k) ==
  /\ At(k, "wake")
  /\ IF worker[k].result = "continue"
     THEN /\ job' = [job EXCEPT ![worker[k].next] = IF @ \in {"none", "gone"} THEN "due" ELSE @]
          /\ linked' = worker[k].next
     ELSE UNCHANGED <<job, linked>>
  /\ Goes(k, "finish")
  /\ UNCHANGED <<log, claim, task, run, holder, faults, crossed>>

-----------------------------------------------------------------------------
(* apply_project_control and cancel_project_task_wake                      *)

Pause ==
  /\ task = "active" /\ task' = "paused"
  /\ UNCHANGED <<log, claim, run, job, holder, linked, worker, faults, crossed>>

Cancel ==
  /\ task \in {"active", "paused"} /\ task' = "cancelled"
  /\ IF linked = NoWake THEN UNCHANGED <<job, holder>>
     ELSE /\ job' = [job EXCEPT ![linked] = "gone"]
          /\ holder' = [holder EXCEPT ![linked] = Nobody]
  /\ linked' = NoWake
  /\ UNCHANGED <<log, claim, run, worker, faults, crossed>>

WorkerStep(k) ==
  \/ Load(k) \/ ReadClaim(k) \/ WriteClaim(k) \/ Check(k) \/ _evaluate_cycle(k)
  \/ ReadCommit(k) \/ WriteCommit(k) \/ _finalize_cycle(k)
  \/ release_project_cycle_claim(k) \/ _record_project_wake(k) \/ Finish(k)

ProjectNext ==
  \/ \E k \in Worker : WorkerStep(k) \/ Crash(k) \/ \E w \in Wake : Deliver(k, w)
  \/ \E w \in Wake : Redeliver(w)
  \/ Expire \/ Pause \/ Cancel

ProjectSpec == ProjectInit /\ [][ProjectNext]_vars

-----------------------------------------------------------------------------
(* Properties                                                              *)

\* Nothing of the project is going on or about to.
Quiet ==
  /\ \A k \in Worker : At(k, "idle")
  /\ \A w \in Wake : job[w] \in {"none", "gone", "failed"}

\* No cycle is committed twice, though wakes are delivered again, claims expire
\* and two workers may both find the claim theirs before either inserts.
CycleCommittedOnce ==
  \A i, j \in DOMAIN log :
    log[i].cycle /\ log[j].cycle /\ log[i].cycles = log[j].cycles => i = j

\* The checkpoints are one history, each computed from the one before it, though
\* workers stall and work side by side: only a commit that comes between the read
\* and the insert of another could fork it.
OneHistory == ~crossed => \A i \in DOMAIN log : log[i].base = i - 1

\* A project that decided to continue is not forgotten: unless it was stopped,
\* has used its budget, or an attempt at it raised, there is a wake for it.
NoLostWake ==
  Quiet => Latest.status # "running" \/ task # "active" \/ Latest.cycles = MaxCycle
           \/ \E w \in Wake : job[w] = "failed"

\* A decision that closes the project reaches the task, also if the worker died
\* right after it committed the checkpoint: the next attempt settles it.
DecisionSettles ==
  Quiet /\ Latest.status \in Closed => task # "active" \/ \E w \in Wake : job[w] = "failed"

\* The cycles of a project: none twice, in one line, and neither the next one nor the
\* final decision is forgotten.
CyclesAreSafe ==
  ProjectTypeOK /\ CycleCommittedOnce /\ OneHistory /\ NoLostWake /\ DecisionSettles
=============================================================================
