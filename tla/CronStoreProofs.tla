--------------------------- MODULE CronStoreProofs ---------------------------
(***************************************************************************)
(* The inductive invariant of CronStore, and the theorems that follow from *)
(* it for every set of jobs, daemons, scopes and targets and every value   *)
(* of the bounds.                                                          *)
(*                                                                         *)
(* Everything rests on one fact about rows: what a transaction does to a   *)
(* row keeps RowOK and is one step of the life cycle (RowStep).            *)
(***************************************************************************)
EXTENDS CronStore, TLAPS

\* What is true of every row on its own.
RowOK(r, row) ==
  /\ row \in RunRow
  /\ row.attempts <= Config[r[1]].max_attempts
  /\ row.state = "queued" => row.attempts < Config[r[1]].max_attempts
  /\ row.state = "running" => row.lease_owner # NULL /\ row.lease_expires_at # NULL
  /\ row.state \in TerminalStates => row.lease_owner = NULL /\ row.lease_expires_at = NULL
  /\ row.state # "none" => row.run_id > 0

\* What one transaction may do to a row.
SameRow(old, new) ==
  /\ new.run_id = old.run_id
  /\ new.attempts = old.attempts
  /\ old.delivery_targets \subseteq new.delivery_targets
Stays(old, new) == SameRow(old, new) /\ new.state = old.state
Created(old, new) ==
  /\ old.state = "none" /\ new.state \in {"queued", "failed"}
  /\ new.run_id = old.run_id + 1 /\ new.attempts = 0
StartedStep(r, old, new) ==
  /\ old.state = "queued" /\ new.state = "running"
  /\ old.attempts < Config[r[1]].max_attempts
  /\ new.attempts = old.attempts + 1
  /\ new.run_id = old.run_id /\ new.delivery_targets = old.delivery_targets
Requeued(r, old, new) ==
  /\ old.state = "running" /\ new.state = "queued"
  /\ old.attempts < Config[r[1]].max_attempts
  /\ SameRow(old, new)
EndedStep(old, new) ==
  /\ old.state = "running" /\ new.state \in {"finished", "failed", "timed_out"}
  /\ SameRow(old, new)
Cancelled(old, new) ==
  /\ old.state = "queued" /\ new.state = "cancelled" /\ SameRow(old, new)
Purged(old, new) ==
  /\ old.state \in TerminalStates /\ new.state = "none"
  /\ new.run_id = old.run_id /\ new.attempts = 0

\* The steps that any number of transactions make, and with them the two
\* that only acquire_cron_runs and the deletion of history make.
QuietStep(r, old, new) ==
  \/ Stays(old, new)
  \/ Created(old, new)
  \/ Requeued(r, old, new)
  \/ EndedStep(old, new)
  \/ Cancelled(old, new)

RowStep(r, old, new) ==
  QuietStep(r, old, new) \/ StartedStep(r, old, new) \/ Purged(old, new)

-----------------------------------------------------------------------------
(* The operations on one row                                               *)

\* A job's limits are positive numbers.
LEMMA ConfigTypes ==
  ASSUME NEW r \in Run
  PROVE  /\ r[1] \in Job /\ r[2] \in Time
         /\ Config[r[1]] \in JobConfig
         /\ Config[r[1]].max_attempts \in Nat
         /\ Config[r[1]].max_attempts > 0
BY ConfigAssumption DEF Run, JobConfig

\* Ending a running or queued row (Ended) gives a well-formed row.
LEMMA EndedOK ==
  ASSUME NEW r \in Run, NEW row, RowOK(r, row), row.state # "none",
         NEW s \in TerminalStates
  PROVE  /\ RowOK(r, Ended(row, s))
         /\ SameRow(row, Ended(row, s))
         /\ Ended(row, s).state = s
BY ConfigTypes, Zenon DEF RowOK, Ended, Unleased, SameRow, RunRow, RunStates, TerminalStates, TimeOrNull

\* RetriedOrFailed on a running row: failed, or queued with a start left and
\* not before the next instant.
LEMMA RetriedOK ==
  ASSUME NEW r \in Run, NEW row, RowOK(r, row), row.state = "running", now \in Time,
         NEW limit \in Nat, limit <= Config[r[1]].max_attempts
  PROVE  LET new == RetriedOrFailed(row, limit, Config[r[1]].retry_backoff)
         IN  /\ RowOK(r, new)
             /\ SameRow(row, new)
             /\ \/ new.state = "failed"
                \/ /\ new.state = "queued"
                   /\ row.attempts < Config[r[1]].max_attempts
                   /\ new.available_at \in Nat
                   /\ new.available_at > now
<1> DEFINE b == _retry_delay_seconds(row.attempts, Config[r[1]].retry_backoff)
<1>1. row.attempts \in Nat /\ Config[r[1]].max_attempts \in Nat
  BY ConfigTypes DEF RowOK, RunRow
<1>2. row.attempts \in 0..Config[r[1]].max_attempts
  BY <1>1 DEF RowOK
<1>3. b \in 1..MaxBackoff
  BY <1>2, ConfigTypes, BackoffAssumption
<1>4. now \in Nat /\ now + b \in Nat /\ now + b > now
  BY <1>3, BoundsAssumption DEF Time
<1> HIDE DEF b
<1>5. CASE row.attempts >= limit
  BY <1>5, EndedOK DEF RetriedOrFailed, TerminalStates
<1>6. CASE ~(row.attempts >= limit)
  <2> DEFINE new == [Unleased(row) EXCEPT !.state = "queued", !.available_at = now + b]
  <2>1. RetriedOrFailed(row, limit, Config[r[1]].retry_backoff) = new
    BY <1>6 DEF RetriedOrFailed, Requeue, b
  <2>2. row.attempts < Config[r[1]].max_attempts
    BY <1>6, <1>1
  <2>3. /\ new.state = "queued" /\ new.available_at = now + b /\ SameRow(row, new)
        /\ new.attempts = row.attempts /\ new.run_id = row.run_id
        /\ new \in RunRow
    BY <1>4, Zenon DEF RowOK, RunRow, Unleased, SameRow, RunStates, TerminalStates, TimeOrNull
  <2>4. RowOK(r, new)
    BY <2>2, <2>3 DEF RowOK, TerminalStates
  <2> QED BY <2>1, <2>2, <2>3, <2>4, <1>4
<1> QED BY <1>5, <1>6

\* A row as it is created by enqueueing or by hand.
LEMMA NewRowOK ==
  ASSUME NEW r \in Run, NEW row, RowOK(r, row), row.state = "none",
         NEW a \in TimeOrNull, NEW o \in Daemon \union {NULL}, NEW e \in TimeOrNull
  PROVE  /\ RowOK(r, NewRow(row, "queued", a, o, e))
         /\ Created(row, NewRow(row, "queued", a, o, e))
         /\ RowOK(r, NewRow(row, "failed", a, NULL, NULL))
         /\ Created(row, NewRow(row, "failed", a, NULL, NULL))
BY ConfigTypes DEF RowOK, NewRow, Created, RunRow, RunStates, TerminalStates, TimeOrNull

\* Starting a queued row uses one of the attempts it has left.
LEMMA StartedOK ==
  ASSUME NEW r \in Run, NEW row, RowOK(r, row), row.state = "queued",
         NEW o \in Daemon, now \in Time
  PROVE  /\ RowOK(r, StartedRow(row, o))
         /\ StartedStep(r, row, StartedRow(row, o))
<1>1. now + LeaseTTL \in Nat /\ now + LeaseTTL # NULL
  BY BoundsAssumption, NullAssumption DEF Time
<1>2. o # NULL
  BY NullAssumption
<1>3. row.attempts + 1 \in Nat /\ row.attempts + 1 <= Config[r[1]].max_attempts
  BY ConfigTypes DEF RowOK, RunRow
<1> QED
  BY <1>1, <1>2, <1>3, Zenon
  DEF RowOK, StartedRow, StartedStep, RunRow, RunStates, TerminalStates, TimeOrNull

-----------------------------------------------------------------------------
(* The table                                                               *)

RowsOK == \A r \in Run : RowOK(r, runs[r])

\* Every row keeps RowOK and makes at most one step.
TableStep ==
  /\ runs' \in [Run -> RunRow]
  /\ \A r \in Run : RowOK(r, runs'[r]) /\ RowStep(r, runs[r], runs'[r])

QuietTable ==
  /\ runs' \in [Run -> RunRow]
  /\ \A r \in Run : RowOK(r, runs'[r]) /\ QuietStep(r, runs[r], runs'[r])

\* The recovery that opens a transaction: every row that is not put back or
\* failed is untouched, and one that is put back is not yet available.
Recovered(table) ==
  \A r \in Run :
    /\ RowOK(r, table[r])
    /\ \/ table[r] = runs[r]
       \/ EndedStep(runs[r], table[r])
       \/ /\ Requeued(r, runs[r], table[r])
          /\ table[r].available_at \in Nat /\ table[r].available_at > now

\* Recovery retries or fails the rows whose lease expired and no others.
LEMMA RecoverOK ==
  ASSUME TypeOK, RowsOK
  PROVE  /\ _recover_expired_cron_runs_locked \in [Run -> RunRow]
         /\ Recovered(_recover_expired_cron_runs_locked)
<1> DEFINE table == _recover_expired_cron_runs_locked
<1>1. ASSUME NEW r \in Run
      PROVE  /\ RowOK(r, table[r])
             /\ \/ table[r] = runs[r]
                \/ EndedStep(runs[r], table[r])
                \/ /\ Requeued(r, runs[r], table[r])
                   /\ table[r].available_at \in Nat /\ table[r].available_at > now
  <2>1. CASE Expired(r)
    <3>1. table[r] = RetriedOrFailed(runs[r], Config[r[1]].max_attempts, Config[r[1]].retry_backoff)
      BY <2>1 DEF _recover_expired_cron_runs_locked
    <3>2. runs[r].state = "running" /\ now \in Time /\ RowOK(r, runs[r])
      BY <2>1 DEF Expired, TypeOK, RowsOK
    <3>3. Config[r[1]].max_attempts \in Nat /\ Config[r[1]].max_attempts <= Config[r[1]].max_attempts
      BY ConfigTypes
    <3> QED BY <3>1, <3>2, <3>3, RetriedOK DEF EndedStep, Requeued
  <2>2. CASE ~Expired(r)
    BY <2>2 DEF _recover_expired_cron_runs_locked, RowsOK
  <2> QED BY <2>1, <2>2
<1>2. table \in [Run -> RunRow]
  BY <1>1 DEF _recover_expired_cron_runs_locked, RowOK
<1> QED BY <1>1, <1>2 DEF Recovered

\* Leaving a row alone is a step.
LEMMA UnchangedRow ==
  ASSUME NEW r \in Run, NEW row PROVE QuietStep(r, row, row)
BY DEF QuietStep, Stays, SameRow

\* So recovery makes a QuietTable.
LEMMA RecoverStep ==
  ASSUME TypeOK, RowsOK, runs' = _recover_expired_cron_runs_locked
  PROVE  QuietTable
BY RecoverOK, UnchangedRow DEF QuietTable, Recovered, QuietStep

\* Changing a single row.
LEMMA OneRow ==
  ASSUME TypeOK, RowsOK, NEW r \in Run, NEW new, RowOK(r, new), QuietStep(r, runs[r], new),
         runs' = [runs EXCEPT ![r] = new]
  PROVE  QuietTable
<1>1. new \in RunRow BY DEF RowOK
<1> QED BY <1>1, UnchangedRow DEF QuietTable, TypeOK, RowsOK

-----------------------------------------------------------------------------
(* The transactions: each one makes a QuietTable                            *)

\* set_cron_job_enabled cancels queued rows at most.
LEMMA SetEnabledStep ==
  ASSUME TypeOK, RowsOK, NEW j \in Job, NEW en \in BOOLEAN, NEW cq \in BOOLEAN,
         set_cron_job_enabled(j, en, cq)
  PROVE  QuietTable
<1>1. runs' = [r \in Run |->
                IF r[1] = j /\ ~en /\ cq /\ runs[r].state = "queued"
                THEN Ended(runs[r], "cancelled") ELSE runs[r]]
  BY DEF set_cron_job_enabled
<1>2. ASSUME NEW r \in Run PROVE RowOK(r, runs'[r]) /\ QuietStep(r, runs[r], runs'[r])
  <2>1. CASE runs[r].state = "queued" /\ runs'[r] = Ended(runs[r], "cancelled")
    BY <2>1, EndedOK DEF RowsOK, TerminalStates, QuietStep, Cancelled
  <2>2. CASE runs'[r] = runs[r]
    BY <2>2, UnchangedRow DEF RowsOK
  <2> QED BY <1>1, <2>1, <2>2
<1>3. runs' \in [Run -> RunRow]
  BY <1>1, <1>2 DEF RowOK
<1> QED BY <1>2, <1>3 DEF QuietTable

\* Deleting history removes terminal rows only.
LEMMA DeleteTerminalStep ==
  ASSUME TypeOK, RowsOK, NEW S \in SUBSET Run, DeleteTerminal(S)
  PROVE  TableStep
<1> DEFINE gone == {r \in S : runs[r].state \in TerminalStates}
           empty(r) == [run_id |-> runs[r].run_id, state |-> "none", available_at |-> NULL,
                        lease_owner |-> NULL, lease_expires_at |-> NULL, attempts |-> 0,
                        delivery_targets |-> {}]
<1>1. runs' = [r \in Run |-> IF r \in gone THEN empty(r) ELSE runs[r]]
  BY DEF DeleteTerminal
<1>2. ASSUME NEW r \in Run PROVE RowOK(r, runs'[r]) /\ RowStep(r, runs[r], runs'[r])
  <2>1. CASE r \in gone
    <3>1. runs'[r] = empty(r) /\ runs[r].state \in TerminalStates /\ RowOK(r, runs[r])
      BY <1>1, <2>1 DEF RowsOK
    <3>2. RowOK(r, empty(r)) /\ Purged(runs[r], empty(r))
      BY <3>1, ConfigTypes
      DEF RowOK, Purged, RunRow, RunStates, TerminalStates, TimeOrNull
    <3> QED BY <3>1, <3>2 DEF RowStep
  <2>2. CASE r \notin gone
    BY <1>1, <2>2, UnchangedRow DEF RowsOK, RowStep
  <2> QED BY <2>1, <2>2
<1>3. runs' \in [Run -> RunRow]
  BY <1>1, <1>2 DEF RowOK
<1> QED BY <1>2, <1>3 DEF TableStep

\* A manual run is a new row under a name that no row has.
LEMMA TriggerStep ==
  ASSUME TypeOK, RowsOK, NEW j \in Job, NEW t \in Time,
         trigger_task_run_now(j) \/ trigger_cron_run(j, t)
  PROVE  QuietTable
<1>1. now \in Time /\ \A u \in Time : u \in TimeOrNull
  BY BoundsAssumption DEF TypeOK, Time, TimeOrNull
<1>2. CASE trigger_task_run_now(j)
  <2>1. <<j, now>> \in Run /\ runs[<<j, now>>].state = "none"
    BY <1>1, <1>2 DEF trigger_task_run_now, Run
  <2>2. runs' = [runs EXCEPT ![<<j, now>>] = NewRow(runs[<<j, now>>], "queued", now, NULL, NULL)]
    BY <1>2 DEF trigger_task_run_now
  <2> QED BY <1>1, <2>1, <2>2, NewRowOK, OneRow, Zenon DEF RowsOK, QuietStep, TimeOrNull
<1>3. CASE trigger_cron_run(j, t)
  <2>1. <<j, t>> \in Run /\ runs[<<j, t>>].state = "none"
    BY <1>1, <1>3 DEF trigger_cron_run, Run
  <2>2. runs' = [runs EXCEPT ![<<j, t>>] = NewRow(runs[<<j, t>>], "queued", t, NULL, NULL)]
    BY <1>3 DEF trigger_cron_run
  <2> QED BY <1>1, <2>1, <2>2, NewRowOK, OneRow, Zenon DEF RowsOK, QuietStep, TimeOrNull
<1> QED BY <1>2, <1>3

\* Enqueueing adds rows only under names that no row has.
LEMMA EnqueueStep ==
  ASSUME TypeOK, RowsOK, NEW d \in Daemon, NEW mj, enqueue_due_cron_runs(d, mj)
  PROVE  QuietTable
<1> DEFINE table == _recover_expired_cron_runs_locked
           due == _due_job_rows(mj)
<1>1. CASE paused
  BY <1>1, RecoverStep DEF enqueue_due_cron_runs
<1>2. CASE ~paused
  <2>1. runs' = [r \in Run |-> RunAfterEnqueue(table, due, r, d)]
    BY <1>2 DEF enqueue_due_cron_runs
  <2>2. Recovered(table)
    BY RecoverOK
  <2> HIDE DEF table
  <2>3. ASSUME NEW r \in Run PROVE RowOK(r, runs'[r]) /\ QuietStep(r, runs[r], runs'[r])
    <3>1. CASE runs'[r] = table[r]
      BY <2>2, <3>1, UnchangedRow DEF Recovered, QuietStep
    <3>2. CASE /\ runs'[r] # table[r]
      <4>1. /\ table[r].state = "none"
            /\ \/ runs'[r] = NewRow(table[r], "queued", r[2], d, now + LeaseTTL)
               \/ runs'[r] = NewRow(table[r], "failed", NULL, NULL, NULL)
        <5>1. runs'[r] = RunAfterEnqueue(table, due, r, d) BY <2>1
        <5>2. r = <<r[1], r[2]>> BY DEF Run
        <5> QED BY <3>2, <5>1, <5>2 DEF RunAfterEnqueue, InsertedPoints
      <4>2. table[r] = runs[r]
        BY <2>2, <4>1 DEF Recovered, EndedStep, Requeued
      <4>3. r[2] \in TimeOrNull /\ now + LeaseTTL \in TimeOrNull /\ NULL \in TimeOrNull
        BY ConfigTypes, BoundsAssumption DEF Time, TimeOrNull, TypeOK
      <4>4. RowOK(r, table[r])
        BY <2>2 DEF Recovered
      <4> QED BY <4>1, <4>2, <4>3, <4>4, NewRowOK DEF QuietStep
    <3> QED BY <3>1, <3>2
  <2>4. runs' \in [Run -> RunRow]
    BY <2>1, <2>3 DEF RowOK
  <2> QED BY <2>3, <2>4 DEF QuietTable
<1> QED BY <1>1, <1>2

\* What acquire_cron_runs starts was queued before the transaction too: a row
\* that its own recovery has just put back is not available yet.
LEMMA AcquiredWasQueued ==
  ASSUME TypeOK, RowsOK, NEW d \in Daemon, NEW limit,
         NEW r \in Acquired(_recover_expired_cron_runs_locked, d, limit)
  PROVE  /\ r \in Run
         /\ _recover_expired_cron_runs_locked[r] = runs[r]
         /\ runs[r].state = "queued"
         /\ Present(r[1])
<1> DEFINE table == _recover_expired_cron_runs_locked
<1>1. Recovered(table)
  BY RecoverOK
<1> HIDE DEF table
<1>2. r \in Run /\ IsCandidate(table, r, d)
  BY DEF Acquired, Candidates, table
<1>3. table[r].state = "queued" /\ Present(r[1])
  BY <1>2 DEF IsCandidate
<1>4. table[r].available_at = NULL \/ table[r].available_at <= now
  BY <1>2 DEF IsCandidate
<1>5. ~(table[r].available_at \in Nat /\ table[r].available_at > now)
  BY <1>4, NullAssumption, BoundsAssumption DEF TypeOK, Time
<1>6. table[r] = runs[r]
  BY <1>1, <1>2, <1>3, <1>5 DEF Recovered, EndedStep
<1> QED BY <1>2, <1>3, <1>6 DEF table

\* acquire_cron_runs recovers rows or starts queued ones.
LEMMA AcquireStep ==
  ASSUME TypeOK, RowsOK, NEW d \in Daemon, NEW limit, acquire_cron_runs(d, limit)
  PROVE  TableStep
<1> DEFINE table == _recover_expired_cron_runs_locked
           acquired == IF paused THEN {} ELSE Acquired(table, d, limit)
<1>1. runs' = [r \in Run |-> IF r \in acquired THEN StartedRow(table[r], d) ELSE table[r]]
  BY DEF acquire_cron_runs
<1>2. Recovered(table)
  BY RecoverOK
<1>3. \A r \in acquired : r \in Run /\ table[r] = runs[r] /\ runs[r].state = "queued"
  BY AcquiredWasQueued
<1> HIDE DEF table, acquired
<1>4. ASSUME NEW r \in Run PROVE RowOK(r, runs'[r]) /\ RowStep(r, runs[r], runs'[r])
  <2>1. CASE r \in acquired
    <3>1. runs'[r] = StartedRow(runs[r], d) /\ runs[r].state = "queued"
      BY <1>1, <1>3, <2>1
    <3>2. RowOK(r, runs[r]) /\ now \in Time
      BY DEF RowsOK, TypeOK
    <3> QED BY <3>1, <3>2, StartedOK DEF RowStep
  <2>2. CASE r \notin acquired
    <3>1. runs'[r] = table[r] BY <1>1, <2>2
    <3> QED BY <1>2, <3>1, UnchangedRow DEF Recovered, RowStep, QuietStep
  <2> QED BY <2>1, <2>2
<1>5. runs' \in [Run -> RunRow]
  BY <1>1, <1>4 DEF RowOK
<1> QED BY <1>4, <1>5 DEF TableStep

\* What the holder of a claim does to its row.
LEMMA WorkerStep ==
  ASSUME TypeOK, RowsOK, NEW c \in claims, Worker(c)
  PROVE  QuietTable
<1>1. c.run \in Run /\ c.run[1] \in Job
  BY ConfigTypes DEF TypeOK, Claim
<1>2. RowOK(c.run, runs[c.run]) /\ now \in Time
  BY <1>1 DEF RowsOK, TypeOK
<1>3. Fence(c) /\ runs[c.run].state = "running"
  BY Zenon DEF Worker, renew_cron_run_lease, finish_cron_run, retry_cron_run,
         mark_cron_delivery_target, Fence
<1>4. CASE renew_cron_run_lease(c)
  <2> DEFINE new == [runs[c.run] EXCEPT !.lease_expires_at = now + LeaseTTL]
  <2>1. runs' = [runs EXCEPT ![c.run] = new]
    BY <1>4 DEF renew_cron_run_lease
  <2>2. now + LeaseTTL \in Nat /\ now + LeaseTTL # NULL
    BY <1>2, BoundsAssumption, NullAssumption DEF Time
  <2>3. RowOK(c.run, new) /\ Stays(runs[c.run], new)
    BY <1>2, <1>3, <2>2 DEF RowOK, Stays, SameRow, RunRow, TimeOrNull, TerminalStates
  <2> QED BY <1>1, <2>1, <2>3, OneRow, Zenon DEF QuietStep
<1>5. ASSUME NEW s \in {"finished", "failed", "timed_out"}, NEW w \in BOOLEAN,
             finish_cron_run(c, s, w)
      PROVE  QuietTable
  <2>1. runs' = [runs EXCEPT ![c.run] = Ended(runs[c.run], s)]
    BY <1>5 DEF finish_cron_run
  <2>2. RowOK(c.run, Ended(runs[c.run], s)) /\ EndedStep(runs[c.run], Ended(runs[c.run], s))
    BY <1>1, <1>2, <1>3, EndedOK DEF EndedStep, TerminalStates
  <2> QED BY <1>1, <2>1, <2>2, OneRow, Zenon DEF QuietStep
<1>6. CASE retry_cron_run(c)
  <2> DEFINE limit == IF Present(c.run[1]) THEN Config[c.run[1]].max_attempts ELSE 1
             new == RetriedOrFailed(runs[c.run], limit, Config[c.run[1]].retry_backoff)
  <2>1. runs' = [runs EXCEPT ![c.run] = new]
    BY <1>6 DEF retry_cron_run
  <2>2. limit \in Nat /\ limit <= Config[c.run[1]].max_attempts
    BY <1>1, ConfigTypes
  <2>3. RowOK(c.run, new) /\ (EndedStep(runs[c.run], new) \/ Requeued(c.run, runs[c.run], new))
    <3> HIDE DEF limit
    <3> QED BY <1>1, <1>2, <1>3, <2>2, RetriedOK DEF EndedStep, Requeued
  <2> QED BY <1>1, <2>1, <2>3, OneRow, Zenon DEF QuietStep
<1>7. ASSUME NEW t \in Target, mark_cron_delivery_target(c, t) PROVE QuietTable
  <2> DEFINE new == [runs[c.run] EXCEPT !.delivery_targets = @ \union {t}]
  <2>1. runs' = [runs EXCEPT ![c.run] = new]
    BY <1>7 DEF mark_cron_delivery_target
  <2>2. RowOK(c.run, new) /\ Stays(runs[c.run], new)
    BY <1>2, <1>3 DEF RowOK, Stays, SameRow, RunRow
  <2> QED BY <1>1, <2>1, <2>2, OneRow, Zenon DEF QuietStep
<1> QED BY <1>4, <1>5, <1>6, <1>7 DEF Worker

\* A step that does not touch cron_runs makes a QuietTable.
LEMMA SameTable ==
  ASSUME TypeOK, RowsOK, runs' = runs PROVE QuietTable
BY UnchangedRow DEF QuietTable, RowsOK, TypeOK

\* Every step of the store makes a QuietTable.
LEMMA NextKinds ==
  ASSUME TypeOK, RowsOK, [Next]_vars
  PROVE  \/ QuietTable /\ claims' = claims
         \/ \E S \in SUBSET Run : DeleteTerminal(S)
         \/ \E d \in Daemon : \E limit \in 1..MaxConcurrentRuns : acquire_cron_runs(d, limit)
<1> DEFINE Kind == \/ QuietTable /\ claims' = claims
                   \/ \E S \in SUBSET Run : DeleteTerminal(S)
                   \/ \E d \in Daemon : \E limit \in 1..MaxConcurrentRuns :
                        acquire_cron_runs(d, limit)
<1>1. CASE Tick BY <1>1, SameTable DEF Tick
<1>2. CASE AddJob BY <1>2, SameTable DEF AddJob, add_cron_job
<1>3. CASE Operator
  <2>1. ASSUME NEW j \in Job, NEW en \in BOOLEAN, NEW cq \in BOOLEAN,
               set_cron_job_enabled(j, en, cq)
        PROVE  Kind
    BY <2>1, SetEnabledStep, Zenon DEF set_cron_job_enabled
  <2>2. ASSUME NEW j \in Job, delete_cron_job(j) PROVE Kind
    BY <2>2, SameTable DEF delete_cron_job
  <2>3. ASSUME NEW j \in Job, trigger_task_run_now(j) PROVE Kind
    BY <2>3, TriggerStep, Zenon DEF TypeOK, trigger_task_run_now
  <2>4. ASSUME NEW j \in Job, NEW t \in Time, trigger_cron_run(j, t) PROVE Kind
    BY <2>4, TriggerStep, Zenon DEF trigger_cron_run
  <2>5. ASSUME NEW j \in Job, delete_terminal_cron_runs(j) PROVE Kind
    BY <2>5 DEF delete_terminal_cron_runs
  <2>6. ASSUME NEW p \in BOOLEAN, set_cron_scheduler_control(p) PROVE Kind
    BY <2>6, SameTable DEF set_cron_scheduler_control
  <2>7. CASE delete_old_cron_runs
    BY <2>7 DEF delete_old_cron_runs
  <2> QED BY <1>3, <2>1, <2>2, <2>3, <2>4, <2>5, <2>6, <2>7 DEF Operator
<1>4. CASE Scheduler
  <2>1. CASE recover_expired_cron_runs
    BY <2>1, RecoverStep DEF recover_expired_cron_runs
  <2>4. ASSUME NEW j \in Closable, set_cron_job_enabled(j, FALSE, FALSE) PROVE Kind
    BY <2>4, SetEnabledStep, Zenon DEF set_cron_job_enabled, Closable
  <2>2. ASSUME NEW d \in Daemon, NEW mj, enqueue_due_cron_runs(d, mj) PROVE Kind
    BY <2>2, EnqueueStep DEF enqueue_due_cron_runs
  <2>3. ASSUME NEW d \in Daemon, NEW limit \in 1..MaxConcurrentRuns, acquire_cron_runs(d, limit)
        PROVE  Kind
    BY <2>3
  <2> QED BY <1>4, <2>1, <2>2, <2>3, <2>4, Zenon DEF Scheduler
<1>5. CASE \E c \in claims : Worker(c)
  BY <1>5, WorkerStep, Zenon
  DEF Worker, renew_cron_run_lease, finish_cron_run, retry_cron_run, mark_cron_delivery_target
<1>6. CASE UNCHANGED vars BY <1>6, SameTable DEF vars
<1> QED BY <1>1, <1>2, <1>3, <1>4, <1>5, <1>6 DEF Next

\* Every step of the store moves each row by at most one step.
LEMMA NextTableStep ==
  ASSUME TypeOK, RowsOK, [Next]_vars
  PROVE  TableStep
<1>1. CASE QuietTable
  BY <1>1 DEF QuietTable, TableStep, RowStep
<1> QED BY <1>1, NextKinds, DeleteTerminalStep, AcquireStep

-----------------------------------------------------------------------------
(* Jobs                                                                    *)

\* Where a job's next_due_at goes when it is moved past now is a number.
LEMMA NextDueType ==
  ASSUME TypeOK, NEW j \in Job, IsDue(j)
  PROVE  NextDue(j) \in TimeOrNull
<1>1. now \in Nat /\ jobs[j].next_due_at \in Nat /\ jobs[j].next_due_at <= now
  BY NullAssumption, BoundsAssumption DEF TypeOK, IsDue, JobRow, TimeOrNull, Time
<1>2. CASE Config[j].kind = "at"
  BY <1>2 DEF NextDue, TimeOrNull
<1>3. CASE Config[j].kind # "at"
  <2> DEFINE p == Config[j].schedule
             n == jobs[j].next_due_at
             elapsed == (now - n) \div p + 1
             skipped == IF elapsed < MaxDueCandidates THEN elapsed ELSE MaxDueCandidates
  <2>1. p \in Nat \ {0}
    BY <1>3, ConfigAssumption DEF JobConfig
  <2>2. NextDue(j) = n + skipped * p
    BY <1>3 DEF NextDue
  <2>3. n \in Nat /\ now - n \in Nat
    BY <1>1
  <2> HIDE DEF p, n
  <2>4. (now - n) \div p \in Nat
    BY <2>1, <2>3
  <2>5. skipped \in Nat
    BY <2>4, BoundsAssumption
  <2> HIDE DEF skipped
  <2>6. skipped * p \in Nat
    BY <2>1, <2>5
  <2> QED BY <2>2, <2>3, <2>6 DEF TimeOrNull
<1> QED BY <1>2, <1>3

\* Job rows keep their type; a row is never brought back once deleted, and a
\* job that was never added has no rows among the runs.
JobsStep ==
  /\ jobs' \in [Job -> JobRow]
  /\ \A j \in Job : jobs'[j].row = "present" => jobs[j].row # "deleted"
  /\ \A j \in Job : jobs'[j].row = "new" => jobs[j].row = "new"

\* A step that does not touch cron_jobs is a JobsStep.
LEMMA SameJobs ==
  ASSUME TypeOK, jobs' = jobs PROVE JobsStep
BY DEF TypeOK, JobsStep

\* _initial_next_due is a number.
LEMMA InitialDueType ==
  ASSUME TypeOK, NEW j \in Job
  PROVE  _initial_next_due(j) \in TimeOrNull /\ _initial_next_due(j) # NULL
<1>1. Config[j].schedule \in Nat /\ now \in Nat
  BY ConfigAssumption, BoundsAssumption DEF JobConfig, TypeOK, Time
<1> QED BY <1>1, NullAssumption DEF _initial_next_due, TimeOrNull

\* Every step keeps the types of cron_jobs and brings no job back.
LEMMA NextJobsStep ==
  ASSUME TypeOK, [Next]_vars
  PROVE  JobsStep
<1> USE DEF JobsStep
<1>0. jobs \in [Job -> JobRow] /\ NULL \in TimeOrNull
  BY DEF TypeOK, TimeOrNull
<1>1. CASE Tick BY <1>1, SameJobs DEF Tick
<1>2. CASE AddJob
  <2>1. PICK j \in Job, en \in BOOLEAN : add_cron_job(j, en)
    BY <1>2 DEF AddJob
  <2> QED BY <1>0, <2>1, InitialDueType DEF add_cron_job, JobRow
<1>3. CASE Operator
  <2>1. ASSUME NEW j \in Job, NEW en \in BOOLEAN, NEW cq \in BOOLEAN,
               set_cron_job_enabled(j, en, cq)
        PROVE  JobsStep
    BY <1>0, <2>1, InitialDueType, ZenonT(30) DEF set_cron_job_enabled, JobRow, Present
  <2>2. ASSUME NEW j \in Job, delete_cron_job(j) PROVE JobsStep
    BY <1>0, <2>2 DEF delete_cron_job, Deleted, JobRow, Present
  <2> QED
    BY <1>3, <2>1, <2>2, SameJobs, Zenon
    DEF Operator, trigger_task_run_now, trigger_cron_run, delete_terminal_cron_runs,
        delete_old_cron_runs, DeleteTerminal, set_cron_scheduler_control
<1>4. CASE Scheduler
  <2>1. ASSUME NEW d \in Daemon, NEW mj, enqueue_due_cron_runs(d, mj) PROVE JobsStep
    <3> DEFINE table == _recover_expired_cron_runs_locked
               due == _due_job_rows(mj)
    <3>1. CASE paused BY <2>1, <3>1, SameJobs DEF enqueue_due_cron_runs
    <3>2. CASE ~paused
      <4>1. jobs' = [j \in Job |-> JobAfterEnqueue(table, due, j)]
        BY <2>1, <3>2 DEF enqueue_due_cron_runs
      <4> HIDE DEF table
      <4>2. ASSUME NEW j \in Job
            PROVE  /\ JobAfterEnqueue(table, due, j) \in JobRow
                   /\ JobAfterEnqueue(table, due, j).row = jobs[j].row
        <5>1. Admitted(table, due, j) => NextDue(j) \in TimeOrNull
          BY NextDueType DEF Admitted, HasRoom, _due_job_rows
        <5> QED BY <1>0, <5>1, Zenon DEF JobAfterEnqueue, JobRow
      <4> QED BY <4>1, <4>2
    <3> QED BY <3>1, <3>2
  <2>2. ASSUME NEW j \in Closable, set_cron_job_enabled(j, FALSE, FALSE) PROVE JobsStep
    <3>1. j \in Job BY DEF Closable
    <3> QED BY <1>0, <2>2, <3>1, Zenon DEF set_cron_job_enabled, JobRow, Present
  <2> QED
    BY <1>4, <2>1, <2>2, SameJobs, Zenon DEF Scheduler, recover_expired_cron_runs, acquire_cron_runs
<1>5. ASSUME NEW c \in claims, Worker(c) PROVE JobsStep
  <2>1. ASSUME NEW s \in {"finished", "failed", "timed_out"}, NEW w \in BOOLEAN,
               finish_cron_run(c, s, w)
        PROVE  JobsStep
    <3>1. c.run[1] \in Job
      BY ConfigTypes DEF TypeOK, Claim
    <3>2. jobs' = jobs \/ (Present(c.run[1]) /\ jobs' = _finalize_one_time_job_locked(c.run[1], s))
      BY <2>1 DEF finish_cron_run
    <3> DEFINE j == c.run[1]
    <3>3. CASE jobs' = jobs BY <3>3, SameJobs
    <3>4. CASE Present(j) /\ jobs' = Deleted(j)
      BY <1>0, <3>1, <3>4 DEF Deleted, JobRow, Present
    <3>5. CASE jobs' = [jobs EXCEPT ![j].enabled = FALSE, ![j].next_due_at = NULL]
      <4> HIDE DEF j
      <4> QED BY <1>0, <3>1, <3>5, ZenonT(30) DEF JobRow, j
    <3> QED BY <3>2, <3>3, <3>4, <3>5 DEF _finalize_one_time_job_locked
  <2> QED
    BY <1>5, <2>1, SameJobs, Zenon
    DEF Worker, renew_cron_run_lease, retry_cron_run, mark_cron_delivery_target
<1>6. CASE UNCHANGED vars BY <1>6, SameJobs DEF vars
<1> QED BY <1>1, <1>2, <1>3, <1>4, <1>5, <1>6 DEF Next

\* The instants of the model are numbers.
LEMMA TimeIsNat == Time \subseteq Nat
BY BoundsAssumption DEF Time

\* Only add_cron_job touches a job that was not added yet.
LEMMA NewJobsStay ==
  ASSUME TypeOK, [Next]_vars, ~AddJob, NEW j \in Job, jobs[j].row = "new"
  PROVE  jobs'[j] = jobs[j]
<1>0. jobs \in [Job -> JobRow] BY DEF TypeOK
<1>1. ASSUME NEW i \in Job, NEW en, NEW cq, set_cron_job_enabled(i, en, cq)
      PROVE  jobs'[j] = jobs[j]
  BY <1>0, <1>1 DEF set_cron_job_enabled, Present
<1>2. ASSUME NEW i \in Job, Present(i), jobs' = Deleted(i) PROVE jobs'[j] = jobs[j]
  BY <1>0, <1>2 DEF Deleted, Present
<1>3. CASE Operator
  BY <1>1, <1>2, <1>3, Zenon
  DEF Operator, delete_cron_job, trigger_task_run_now, trigger_cron_run,
      delete_terminal_cron_runs, delete_old_cron_runs, DeleteTerminal, set_cron_scheduler_control
<1>4. CASE Scheduler
  <2>1. ASSUME NEW d \in Daemon, NEW mj, enqueue_due_cron_runs(d, mj)
        PROVE  jobs'[j] = jobs[j]
    <3>1. j \notin _due_job_rows(mj)
      BY DEF _due_job_rows, IsDue, Present
    <3> QED BY <2>1, <3>1, Zenon DEF enqueue_due_cron_runs, JobAfterEnqueue, Admitted, HasRoom
  <2> QED
    BY <1>1, <1>4, <2>1, Zenon DEF Scheduler, recover_expired_cron_runs, acquire_cron_runs, Closable
<1>5. ASSUME NEW c \in claims, Worker(c) PROVE jobs'[j] = jobs[j]
  <2>1. ASSUME NEW s, NEW w, finish_cron_run(c, s, w) PROVE jobs'[j] = jobs[j]
    <3> DEFINE i == c.run[1]
    <3>1. i \in Job BY ConfigTypes DEF TypeOK, Claim
    <3>2. \/ jobs' = jobs
          \/ Present(i) /\ jobs' = Deleted(i)
          \/ Present(i) /\ jobs' = [jobs EXCEPT ![i].enabled = FALSE, ![i].next_due_at = NULL]
      BY <2>1 DEF finish_cron_run, _finalize_one_time_job_locked
    <3> HIDE DEF i
    <3>3. CASE Present(i) /\ jobs' = [jobs EXCEPT ![i].enabled = FALSE, ![i].next_due_at = NULL]
      BY <1>0, <3>1, <3>3 DEF Present
    <3> QED BY <1>2, <3>1, <3>2, <3>3, Zenon
  <2> QED
    BY <1>5, <2>1, Zenon
    DEF Worker, renew_cron_run_lease, retry_cron_run, mark_cron_delivery_target
<1> QED BY <1>3, <1>4, <1>5 DEF Next, Tick, vars

\* A job that is present, enabled and without a due time, and was not just
\* before, has been handled by enqueue_due_cron_runs.
LEMMA LosesDueTime ==
  ASSUME TypeOK, [Next]_vars, NEW j \in Job, jobs'[j] # jobs[j],
         jobs'[j].row = "present", jobs'[j].enabled, jobs'[j].next_due_at = NULL
  PROVE  \E d \in Daemon : \E mj \in 1..MaxJobs :
           LET table == _recover_expired_cron_runs_locked
               due == _due_job_rows(mj)
           IN  /\ enqueue_due_cron_runs(d, mj)
               /\ ~paused
               /\ Admitted(table, due, j)
               /\ ~ScheduleMissed(table, j)
<1> DEFINE Handled(d, mj) ==
             /\ enqueue_due_cron_runs(d, mj)
             /\ ~paused
             /\ Admitted(_recover_expired_cron_runs_locked, _due_job_rows(mj), j)
             /\ ~ScheduleMissed(_recover_expired_cron_runs_locked, j)
<1>0. jobs \in [Job -> JobRow] /\ jobs[j] \in JobRow BY DEF TypeOK
<1>1. ASSUME NEW i \in Job, NEW en \in BOOLEAN, NEW cq \in BOOLEAN, set_cron_job_enabled(i, en, cq)
      PROVE  FALSE
  <2>1. i = j /\ jobs' = [jobs EXCEPT ![i].enabled = en,
                             ![i].next_due_at = IF en THEN _initial_next_due(i) ELSE NULL]
    BY <1>0, <1>1 DEF set_cron_job_enabled
  <2>2. jobs'[j].enabled = en /\ jobs'[j].next_due_at = IF en THEN _initial_next_due(j) ELSE NULL
    BY <1>0, <2>1 DEF JobRow
  <2> QED BY <2>2, InitialDueType
<1>2. ASSUME NEW i \in Job, jobs' = Deleted(i) PROVE FALSE
  BY <1>0, <1>2 DEF Deleted
<1>3. CASE Operator
  BY <1>1, <1>2, <1>3, Zenon
  DEF Operator, delete_cron_job, trigger_task_run_now, trigger_cron_run,
      delete_terminal_cron_runs, delete_old_cron_runs, DeleteTerminal, set_cron_scheduler_control
<1>4. CASE Scheduler
  <2>1. ASSUME NEW d \in Daemon, NEW mj, enqueue_due_cron_runs(d, mj)
        PROVE  Handled(d, mj)
    <3> DEFINE table == _recover_expired_cron_runs_locked
               due == _due_job_rows(mj)
    <3>1. ~paused /\ jobs'[j] = JobAfterEnqueue(table, due, j)
      BY <2>1 DEF enqueue_due_cron_runs
    <3> HIDE DEF table, due
    <3>2. [jobs[j] EXCEPT !.enabled = FALSE, !.next_due_at = NULL].enabled = FALSE
      BY <1>0 DEF JobRow
    <3>3. Admitted(table, due, j) /\ ~ScheduleMissed(table, j)
      BY <3>1, <3>2 DEF JobAfterEnqueue
    <3> QED BY <2>1, <3>1, <3>3 DEF table, due
  <2>2. ASSUME NEW d \in Daemon, NEW mj \in 1..MaxJobs, enqueue_due_cron_runs(d, mj)
        PROVE  \E e \in Daemon : \E m \in 1..MaxJobs : Handled(e, m)
    BY <2>1, <2>2
  <2> HIDE DEF Handled
  <2>3. \E e \in Daemon : \E m \in 1..MaxJobs : Handled(e, m)
    BY <1>1, <1>4, <2>2, Zenon DEF Scheduler, recover_expired_cron_runs, acquire_cron_runs, Closable
  <2> QED BY <2>3 DEF Handled
<1>5. ASSUME NEW c \in claims, Worker(c) PROVE FALSE
  <2>1. ASSUME NEW s, NEW w, finish_cron_run(c, s, w) PROVE FALSE
    <3> DEFINE i == c.run[1]
    <3>1. i \in Job BY ConfigTypes DEF TypeOK, Claim
    <3>2. \/ jobs' = jobs
          \/ jobs' = Deleted(i)
          \/ jobs' = [jobs EXCEPT ![i].enabled = FALSE, ![i].next_due_at = NULL]
      BY <2>1 DEF finish_cron_run, _finalize_one_time_job_locked
    <3> HIDE DEF i
    <3>3. CASE jobs' = [jobs EXCEPT ![i].enabled = FALSE, ![i].next_due_at = NULL]
      <4>1. i = j BY <1>0, <3>1, <3>3
      <4>2. jobs'[j].enabled = FALSE BY <1>0, <3>1, <3>3, <4>1 DEF JobRow
      <4> QED BY <4>2
    <3> QED BY <1>2, <3>1, <3>2, <3>3, Zenon
  <2> QED
    BY <1>5, <2>1, Zenon
    DEF Worker, renew_cron_run_lease, retry_cron_run, mark_cron_delivery_target
<1>6. CASE AddJob
  <2>1. PICK i \in Job, en \in BOOLEAN : add_cron_job(i, en)
    BY <1>6 DEF AddJob
  <2>2. i = j BY <1>0, <2>1 DEF add_cron_job
  <2>3. jobs'[j] = [row |-> "present", enabled |-> en,
                    next_due_at |-> IF en THEN _initial_next_due(j) ELSE NULL]
    BY <1>0, <2>1, <2>2 DEF add_cron_job
  <2> QED BY <2>3, InitialDueType
<1> QED BY <1>3, <1>4, <1>5, <1>6, Zenon DEF Next, Tick, vars


-----------------------------------------------------------------------------
(* The inductive invariant                                                 *)

\* A lease is on a row that exists.
ClaimsOnRows == \A c \in claims : runs[c.run].state # "none"

\* Only a job that was added has rows.
RowsHaveJobs == \A r \in Run : runs[r].state # "none" => jobs[r[1]].row # "new"

\* The name a watermark holds was used by a row.
WatermarkWasUsed == \A k \in Scope : scope_state[k] # NULL => runs[scope_state[k]].run_id > 0

IInv ==
  /\ TypeOK
  /\ RowsOK
  /\ ClaimsOnRows
  /\ RowsHaveJobs
  /\ WatermarkWasUsed
  /\ FencingTokens
  /\ ScopeMutex
  /\ WatermarkIsSuccess

\* The empty tables satisfy IInv.
LEMMA InitIInv == Init => IInv
<1> SUFFICES ASSUME Init PROVE IInv OBVIOUS
<1>1. TypeOK
  <2>1. now \in Time /\ calls \in 0..MaxCalls
    BY BoundsAssumption DEF Init, Time
  <2>2. jobs \in [Job -> JobRow]
    BY DEF Init, JobRow, TimeOrNull
  <2>3. runs \in [Run -> RunRow]
    BY DEF Init, RunRow, RunStates, TimeOrNull
  <2>4. paused \in BOOLEAN /\ scope_state \in [Scope -> Run \union {NULL}] /\ claims \subseteq Claim
    BY Zenon DEF Init
  <2> QED BY <2>1, <2>2, <2>3, <2>4 DEF TypeOK
<1>2. RowsOK
  <2> SUFFICES ASSUME NEW r \in Run PROVE RowOK(r, runs[r]) BY DEF RowsOK
  <2>1. runs[r] \in RunRow BY <1>1 DEF TypeOK
  <2>2. runs[r].state = "none" /\ runs[r].attempts = 0 BY DEF Init
  <2> QED BY <2>1, <2>2, ConfigTypes DEF RowOK, TerminalStates
<1> QED
  BY <1>1, <1>2
  DEF Init, IInv, ClaimsOnRows, RowsHaveJobs, WatermarkWasUsed, FencingTokens, ScopeMutex, WatermarkIsSuccess

\* Who creates a row: a user, with trigger_task_run_now or trigger_cron_run,
\* or the enqueueing of a job that is due and has room.
CreatedByCall(r) ==
  /\ calls' = calls + 1
  /\ \/ trigger_task_run_now(r[1]) /\ r[2] = now
     \/ trigger_cron_run(r[1], r[2])

CreatedAsDue(r) ==
  \E d \in Daemon : \E mj \in 1..MaxJobs :
    LET table == _recover_expired_cron_runs_locked
        due == _due_job_rows(mj)
    IN  /\ enqueue_due_cron_runs(d, mj)
        /\ ~paused
        /\ Admitted(table, due, r[1])
        /\ \/ r[2] \in InsertedPoints(table, r[1])
           \/ ScheduleMissed(table, r[1]) /\ runs'[r].state = "failed"

\* Every new row is accounted for by one of the two.
LEMMA CreatedBy ==
  ASSUME TypeOK, RowsOK, [Next]_vars, NEW r \in Run,
         runs[r].state = "none", runs'[r].state # "none"
  PROVE  CreatedByCall(r) \/ CreatedAsDue(r)
<1>2. r = <<r[1], r[2]>> /\ runs \in [Run -> RunRow]
  BY DEF Run, TypeOK
<1>3. runs' # runs /\ runs'[r] # runs[r] OBVIOUS
<1>4. CASE Operator
  <2>0. calls' = calls + 1 BY <1>4 DEF Operator
  <2>1. ASSUME NEW j \in Job, trigger_task_run_now(j) PROVE CreatedByCall(r)
    <3>1. r = <<j, now>>
      BY <1>2, <1>3, <2>1 DEF trigger_task_run_now
    <3> QED BY <2>0, <2>1, <3>1 DEF CreatedByCall
  <2>5. ASSUME NEW j \in Job, NEW t \in Time, trigger_cron_run(j, t) PROVE CreatedByCall(r)
    <3>1. r = <<j, t>>
      BY <1>2, <1>3, <2>5 DEF trigger_cron_run
    <3> QED BY <2>0, <2>5, <3>1 DEF CreatedByCall
  <2>2. ASSUME NEW j \in Job, NEW en \in BOOLEAN, NEW cq \in BOOLEAN,
               set_cron_job_enabled(j, en, cq)
        PROVE  FALSE
    BY <1>3, <2>2 DEF set_cron_job_enabled
  <2>3. ASSUME NEW S \in SUBSET Run, DeleteTerminal(S) PROVE FALSE
    BY <1>3, <2>3 DEF DeleteTerminal, TerminalStates
  <2> QED
    BY <1>3, <1>4, <2>1, <2>2, <2>3, <2>5, Zenon
    DEF Operator, delete_cron_job, set_cron_scheduler_control, delete_terminal_cron_runs,
        delete_old_cron_runs
<1>5. CASE Scheduler
  <2> DEFINE table == _recover_expired_cron_runs_locked
  <2>1. table[r] = runs[r]
    BY RecoverOK DEF Recovered, EndedStep, Requeued
  <2>2. ASSUME NEW d \in Daemon, NEW mj \in 1..MaxJobs, enqueue_due_cron_runs(d, mj)
        PROVE  CreatedAsDue(r)
    <3> DEFINE due == _due_job_rows(mj)
    <3>1. ~paused /\ runs' = [q \in Run |-> RunAfterEnqueue(table, due, q, d)]
      BY <1>3, <2>1, <2>2 DEF enqueue_due_cron_runs
    <3>2. runs'[r] = RunAfterEnqueue(table, due, r, d) BY <3>1
    <3> HIDE DEF table, due
    <3>3. Admitted(table, due, r[1])
      BY <1>3, <2>1, <3>2 DEF RunAfterEnqueue
    <3>4. \/ r[2] \in InsertedPoints(table, r[1])
          \/ ScheduleMissed(table, r[1]) /\ runs'[r].state = "failed"
      BY <1>3, <2>1, <3>2, <3>3 DEF RunAfterEnqueue, NewRow
    <3> QED BY <2>2, <3>1, <3>3, <3>4, Zenon DEF CreatedAsDue, table, due
  <2>3. ASSUME NEW d \in Daemon, NEW limit \in 1..MaxConcurrentRuns, acquire_cron_runs(d, limit)
        PROVE FALSE
    BY <1>3, <2>1, <2>3, AcquiredWasQueued DEF acquire_cron_runs
  <2>4. ASSUME NEW j \in Closable, set_cron_job_enabled(j, FALSE, FALSE) PROVE FALSE
    BY <1>3, <2>4 DEF set_cron_job_enabled
  <2> QED
    BY <1>3, <1>5, <2>1, <2>2, <2>3, <2>4, Zenon DEF Scheduler, recover_expired_cron_runs
<1>6. ASSUME NEW c \in claims, Worker(c) PROVE FALSE
  BY <1>2, <1>3, <1>6, Zenon
  DEF Worker, Fence, renew_cron_run_lease, finish_cron_run, retry_cron_run,
      mark_cron_delivery_target
<1> QED BY <1>3, <1>4, <1>5, <1>6 DEF Next, Tick, AddJob, add_cron_job, vars

\* So it belongs to a job that was added.
LEMMA CreatedHasJob ==
  ASSUME IInv, [Next]_vars, NEW r \in Run,
         runs[r].state = "none", runs'[r].state # "none"
  PROVE  jobs[r[1]].row # "new"
<1>1. CreatedByCall(r) \/ CreatedAsDue(r) BY CreatedBy DEF IInv
<1>2. CASE CreatedByCall(r)
  BY <1>2 DEF CreatedByCall, trigger_task_run_now, trigger_cron_run, Present
<1>3. CASE CreatedAsDue(r)
  BY <1>3 DEF CreatedAsDue, Admitted, HasRoom, _due_job_rows, IsDue, Present
<1> QED BY <1>1, <1>2, <1>3

\* A watermark moves only to a run that finishes in the same transaction.
LEMMA ScopeStateStep ==
  ASSUME TypeOK, [Next]_vars
  PROVE  \/ scope_state' = scope_state
         \/ \E r \in Run, k \in Scope :
              /\ scope_state' = [scope_state EXCEPT ![k] = r]
              /\ runs'[r].state = "finished"
<1> DEFINE Goal == \/ scope_state' = scope_state
                   \/ \E r \in Run, k \in Scope :
                        /\ scope_state' = [scope_state EXCEPT ![k] = r]
                        /\ runs'[r].state = "finished"
<1>1. ASSUME NEW c \in claims, Worker(c) PROVE Goal
  <2>1. ASSUME NEW s \in {"finished", "failed", "timed_out"}, NEW w \in BOOLEAN,
               finish_cron_run(c, s, w), scope_state' # scope_state
        PROVE  Goal
    <3>1. c.run \in Run /\ runs \in [Run -> RunRow] /\ Key(c.run[1]) \in Scope \union {NULL}
      BY ConfigTypes DEF TypeOK, Claim, Key, JobConfig
    <3>2. scope_state' = [scope_state EXCEPT ![Key(c.run[1])] = c.run]
          /\ s = "finished" /\ Key(c.run[1]) # NULL
      BY <2>1 DEF finish_cron_run, _persist_scope_watermark_locked
    <3>3. runs'[c.run] = Ended(runs[c.run], "finished")
      BY <2>1, <3>1, <3>2 DEF finish_cron_run
    <3>4. runs'[c.run].state = "finished"
      BY <3>1, <3>3 DEF Ended, Unleased, RunRow
    <3> QED BY <3>1, <3>2, <3>4, Zenon
  <2> QED
    BY <1>1, <2>1, Zenon
    DEF Worker, renew_cron_run_lease, retry_cron_run, mark_cron_delivery_target
<1> QED
  BY <1>1, Zenon
  DEF Next, vars, Tick, AddJob, add_cron_job, Operator, set_cron_job_enabled, delete_cron_job,
      trigger_task_run_now, trigger_cron_run, delete_terminal_cron_runs, delete_old_cron_runs,
      DeleteTerminal, set_cron_scheduler_control, Scheduler, recover_expired_cron_runs,
      enqueue_due_cron_runs, acquire_cron_runs

\* A lease handed out by acquire_cron_runs is on a row that was queued, and
\* carries a number above every lease on it so far.
LEMMA NewClaim ==
  ASSUME IInv, NEW d \in Daemon, NEW limit, acquire_cron_runs(d, limit),
         NEW c \in claims', c \notin claims
  PROVE  /\ c \in Claim
         /\ c.owner = d
         /\ runs[c.run].state = "queued"
         /\ runs'[c.run].run_id = c.run_id
         /\ runs'[c.run].attempts = c.attempts
         /\ c.attempts = runs[c.run].attempts + 1
<1> DEFINE table == _recover_expired_cron_runs_locked
           acquired == IF paused THEN {} ELSE Acquired(table, d, limit)
<1>1. TypeOK /\ RowsOK BY DEF IInv
<1>2. /\ runs' = [r \in Run |-> IF r \in acquired THEN StartedRow(table[r], d) ELSE table[r]]
      /\ claims' = claims \union {ClaimOn(table, r, d) : r \in acquired}
  BY DEF acquire_cron_runs
<1>3. \A r \in acquired : r \in Run /\ table[r] = runs[r] /\ runs[r].state = "queued"
  BY <1>1, AcquiredWasQueued
<1> HIDE DEF table, acquired
<1>4. PICK r \in acquired : c = ClaimOn(table, r, d)
  BY <1>2
<1>5. r \in Run /\ table[r] = runs[r] /\ runs[r] \in RunRow /\ runs[r].state = "queued"
  BY <1>1, <1>3 DEF TypeOK
<1>6. /\ c.run = r /\ c.owner = d /\ c.run_id = runs[r].run_id
      /\ c.attempts = runs[r].attempts + 1 /\ c \in Claim
  BY <1>4, <1>5 DEF ClaimOn, Claim, RunRow
<1>7. runs'[r] = StartedRow(runs[r], d)
  BY <1>2, <1>5
<1>8. runs'[r].run_id = runs[r].run_id /\ runs'[r].attempts = runs[r].attempts + 1
  BY <1>5, <1>7 DEF StartedRow, RunRow
<1> QED BY <1>5, <1>6, <1>8

\* Only Tick moves the clock and only set_cron_scheduler_control the flag.
LEMMA ClockAndPause ==
  ASSUME [Next]_vars
  PROVE  /\ now' = now \/ (now < MaxTime /\ now' = now + 1)
         /\ paused' = paused \/ \E p \in BOOLEAN : paused' = p
BY Zenon DEF Next, vars, Tick, AddJob, add_cron_job, Operator, set_cron_job_enabled,
      delete_cron_job, trigger_task_run_now, trigger_cron_run, delete_terminal_cron_runs,
      delete_old_cron_runs, DeleteTerminal, set_cron_scheduler_control, Scheduler,
      recover_expired_cron_runs, enqueue_due_cron_runs, acquire_cron_runs, Worker,
      renew_cron_run_lease, finish_cron_run, retry_cron_run, mark_cron_delivery_target

\* Every step keeps the types.
LEMMA NextTypeOK ==
  ASSUME IInv, [Next]_vars
  PROVE  TypeOK' /\ RowsOK'
<1>1. TypeOK /\ RowsOK BY DEF IInv
<1>2. TableStep BY <1>1, NextTableStep
<1>3. RowsOK' BY <1>2 DEF TableStep, RowsOK
<1>4. now' \in Time
  BY <1>1, ClockAndPause, BoundsAssumption DEF TypeOK, Time
<1>5. paused' \in BOOLEAN
  <2>1. CASE paused' = paused BY <1>1, <2>1 DEF TypeOK
  <2>2. ASSUME NEW p \in BOOLEAN, paused' = p PROVE paused' \in BOOLEAN BY <2>2
  <2> QED BY <2>1, <2>2, ClockAndPause
<1>6. calls' \in 0..MaxCalls
  <2>1. calls' = calls \/ (calls < MaxCalls /\ calls' = calls + 1)
    BY Zenon DEF Next, vars, Tick, AddJob, Operator, Scheduler, Worker
  <2> QED BY <1>1, <2>1, BoundsAssumption DEF TypeOK
<1>7. scope_state' \in [Scope -> Run \union {NULL}]
  BY <1>1, ScopeStateStep DEF TypeOK
<1>8. claims' \subseteq Claim
  BY <1>1, NextKinds, NewClaim DEF TypeOK, DeleteTerminal
<1>9. JobsStep BY <1>1, NextJobsStep
<1> QED BY <1>2, <1>3, <1>4, <1>5, <1>6, <1>7, <1>8, <1>9 DEF TypeOK, TableStep, JobsStep

\* Every step keeps RowsHaveJobs.
LEMMA NextRowsHaveJobs ==
  ASSUME IInv, [Next]_vars
  PROVE  RowsHaveJobs'
<1>1. TypeOK /\ RowsOK BY DEF IInv
<1>2. JobsStep BY <1>1, NextJobsStep
<1> SUFFICES ASSUME NEW r \in Run, runs'[r].state # "none" PROVE jobs'[r[1]].row # "new"
  BY DEF RowsHaveJobs
<1>3. jobs[r[1]].row # "new"
  BY CreatedHasJob DEF IInv, RowsHaveJobs
<1> QED BY <1>2, <1>3, ConfigTypes DEF JobsStep

\* Deleting history forgets the leases on the rows it deletes; quiet steps
\* and acquire_cron_runs delete no row.
LEMMA NextClaims ==
  ASSUME IInv, [Next]_vars
  PROVE  ClaimsOnRows' /\ FencingTokens'
<1>1. TypeOK /\ RowsOK /\ ClaimsOnRows /\ FencingTokens BY DEF IInv
<1>2. \A c \in claims : c \in Claim /\ c.run \in Run /\ c.attempts \in Nat
  BY <1>1 DEF TypeOK, Claim
<1>3. \A r \in Run : runs[r] \in RunRow /\ runs[r].attempts \in Nat
  BY <1>1 DEF TypeOK, RunRow
<1>4. CASE QuietTable /\ claims' = claims
  <2>1. ASSUME NEW c \in claims
        PROVE  /\ runs'[c.run].state # "none"
               /\ runs'[c.run].run_id = runs[c.run].run_id
               /\ runs'[c.run].attempts = runs[c.run].attempts
    BY <1>1, <1>2, <1>4
    DEF QuietTable, QuietStep, ClaimsOnRows, Stays, Created, Requeued, EndedStep, Cancelled, SameRow
  <2> QED BY <1>1, <1>4, <2>1 DEF ClaimsOnRows, FencingTokens
<1>5. ASSUME NEW S \in SUBSET Run, DeleteTerminal(S) PROVE ClaimsOnRows' /\ FencingTokens'
  <2>1. \A c \in claims' : c \in claims /\ runs'[c.run] = runs[c.run]
    BY <1>2, <1>5 DEF DeleteTerminal
  <2> QED BY <1>1, <2>1 DEF ClaimsOnRows, FencingTokens
<1>6. ASSUME NEW d \in Daemon, NEW limit, acquire_cron_runs(d, limit)
      PROVE  ClaimsOnRows' /\ FencingTokens'
  <2>1. TableStep BY <1>1, <1>6, AcquireStep
  <2>2. ASSUME NEW r \in Run, runs[r].state # "none"
        PROVE  /\ runs'[r].state # "none"
               /\ runs'[r].run_id = runs[r].run_id
               /\ runs'[r].attempts \in Nat
               /\ runs'[r].attempts >= runs[r].attempts
    <3> DEFINE table == _recover_expired_cron_runs_locked
               acquired == IF paused THEN {} ELSE Acquired(table, d, limit)
    <3>1. runs'[r] = IF r \in acquired THEN StartedRow(table[r], d) ELSE table[r]
      BY <1>6 DEF acquire_cron_runs
    <3>2. CASE r \in acquired
      BY <1>1, <1>3, <3>1, <3>2, AcquiredWasQueued DEF StartedRow, RunRow
    <3>3. CASE r \notin acquired
      BY <1>1, <1>3, <2>2, <3>1, <3>3, RecoverOK
      DEF Recovered, EndedStep, Requeued, SameRow
    <3> QED BY <3>2, <3>3
  <2>3. ASSUME NEW c \in claims'
        PROVE  /\ runs[c.run].state # "none" /\ c.run \in Run /\ c \in Claim
               /\ runs'[c.run].run_id = c.run_id
               /\ c.attempts <= runs'[c.run].attempts
    <3>1. CASE c \in claims
      BY <1>1, <1>2, <1>3, <2>2, <3>1 DEF ClaimsOnRows, FencingTokens
    <3>2. CASE c \notin claims
      <4>1. /\ c \in Claim /\ runs[c.run].state = "queued"
            /\ runs'[c.run].run_id = c.run_id /\ runs'[c.run].attempts = c.attempts
        BY <1>6, <3>2, NewClaim
      <4> QED BY <4>1 DEF Claim
    <3> QED BY <3>1, <3>2
  <2>4. ASSUME NEW c \in claims', NEW e \in claims', c.run = e.run, c.attempts = e.attempts
        PROVE  c.owner = e.owner
    <3>1. CASE c \in claims /\ e \in claims
      BY <1>1, <2>4, <3>1 DEF FencingTokens
    <3>2. CASE c \notin claims /\ e \notin claims
      BY <1>6, <3>2, NewClaim
    <3>3. ASSUME NEW x \in claims', NEW y \in claims, x \notin claims,
                 x.run = y.run, x.attempts = y.attempts
          PROVE  FALSE
      <4>1. x.attempts = runs[x.run].attempts + 1
        BY <1>6, <3>3, NewClaim
      <4>2. y.attempts <= runs[y.run].attempts /\ y.run \in Run
        BY <1>1, <1>2 DEF FencingTokens
      <4> QED BY <1>3, <3>3, <4>1, <4>2
    <3> QED BY <2>4, <3>1, <3>2, <3>3
  <2> QED BY <2>2, <2>3, <2>4 DEF ClaimsOnRows, FencingTokens
<1> QED BY <1>1, <1>4, <1>5, <1>6, NextKinds

\* Every step keeps the watermarks on runs that finished.
LEMMA NextWatermark ==
  ASSUME IInv, [Next]_vars
  PROVE  WatermarkIsSuccess' /\ WatermarkWasUsed'
<1>1. TypeOK /\ RowsOK /\ WatermarkIsSuccess /\ WatermarkWasUsed BY DEF IInv
<1>2. TableStep BY <1>1, NextTableStep
<1> SUFFICES ASSUME NEW k \in Scope, scope_state'[k] # NULL
             PROVE  /\ \/ runs'[scope_state'[k]].state \in {"finished", "none"}
                       \/ runs'[scope_state'[k]].run_id > 1
                    /\ runs'[scope_state'[k]].run_id > 0
  BY DEF WatermarkIsSuccess, WatermarkWasUsed
<1>3. CASE scope_state'[k] = scope_state[k]
  <2> DEFINE r == scope_state[k]
  <2>1. r \in Run /\ runs[r] \in RunRow /\ runs'[r] \in RunRow
    BY <1>1, <1>2, <1>3 DEF TypeOK, TableStep
  <2>2. RowStep(r, runs[r], runs'[r])
    BY <1>2, <2>1 DEF TableStep
  <2>3. runs[r].run_id \in Nat /\ runs[r].run_id > 0
        /\ (runs[r].state \in {"finished", "none"} \/ runs[r].run_id > 1)
    BY <1>1, <1>3, <2>1 DEF WatermarkIsSuccess, WatermarkWasUsed, RunRow
  <2> HIDE DEF r
  <2>4. /\ runs'[r].state \in {"finished", "none"} \/ runs'[r].run_id > 1
        /\ runs'[r].run_id > 0
    BY <2>2, <2>3
    DEF RowStep, QuietStep, Stays, Created, StartedStep, Requeued, EndedStep, Cancelled, Purged,
        SameRow
  <2> QED BY <1>3, <2>4 DEF r
<1>4. CASE scope_state'[k] # scope_state[k]
  <2>1. scope_state'[k] \in Run /\ runs'[scope_state'[k]].state = "finished"
    BY <1>1, <1>4, ScopeStateStep DEF TypeOK
  <2> QED BY <1>2, <2>1 DEF TableStep, RowOK
<1> QED BY <1>3, <1>4

\* ORDER BY due_at, rowid is total on the rows.
LEMMA RunPrecedesTotal ==
  ASSUME NEW q \in Run, NEW r \in Run, q # r
  PROVE  RunPrecedes(q, r) \/ RunPrecedes(r, q)
<1>1. q = <<q[1], q[2]>> /\ r = <<r[1], r[2]>> /\ q[1] \in Job /\ r[1] \in Job
  BY DEF Run
<1>2. q[2] \in Nat /\ r[2] \in Nat
  BY BoundsAssumption DEF Run, Time
<1>3. Config[q[1]].rowid \in Nat /\ Config[r[1]].rowid \in Nat
  BY <1>1, ConfigAssumption DEF JobConfig
<1>4. q[2] = r[2] => Config[q[1]].rowid # Config[r[1]].rowid
  BY <1>1, ConfigAssumption
<1> QED BY <1>2, <1>3, <1>4 DEF RunPrecedes


\* acquire_cron_runs starts at most one run of a scope, and none when one is
\* running: ORDER BY is total, so two candidates of a scope cannot both be
\* the first.
LEMMA AcquireScopeMutex ==
  ASSUME IInv, NEW d \in Daemon, NEW limit, acquire_cron_runs(d, limit)
  PROVE  ScopeMutex'
<1> DEFINE table == _recover_expired_cron_runs_locked
           acquired == IF paused THEN {} ELSE Acquired(table, d, limit)
<1>1. TypeOK /\ RowsOK /\ ScopeMutex BY DEF IInv
<1>2. jobs' = jobs
      /\ runs' = [r \in Run |-> IF r \in acquired THEN StartedRow(table[r], d) ELSE table[r]]
  BY DEF acquire_cron_runs
<1>3. Recovered(table) BY <1>1, RecoverOK
<1>4. acquired \subseteq Run /\ \A r \in acquired : Present(r[1])
  BY <1>1, AcquiredWasQueued
<1>5. \A r \in acquired : Key(r[1]) # NULL =>
        /\ ~_scope_has_running_run_locked(table, Key(r[1]), r)
        /\ \A q \in acquired : RunPrecedes(q, r) => Key(q[1]) # Key(r[1])
  BY DEF Acquired
<1> HIDE DEF table, acquired
<1> SUFFICES ASSUME NEW q \in Run, NEW r \in Run,
                    runs'[q].state = "running", runs'[r].state = "running",
                    Present(q[1]), Present(r[1]), Key(q[1]) # NULL, Key(q[1]) = Key(r[1]),
                    q # r
             PROVE  FALSE
  BY <1>2 DEF ScopeMutex, Present
<1>6. CASE q \in acquired /\ r \in acquired
  BY <1>5, <1>6, RunPrecedesTotal, Zenon
<1>7. CASE q \in acquired /\ r \notin acquired
  <2>1. table[r].state = "running" BY <1>2, <1>7
  <2> QED BY <1>5, <1>7, <2>1 DEF _scope_has_running_run_locked, InScope
<1>8. CASE q \notin acquired /\ r \in acquired
  <2>1. table[q].state = "running" BY <1>2, <1>8
  <2> QED BY <1>5, <1>8, <2>1 DEF _scope_has_running_run_locked, InScope
<1>9. CASE q \notin acquired /\ r \notin acquired
  <2>1. table[q].state = "running" /\ table[r].state = "running" BY <1>2, <1>9
  <2>2. runs[q].state = "running" /\ runs[r].state = "running"
    BY <1>3, <2>1, Zenon DEF Recovered, EndedStep, Requeued
  <2> QED BY <1>1, <2>2 DEF ScopeMutex
<1> QED BY <1>6, <1>7, <1>8, <1>9

\* Every step keeps the scopes exclusive: only acquire_cron_runs starts rows.
LEMMA NextScopeMutex ==
  ASSUME IInv, [Next]_vars
  PROVE  ScopeMutex'
<1>1. TypeOK /\ RowsOK /\ ScopeMutex /\ RowsHaveJobs BY DEF IInv
<1>2. JobsStep BY <1>1, NextJobsStep
<1>3. ASSUME \A r \in Run : runs'[r].state = "running" => runs[r].state = "running"
      PROVE  ScopeMutex'
  <2>1. ASSUME NEW r \in Run, runs'[r].state = "running", jobs'[r[1]].row = "present"
        PROVE  runs[r].state = "running" /\ Present(r[1])
    <3>1. jobs[r[1]].row \in {"new", "present", "deleted"} /\ r[1] \in Job
      BY <1>1, ConfigTypes DEF TypeOK, JobRow
    <3> QED BY <1>1, <1>2, <1>3, <2>1, <3>1 DEF JobsStep, RowsHaveJobs, Present
  <2> QED BY <1>1, <2>1 DEF ScopeMutex, Present, Key
<1>4. CASE QuietTable
  BY <1>3, <1>4
  DEF QuietTable, QuietStep, Stays, SameRow, Created, Requeued, EndedStep, Cancelled
<1>5. ASSUME NEW S \in SUBSET Run, DeleteTerminal(S) PROVE ScopeMutex'
  BY <1>3, <1>5, Zenon DEF DeleteTerminal
<1> QED BY <1>1, <1>4, <1>5, NextKinds, AcquireScopeMutex



\* A row becomes active only by being created.
LEMMA ActiveWas ==
  ASSUME TypeOK, RowsOK, [Next]_vars, NEW r \in Run, IsActive(runs'[r])
  PROVE  IsActive(runs[r]) \/ runs[r].state = "none"
BY NextTableStep
DEF TableStep, RowStep, QuietStep, Stays, SameRow, Created, StartedStep, Requeued, EndedStep,
    Cancelled, Purged, IsActive




\* IInv is inductive.
LEMMA NextIInv == IInv /\ [Next]_vars => IInv'
BY NextTypeOK, NextRowsHaveJobs, NextClaims, NextWatermark, NextScopeMutex
DEF IInv

\* IInv is an invariant of the cron tables.
THEOREM Inductive == Spec => []IInv
<1>1. Init => IInv BY InitIInv
<1>2. IInv /\ [Next]_vars => IInv' BY NextIInv
<1> QED BY <1>1, <1>2, PTL DEF Spec

-----------------------------------------------------------------------------
(* The theorems                                                            *)

\* Every column keeps its type.
THEOREM TypeCorrectness == Spec => []TypeOK
<1>1. IInv => TypeOK BY DEF IInv
<1> QED BY <1>1, Inductive, PTL

\* At most one run of a concurrency_key is running, however many jobs share
\* it and however many daemons acquire (acquire_cron_runs).
THEOREM ScopeMutexHolds == Spec => []ScopeMutex
<1>1. IInv => ScopeMutex BY DEF IInv
<1> QED BY <1>1, Inductive, PTL

\* The pair (lease_owner, attempts) fences a superseded worker out.
THEOREM FencingHolds == Spec => []FencingTokens
<1>1. IInv => FencingTokens BY DEF IInv
<1> QED BY <1>1, Inductive, PTL

\* No row starts more often than max_attempts, and a queued one has a start
\* left.
THEOREM AttemptLimitHolds == Spec => []AttemptLimit
<1>1. IInv => AttemptLimit
  BY DEF IInv, RowsOK, RowOK, AttemptLimit
<1> QED BY <1>1, Inductive, PTL

\* A running row has an owner and a deadline, a terminal one has neither.
THEOREM LeaseIffRunningHolds == Spec => []LeaseIffRunning
<1>1. IInv => LeaseIffRunning
  BY DEF IInv, RowsOK, RowOK, LeaseIffRunning
<1> QED BY <1>1, Inductive, PTL

\* The watermark of a scope names a run that finished.
THEOREM WatermarkHolds == Spec => []WatermarkIsSuccess
<1>1. IInv => WatermarkIsSuccess BY DEF IInv
<1> QED BY <1>1, Inductive, PTL



\* No outcome is rewritten by a late worker, a recovery or a retry.
THEOREM TerminalIsFinalHolds == Spec => TerminalIsFinal
<1> DEFINE Final == \A r \in Run :
                      runs[r].state \in TerminalStates =>
                        \/ runs'[r].state = runs[r].state
                        \/ runs'[r].state = "none"
<1>1. IInv /\ [Next]_vars => [Final]_vars
  <2> SUFFICES ASSUME IInv, [Next]_vars PROVE Final OBVIOUS
  <2>1. TableStep BY NextTableStep DEF IInv
  <2> QED
    BY <2>1
    DEF TableStep, RowStep, QuietStep, Stays, SameRow, Created, StartedStep, Requeued, EndedStep,
        Cancelled, Purged, TerminalStates
<1> QED BY <1>1, Inductive, PTL DEF Spec, TerminalIsFinal

\* A delivery marker outlives every retry of its run.
THEOREM MarkersStayHolds == Spec => MarkersStay
<1> DEFINE Stay == \A r \in Run :
                     runs'[r].run_id = runs[r].run_id /\ runs'[r].state # "none"
                       => runs[r].delivery_targets \subseteq runs'[r].delivery_targets
<1>1. IInv /\ [Next]_vars => [Stay]_vars
  <2> SUFFICES ASSUME IInv, [Next]_vars,
                      NEW r \in Run, runs'[r].run_id = runs[r].run_id, runs'[r].state # "none"
               PROVE  runs[r].delivery_targets \subseteq runs'[r].delivery_targets
    OBVIOUS
  <2>1. RowStep(r, runs[r], runs'[r]) BY NextTableStep DEF IInv, TableStep
  <2>2. runs[r].run_id \in Nat BY DEF IInv, TypeOK, RunRow
  <2> QED
    BY <2>1, <2>2
    DEF RowStep, QuietStep, Stays, SameRow, Created, StartedStep, Requeued, EndedStep,
        Cancelled, Purged
<1> QED BY <1>1, Inductive, PTL DEF Spec, MarkersStay

\* Only acquire_cron_runs raises attempts, and not while the scheduler is
\* paused.
THEOREM PausedStartsNothingHolds == Spec => PausedStartsNothing
<1> DEFINE Quiet == paused => \A r \in Run : runs'[r].attempts <= runs[r].attempts
<1>1. IInv /\ [Next]_vars => [Quiet]_vars
  <2> SUFFICES ASSUME IInv, [Next]_vars, paused, NEW r \in Run
               PROVE  runs'[r].attempts <= runs[r].attempts
    OBVIOUS
  <2>1. TypeOK /\ RowsOK /\ runs[r].attempts \in Nat BY DEF IInv, TypeOK, RunRow
  <2>2. CASE QuietTable
    BY <2>1, <2>2
    DEF QuietTable, QuietStep, Stays, SameRow, Created, Requeued, EndedStep, Cancelled
  <2>3. ASSUME NEW S \in SUBSET Run, DeleteTerminal(S)
        PROVE  runs'[r].attempts <= runs[r].attempts
    <3>1. runs'[r].attempts \in {0, runs[r].attempts}
      BY <2>3, Zenon DEF DeleteTerminal
    <3> QED BY <2>1, <3>1
  <2>4. ASSUME NEW d \in Daemon, NEW limit, acquire_cron_runs(d, limit)
        PROVE  runs'[r].attempts <= runs[r].attempts
    <3>1. runs'[r] = _recover_expired_cron_runs_locked[r]
      BY <2>4 DEF acquire_cron_runs
    <3> QED BY <2>1, <3>1, RecoverOK DEF Recovered, EndedStep, Requeued, SameRow
  <2> QED BY <2>1, <2>2, <2>3, <2>4, NextKinds
<1> QED BY <1>1, Inductive, PTL DEF Spec, PausedStartsNothing

\* Under the skip policy the scheduler creates rows only for instants that
\* have come and are at most max_lateness old (_select_due_points_for_job).
THEOREM SkipNeverRunsLateHolds == Spec => SkipNeverRunsLate
<1> DEFINE InTime == \A r \in Run :
                       /\ Config[r[1]].misfire = "skip" /\ ~Config[r[1]].manual
                       /\ runs[r].state = "none" /\ runs'[r].state = "queued"
                       => r[2] <= now /\ now <= r[2] + Config[r[1]].max_lateness
<1>1. IInv /\ [Next]_vars => [InTime]_vars
  <2> SUFFICES ASSUME IInv, [Next]_vars, NEW r \in Run,
                      Config[r[1]].misfire = "skip", ~Config[r[1]].manual,
                      runs[r].state = "none", runs'[r].state = "queued"
               PROVE  r[2] <= now /\ now <= r[2] + Config[r[1]].max_lateness
    OBVIOUS
  <2>1. CreatedByCall(r) \/ CreatedAsDue(r) BY CreatedBy DEF IInv
  <2>2. now \in Nat /\ Config[r[1]].max_lateness \in Nat /\ r[1] \in Job
    BY TimeIsNat, ConfigTypes DEF IInv, TypeOK, JobConfig
  <2>3. CASE CreatedByCall(r)
    BY <2>2, <2>3 DEF CreatedByCall, trigger_cron_run
  <2>4. CASE CreatedAsDue(r)
    <3>1. PICK table : r[2] \in InsertedPoints(table, r[1])
      BY <2>4 DEF CreatedAsDue
    <3>2. r[2] \in _select_due_points_for_job(r[1])
      BY <3>1 DEF InsertedPoints, DuePoints, FirstN
    <3>3. r[2] \in RecentCandidates(r[1])
      BY <3>2, Zenon DEF _select_due_points_for_job, LastN
    <3>4. r[2] \in Time /\ r[2] <= now /\ r[2] + Config[r[1]].max_lateness >= now
      BY <3>3, Zenon DEF RecentCandidates, DueCandidates, FirstN
    <3> QED BY <2>2, <3>4, TimeIsNat
  <2> QED BY <2>1, <2>3, <2>4
<1> QED BY <1>1, Inductive, PTL DEF Spec, SkipNeverRunsLate

\* A job whose interval is below the floor gets a row only from a call of a
\* user (_auto_pause_legacy_short_interval_job).
THEOREM CadenceFloorHolds == Spec => CadenceFloor
<1> DEFINE Floor == \A r \in Run :
                      /\ LegacyShortInterval(r[1])
                      /\ runs[r].state = "none" /\ runs'[r].state # "none"
                      => calls' > calls
<1>1. IInv /\ [Next]_vars => [Floor]_vars
  <2> SUFFICES ASSUME IInv, [Next]_vars, NEW r \in Run, LegacyShortInterval(r[1]),
                      runs[r].state = "none", runs'[r].state # "none"
               PROVE  calls' > calls
    OBVIOUS
  <2>1. CreatedByCall(r) \/ CreatedAsDue(r) BY CreatedBy DEF IInv
  <2>2. ~CreatedAsDue(r) BY DEF CreatedAsDue, Admitted, HasRoom
  <2>3. calls \in Nat BY BoundsAssumption DEF IInv, TypeOK
  <2> QED BY <2>1, <2>2, <2>3 DEF CreatedByCall
<1> QED BY <1>1, Inductive, PTL DEF Spec, CadenceFloor

\* The cron tables implement the life cycle of a run.
THEOREM Implementation == Spec => ImplementsLifecycle
<1>1. Init => Lifecycle!Init
  BY DEF Init, Lifecycle!Init
<1>2. IInv /\ [Next]_vars => [Lifecycle!Next]_(Lifecycle!vars)
  <2> SUFFICES ASSUME IInv, [Next]_vars PROVE Lifecycle!Next OBVIOUS
  <2>1. TableStep BY NextTableStep DEF IInv
  <2>2. \A r \in Run : runs[r] \in RunRow /\ runs'[r] \in RunRow
    BY <2>1 DEF TableStep, IInv, TypeOK
  <2>3. /\ [r \in Run |-> runs'[r].state] \in [Run -> Lifecycle!State]
        /\ [r \in Run |-> runs'[r].attempts] \in [Run -> Nat]
    BY <2>2 DEF RunRow, RunStates, TerminalStates, Lifecycle!State, Lifecycle!Terminal
  <2>4. ASSUME NEW r \in Run PROVE Lifecycle!Step(r)
    <3>1. RowStep(r, runs[r], runs'[r]) BY <2>1 DEF TableStep
    <3> USE DEF Lifecycle!Step, Lifecycle!Moves, Lifecycle!KeepsAttempts
    <3>2. CASE Stays(runs[r], runs'[r]) BY <3>2, Zenon DEF Stays, SameRow, Lifecycle!Stay
    <3>3. CASE Created(runs[r], runs'[r]) BY <3>3 DEF Created, Lifecycle!Create
    <3>4. CASE StartedStep(r, runs[r], runs'[r]) BY <3>4, Zenon DEF StartedStep, Lifecycle!Start
    <3>5. CASE Requeued(r, runs[r], runs'[r]) BY <3>5, Zenon DEF Requeued, SameRow, Lifecycle!Requeue
    <3>6. CASE EndedStep(runs[r], runs'[r]) BY <3>6 DEF EndedStep, SameRow, Lifecycle!End
    <3>7. CASE Cancelled(runs[r], runs'[r]) BY <3>7 DEF Cancelled, SameRow, Lifecycle!Cancel
    <3>8. CASE Purged(runs[r], runs'[r])
      BY <3>8 DEF Purged, TerminalStates, Lifecycle!Terminal, Lifecycle!Delete
    <3> QED BY <3>1, <3>2, <3>3, <3>4, <3>5, <3>6, <3>7, <3>8, Zenon DEF RowStep, QuietStep
  <2> QED BY <2>3, <2>4 DEF Lifecycle!Next
<1> QED BY <1>1, <1>2, Inductive, PTL DEF Spec, ImplementsLifecycle, Lifecycle!Spec
=============================================================================
