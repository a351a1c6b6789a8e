----------------------------- MODULE MCCronStore -----------------------------
(***************************************************************************)
(* Small instances of CronStore.                                           *)
(***************************************************************************)
EXTENDS CronStore, TLC

CONSTANTS j1, j2, k1, d1, d2

\* Columns the instances share.
Base(rowid) ==
  [rowid |-> rowid, kind |-> "at", schedule |-> 0, concurrency_key |-> NULL,
   max_concurrency |-> 1, max_attempts |-> 2, retry_backoff |-> 1,
   misfire |-> "run_once", catch_up_max |-> 1, max_lateness |-> 1,
   delete_after_run |-> FALSE, task_owned |-> TRUE, manual |-> FALSE]

\* Two jobs in one scope: a one-time and a recurring one.
ScopedConfig ==
  j1 :> [Base(1) EXCEPT !.concurrency_key = k1, !.delete_after_run = TRUE, !.manual = TRUE]
  @@ j2 :> [Base(2) EXCEPT !.concurrency_key = k1, !.kind = "every", !.schedule = 1]

\* One job that two daemons compete for.
FencedConfig == j1 :> Base(1)

\* A recurring job that catches up two at a time and a one-time job that is
\* skipped when late.
DueConfig ==
  j1 :> [Base(1) EXCEPT !.kind = "every", !.schedule = 2, !.misfire = "catch_up",
                        !.catch_up_max = 2, !.max_lateness = 2, !.max_concurrency = 2]
  @@ j2 :> [Base(2) EXCEPT !.schedule = 1, !.misfire = "skip"]

\* A recurring job below the minimum interval, and one that skips.
CadenceConfig ==
  j1 :> [Base(1) EXCEPT !.kind = "every", !.schedule = 1]
  @@ j2 :> [Base(2) EXCEPT !.kind = "every", !.schedule = 2, !.misfire = "skip",
                           !.max_lateness = 0]

Daemons == Permutations(Daemon)
=============================================================================
