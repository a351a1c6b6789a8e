--------------------------- MODULE MCCronLiveness ---------------------------
(***************************************************************************)
(* One-time jobs for CronLiveness.                                         *)
(***************************************************************************)
EXTENDS CronLiveness, TLC

CONSTANTS j1, j2, k1, d1

\* A job that is due at once and may be attempted as often as given.
OneTime(rowid, attempts) ==
  [rowid |-> rowid, kind |-> "at", schedule |-> 0, concurrency_key |-> NULL,
   max_concurrency |-> 1, max_attempts |-> attempts, retry_backoff |-> 1,
   misfire |-> "run_once", catch_up_max |-> 1, max_lateness |-> 1,
   delete_after_run |-> FALSE, task_owned |-> TRUE, manual |-> FALSE]

\* One job, attempted twice.
OneTimeConfig == j1 :> OneTime(1, 2)

\* Two jobs that wait for each other in one scope.
SharedConfig ==
  j1 :> [OneTime(1, 1) EXCEPT !.concurrency_key = k1, !.delete_after_run = TRUE]
  @@ j2 :> [OneTime(2, 1) EXCEPT !.concurrency_key = k1]
=============================================================================
