--------------------------- MODULE MCCronScheduler ---------------------------
(***************************************************************************)
(* Small instances of CronScheduler.                                       *)
(***************************************************************************)
EXTENDS CronScheduler, TLC

CONSTANTS j1, d1, d2

\* A one-time job of a task that may be attempted twice.
OneTimeConfig ==
  j1 :> [rowid |-> 1, kind |-> "at", schedule |-> 0, concurrency_key |-> NULL,
         max_concurrency |-> 1, max_attempts |-> 2, retry_backoff |-> 1,
         misfire |-> "run_once", catch_up_max |-> 1, max_lateness |-> 1,
         delete_after_run |-> FALSE, task_owned |-> TRUE, manual |-> FALSE]

\* The same for a job that belongs to no task.
PlainConfig == [j \in {j1} |-> [OneTimeConfig[j] EXCEPT !.task_owned = FALSE]]

Daemons == Permutations(Daemon)
=============================================================================
