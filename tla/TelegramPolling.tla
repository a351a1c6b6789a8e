--------------------------- MODULE TelegramPolling ---------------------------
(***************************************************************************)
(* The Telegram ingress (modules/controlplane/channels/telegram/polling.py *)
(* and its state store): runners fetch updates by an offset, hand each one *)
(* to the inbox or decline it, and commit the offset up to which they got. *)
(* The server forgets every update below the offset it was last asked for. *)
(*                                                                         *)
(* A runner is one process: it starts once, and a restart is another       *)
(* runner.  A lease with a heartbeat keeps a second runner away, unless    *)
(* the owner is gone or silent for too long; a runner does not look at the *)
(* result of its own heartbeat, so a silent owner that was replaced goes   *)
(* on beside the new one.                                                  *)
(*                                                                         *)
(* Update ids are 1, 2, 3...; a batch is the interval next..upto.          *)
(* Instants are kept as distances from the present, as in MessageQueue.    *)
(***************************************************************************)
EXTENDS Naturals

CONSTANTS Runner,         \* PollingRunner processes
          NULL,           \* no lease row
          MaxUpdate,      \* bound: updates users send
          Malformed,      \* updates extract_envelope cannot read
          Limit,          \* polling.limit: updates per fetch
          StaleAfter,     \* stale_after_seconds of the lease
          DropPending     \* polling.drop_pending_on_start

ASSUME PollingAssumption ==
  /\ NULL \notin Runner
  /\ MaxUpdate \in Nat
  /\ Malformed \subseteq 1..MaxUpdate
  /\ Limit \in Nat \ {0}
  /\ StaleAfter \in Nat \ {0}
  /\ DropPending \in BOOLEAN

VARIABLES posted,     \* updates 1..posted have been sent by users
          confirmed,  \* the server keeps the updates from this one on
          stored,     \* telegram_poll_state.last_update_id
          lease,      \* the telegram_polling_leases row
          runner,     \* the processes
          accepted,   \* updates with a row in cp_inbox
          declined    \* updates handled without one: pairing, access, commands...

pollVars == <<posted, confirmed, stored, lease, runner, accepted, declined>>

Update == 1..MaxUpdate

\* last is _last_update_id, reached is committed_update_id, recent is
\* _recent_ids.  tardy is history: the lease of this process went stale.
RunnerState == [pc : {"new", "init", "load", "poll", "fetch", "batch", "gone"},
                last : 0..MaxUpdate, next : Nat, upto : 0..MaxUpdate,
                reached : 0..MaxUpdate, recent : SUBSET Update,
                tardy : BOOLEAN]

\* silent is the age of heartbeat_at_ts; owner is NULL when there is no row.
Lease == [owner : Runner \union {NULL}, silent : 0..StaleAfter + 1]
NoLease == [owner |-> NULL, silent |-> 0]

\* A process without memory: before it starts and after it has ended.
Blank(pc) == [pc |-> pc, last |-> 0, next |-> 1, upto |-> 0, reached |-> 0,
              recent |-> {}, tardy |-> FALSE]

PollTypeOK ==
  /\ posted \in 0..MaxUpdate
  /\ confirmed \in 1..MaxUpdate + 1
  /\ stored \in 0..MaxUpdate
  /\ lease \in Lease
  /\ runner \in [Runner -> RunnerState]
  /\ accepted \subseteq Update
  /\ declined \subseteq Update

PollInit ==
  /\ posted = 0
  /\ confirmed = 1
  /\ stored = 0
  /\ lease = NoLease
  /\ runner = [p \in Runner |-> Blank("new")]
  /\ accepted = {}
  /\ declined = {}

Later(a, b) == IF a > b THEN a ELSE b
Earlier(a, b) == IF a < b THEN a ELSE b
At(p, pc) == runner[p].pc = pc
Live(p) == runner[p].pc \notin {"new", "gone"}

-----------------------------------------------------------------------------
(* Start and end of a runner                                               *)

\* Mutant: a live owner is replaced whatever its heartbeat says.
AcquireAnyway(p) ==
  /\ At(p, "new")
  /\ lease' = [owner |-> p, silent |-> 0]
  /\ runner' = [runner EXCEPT ![p].pc = "init"]
  /\ UNCHANGED <<posted, confirmed, stored, accepted, declined>>

\* Mutant: only a lease that was given back is taken.
AcquireFree(p) ==
  /\ At(p, "new") /\ lease.owner = NULL
  /\ lease' = [owner |-> p, silent |-> 0]
  /\ runner' = [runner EXCEPT ![p].pc = "init"]
  /\ UNCHANGED <<posted, confirmed, stored, accepted, declined>>

\* acquire_polling_lease; a refusal raises and the runner has not started.
acquire_polling_lease(p) ==
  /\ At(p, "new")
  /\ \/ lease.owner = NULL
     \/ lease.owner \in Runner /\ (~Live(lease.owner) \/ lease.silent > StaleAfter)
  /\ lease' = [owner |-> p, silent |-> 0]
  /\ runner' = [runner EXCEPT ![p].pc = "init"]
  /\ UNCHANGED <<posted, confirmed, stored, accepted, declined>>

\* initialize, first request: delete_webhook forgets what is waiting if asked to.
delete_webhook(p) ==
  /\ At(p, "init")
  /\ runner' = [runner EXCEPT ![p].pc = "load"]
  /\ IF DropPending
     THEN /\ confirmed' = posted + 1
          /\ declined' = declined \union confirmed..posted
     ELSE UNCHANGED <<confirmed, declined>>
  /\ UNCHANGED <<posted, stored, lease, accepted>>

\* Rest of initialize: load the persisted offset; with DropPending skip what
\* has come in since (asking for offset -1 returns the newest update and makes
\* the server forget the older ones) and commit that offset.
initialize(p) ==
  LET newest == IF DropPending /\ posted >= confirmed THEN posted ELSE 0
  IN  /\ At(p, "load")
      /\ runner' = [runner EXCEPT ![p].pc = "poll",
                                  ![p].last = IF newest > 0 THEN newest ELSE stored]
      /\ stored' = IF newest > 0 THEN newest ELSE stored
      /\ confirmed' = Later(confirmed, newest)
      /\ declined' = declined \union confirmed..newest
      /\ UNCHANGED <<posted, lease, accepted>>

\* release_polling_lease touches only a row of this process.
Released(p) == IF lease.owner = p THEN NoLease ELSE lease

\* initialize raises, or the runner is stopped: the lease is given back.  A
\* stop does not wait for the batch.
Leave(p) ==
  /\ Live(p)
  /\ lease' = Released(p)
  /\ runner' = [runner EXCEPT ![p] = Blank("gone")]
  /\ UNCHANGED <<posted, confirmed, stored, accepted, declined>>

Crash(p) ==
  /\ Live(p)
  /\ runner' = [runner EXCEPT ![p] = Blank("gone")]
  /\ UNCHANGED <<posted, confirmed, stored, lease, accepted, declined>>

-----------------------------------------------------------------------------
(* run_once                                                                *)

\* heartbeat_polling_lease updates the row of this process if there is one.
heartbeat_polling_lease(p) ==
  /\ At(p, "poll")
  /\ lease' = [lease EXCEPT !.silent = IF lease.owner = p THEN 0 ELSE @]
  /\ runner' = [runner EXCEPT ![p].pc = "fetch"]
  /\ UNCHANGED <<posted, confirmed, stored, accepted, declined>>

\* Mutant: the last update is asked for again.
RefetchLast(p) ==
  LET offset == Later(runner[p].last, 1)
      first == Later(offset, confirmed)
  IN  /\ At(p, "fetch")
      /\ confirmed' = first
      /\ runner' = [runner EXCEPT
           ![p].pc = "batch",
           ![p].next = first,
           ![p].upto = Earlier(posted, (first + Limit) - 1),
           ![p].reached = runner[p].last]
      /\ UNCHANGED <<posted, stored, lease, accepted, declined>>

\* get_updates(offset = _last_update_id + 1)
get_updates(p) ==
  LET offset == runner[p].last + 1
      first == Later(offset, confirmed)
  IN  /\ At(p, "fetch")
      /\ confirmed' = first
      /\ runner' = [runner EXCEPT
           ![p].pc = "batch",
           ![p].next = first,
           ![p].upto = Earlier(posted, (first + Limit) - 1),
           ![p].reached = runner[p].last]
      /\ UNCHANGED <<posted, stored, lease, accepted, declined>>

\* The request fails: run_forever backs off and polls again.
FetchFails(p) ==
  /\ At(p, "fetch")
  /\ runner' = [runner EXCEPT ![p].pc = "poll"]
  /\ UNCHANGED <<posted, confirmed, stored, lease, accepted, declined>>

InBatch(p) == At(p, "batch") /\ runner[p].next <= runner[p].upto

Advance(p) ==
  runner' = [runner EXCEPT ![p].next = @ + 1,
                           ![p].reached = Later(@, runner[p].next),
                           ![p].recent = @ \union {runner[p].next}]

\* _process_update ends at the inbox ...
Accept(p) ==
  /\ InBatch(p) /\ runner[p].next \notin runner[p].recent \union Malformed
  /\ accepted' = accepted \union {runner[p].next}
  /\ Advance(p)
  /\ UNCHANGED <<posted, confirmed, stored, lease, declined>>

\* ... or at one of its early returns.  An update this process has handled
\* before is skipped, which NeverRefetched says does not happen.
Decline(p) ==
  /\ InBatch(p) /\ (runner[p].next \in Malformed => runner[p].next \in runner[p].recent)
  /\ declined' = declined \union ({runner[p].next} \ runner[p].recent)
  /\ Advance(p)
  /\ UNCHANGED <<posted, confirmed, stored, lease, accepted>>

\* Mutant: the update that raised counts as reached.
RaiseCounted(p) ==
  /\ InBatch(p) /\ runner[p].next \notin runner[p].recent
  /\ runner' = [runner EXCEPT ![p].upto = runner[p].next - 1,
                              ![p].reached = runner[p].next]
  /\ UNCHANGED <<posted, confirmed, stored, lease, accepted, declined>>

\* _process_update raises, always for a malformed update, and the rest of the
\* batch is left for the next fetch.  It may raise after the inbox row was
\* written.
Raise(p) ==
  /\ InBatch(p) /\ runner[p].next \notin runner[p].recent
  /\ \/ UNCHANGED accepted
     \/ runner[p].next \notin Malformed /\ accepted' = accepted \union {runner[p].next}
  /\ runner' = [runner EXCEPT ![p].upto = runner[p].next - 1]
  /\ UNCHANGED <<posted, confirmed, stored, lease, declined>>

\* Mutant: the offset of the next request is stored, not the last update.
CommitNext(p) ==
  /\ At(p, "batch") /\ runner[p].next > runner[p].upto
  /\ runner' = [runner EXCEPT ![p].pc = "poll", ![p].last = runner[p].reached + 1,
                              ![p].next = 1, ![p].upto = 0, ![p].reached = 0]
  /\ stored' = runner[p].reached + 1
  /\ UNCHANGED <<posted, confirmed, lease, accepted, declined>>

\* End of run_once: _commit_offset, in memory first; the write may fail.
_commit_offset(p) ==
  /\ At(p, "batch") /\ runner[p].next > runner[p].upto
  /\ runner' = [runner EXCEPT ![p].pc = "poll", ![p].last = runner[p].reached,
                              ![p].next = 1, ![p].upto = 0, ![p].reached = 0]
  /\ stored' \in {stored} \union
       (IF runner[p].reached > runner[p].last THEN {runner[p].reached} ELSE {})
  /\ UNCHANGED <<posted, confirmed, lease, accepted, declined>>

-----------------------------------------------------------------------------

Post ==
  /\ posted < MaxUpdate
  /\ posted' = posted + 1
  /\ UNCHANGED <<confirmed, stored, lease, runner, accepted, declined>>

\* A second passes: the heartbeat gets older.
PollTick ==
  /\ IF lease.owner \in Runner /\ lease.silent <= StaleAfter
     THEN /\ lease' = [lease EXCEPT !.silent = @ + 1]
          /\ runner' = [runner EXCEPT ![lease.owner].tardy =
                           @ \/ (Live(lease.owner) /\ lease.silent = StaleAfter)]
     ELSE UNCHANGED <<lease, runner>>
  /\ UNCHANGED <<posted, confirmed, stored, accepted, declined>>

RunOnce(p) ==
  \/ heartbeat_polling_lease(p) \/ get_updates(p) \/ FetchFails(p)
  \/ Accept(p) \/ Decline(p) \/ Raise(p) \/ _commit_offset(p)

PollNext ==
  \/ \E p \in Runner :
       acquire_polling_lease(p) \/ delete_webhook(p) \/ initialize(p) \/ RunOnce(p)
  \/ \E p \in Runner : Leave(p) \/ Crash(p)
  \/ Post
  \/ PollTick

PollSpec == PollInit /\ [][PollNext]_pollVars

-----------------------------------------------------------------------------
(* Properties                                                              *)

\* An update the server has forgotten was handled: it has an inbox row or it
\* was declined.  No crash, failed offset write or second runner loses one.
NoUpdateLost == \A u \in 1..confirmed - 1 : u \in accepted \union declined

\* The persisted offset is a promise of the same kind: a restart from it
\* skips only handled updates, although two runners may move it back.
OffsetIsSafe == \A u \in 1..stored : u \in accepted \union declined

\* One runner never fetches an update again that it has already handled: the
\* guard _recent_ids is a second line of defence.
NeverRefetched ==
  \A p \in Runner : At(p, "batch") => runner[p].next..runner[p].upto \cap runner[p].recent = {}

\* Two runners poll one bot at the same time only if the heartbeat of one of
\* them was late.
OnePromptRunner ==
  \A p, q \in Runner : Live(p) /\ Live(q) /\ p # q => runner[p].tardy \/ runner[q].tardy

\* What a runner promises: updates are fetched once per runner and forgotten only when
\* they were handled, whatever crashes, and runners meet only if one was late.
PollingIsSafe ==
  PollTypeOK /\ NoUpdateLost /\ OffsetIsSafe /\ NeverRefetched /\ OnePromptRunner
=============================================================================
