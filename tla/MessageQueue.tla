---------------------------- MODULE MessageQueue ----------------------------
(***************************************************************************)
(* The two durable queues of the control plane, cp_inbox and cp_outbox     *)
(* (modules/controlplane/storage/inbox_outbox.py).  They have the same     *)
(* rows and the same operations under different names, so both are values  *)
(* of one type here: a sequence of rows in the order of received_at or     *)
(* created_at, whose index stands for the row id.                          *)
(*                                                                         *)
(*   status        inbox        outbox                                     *)
(*   "ready"       new          pending                                    *)
(*   "claimed"     processing   sending                                    *)
(*   "failed"      failed       failed                                     *)
(*   "done"        done         sent                                       *)
(*   "dead"        dead         dead                                       *)
(*   "gone"        -            deleted by the janitor                     *)
(*                                                                         *)
(* Instants are kept as distances from the present: wait is how far        *)
(* next_attempt_at lies ahead, held how far locked_at lies back.  Tick     *)
(* moves both.                                                             *)
(***************************************************************************)
EXTENDS Naturals, Sequences, FiniteSets, FiniteSetsExt

CONSTANTS ReclaimTTL,   \* reclaim_ttl_s: how long a claim is respected
          MaxAttempts,  \* max_attempts: claims before a failure is final
          MaxBackoff    \* max_backoff_s

ASSUME QueueAssumption ==
  /\ ReclaimTTL \in Nat \ {0}
  /\ MaxAttempts \in Nat \ {0}
  /\ MaxBackoff \in Nat \ {0}

Status == {"ready", "claimed", "failed", "done", "dead", "gone"}

Row(Message) == [msg : Message, status : Status, attempts : Nat,
                 wait : 0..MaxBackoff, held : 0..ReclaimTTL + 1]

\* The row an enqueue inserts.
NewRow(m) == [msg |-> m, status |-> "ready", attempts |-> 0, wait |-> 0, held |-> 0]

\* Rows for message m.
RowsFor(q, m) == {r \in DOMAIN q : q[r].msg = m}

\* Mutant: a second row for a message that has one.
EnqueueAgain(q, m) == Append(q, NewRow(m))

\* enqueue_inbox: ON CONFLICT(channel, chat_id, channel_message_id) DO NOTHING
EnqueueUnique(q, m) == IF RowsFor(q, m) = {} THEN Append(q, NewRow(m)) ELSE q

\* enqueue_outbox, called without an outbox_id: the row is always a new one.
EnqueueNew(q, m) == Append(q, NewRow(m))

Overdue(row) == row.status = "claimed" /\ row.held > ReclaimTTL

\* Mutant: a claim is reclaimed as soon as it has any age.
ReclaimEager(q) ==
  [r \in DOMAIN q |->
     IF q[r].status = "claimed" /\ q[r].held > 0
     THEN [q[r] EXCEPT !.status = "ready", !.held = 0] ELSE q[r]]

\* Mutant: a lock is never given up.
ReclaimNothing(q) == q

\* First statement of a claim: locks older than the TTL are given up.
\* attempts and next_attempt_at stay.
Reclaimed(q) ==
  [r \in DOMAIN q |->
     IF Overdue(q[r]) THEN [q[r] EXCEPT !.status = "ready", !.held = 0] ELSE q[r]]

Due(q) == {r \in DOMAIN q : q[r].status \in {"ready", "failed"} /\ q[r].wait = 0}

\* ORDER BY received_at (created_at) ASC LIMIT 1
Oldest(q) == Min(Due(q))

\* claim_inbox, claim_outbox, when a row is due
Claimed(q) ==
  LET s == Reclaimed(q)
      r == Oldest(s)
  IN  [s EXCEPT ![r] = [@ EXCEPT !.status = "claimed", !.attempts = @ + 1, !.held = 0]]

\* ack_inbox, mark_outbox_sent: by id alone, whatever the row says by now
Acked(q, r) ==
  IF q[r].status = "gone" THEN q
  ELSE [q EXCEPT ![r].status = "done", ![r].held = 0]

Backoff(attempts) ==
  Min({MaxBackoff, 2 ^ (IF attempts > 0 THEN attempts - 1 ELSE 0)})

\* Mutant: the counter is not looked at and no failure is final.
RetriedForever(q, r) ==
  IF q[r].status = "gone" THEN q
  ELSE [q EXCEPT ![r].status = "failed", ![r].held = 0,
                 ![r].wait = Backoff(q[r].attempts)]

\* mark_inbox_retry, mark_outbox_retry: by id alone
Retried(q, r) ==
  IF q[r].status = "gone" THEN q
  ELSE IF q[r].attempts >= MaxAttempts
       THEN [q EXCEPT ![r].status = "dead", ![r].held = 0]
       ELSE [q EXCEPT ![r].status = "failed", ![r].held = 0,
                      ![r].wait = Backoff(q[r].attempts)]

\* The janitor: settled rows created before the retention cutoff are deleted.
Purged(q, cutoff) ==
  [r \in DOMAIN q |->
     IF r <= cutoff /\ q[r].status \in {"done", "dead"}
     THEN [q[r] EXCEPT !.status = "gone"] ELSE q[r]]

\* A second passes: locks get older, waits get shorter.
Aged(q) ==
  [r \in DOMAIN q |->
     [q[r] EXCEPT !.held = IF q[r].status = "claimed" /\ @ <= ReclaimTTL THEN @ + 1 ELSE @,
                  !.wait = IF @ > 0 THEN @ - 1 ELSE 0]]
=============================================================================
