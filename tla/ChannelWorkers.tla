--------------------------- MODULE ChannelWorkers ---------------------------
(***************************************************************************)
(* The inbox and outbox workers (modules/controlplane/runtime/worker) over *)
(* the two queues of MessageQueue.  An inbox worker claims a message, has  *)
(* it answered, writes the answer to the outbox and acknowledges; an       *)
(* outbox worker claims an answer, hands it to the channel adapter and     *)
(* marks it sent.  Each step makes one call to the store or to the         *)
(* adapter; a worker may stall or be lost between any two of them.  The    *)
(* daemon and a command line runner may serve one database, so there may   *)
(* be several workers of each kind.                                        *)
(***************************************************************************)
EXTENDS MessageQueue

CONSTANTS Message,       \* inbound messages, by (channel, chat_id, channel_message_id)
          InboxWorker,   \* lock owners that run InboxWorker.run_once
          OutboxWorker,  \* lock owners that run OutboxWorker.run_once
          MaxClaims,     \* bound: claims of one row
          MaxLost        \* bound: workers lost between claim and report

ASSUME WorkersAssumption ==
  /\ MaxClaims \in Nat
  /\ MaxLost \in Nat
  /\ InboxWorker \cap OutboxWorker = {}

VARIABLES inbox,      \* cp_inbox
          outbox,     \* cp_outbox
          worker,     \* what each worker is doing
          delivered,  \* history: how often each outbox row reached the channel
          reclaimed,  \* history: <<"in" or "out", row>> whose claim was given up
          lost        \* workers lost so far

vars == <<inbox, outbox, worker, delivered, reclaimed, lost>>

Worker == InboxWorker \union OutboxWorker

\* pc: waiting, before the dispatcher or adapter call, before the final mark.
\* age: seconds since the claim.
Idle == [pc |-> "idle", row |-> 0, age |-> 0]
WorkerState == [pc : {"idle", "handle", "mark"}, row : Nat, age : 0..ReclaimTTL + 1]

TypeOK ==
  /\ inbox \in Seq(Row(Message))
  /\ outbox \in Seq(Row(Message))
  /\ worker \in [Worker -> WorkerState]
  /\ delivered \in Seq(Nat)
  /\ reclaimed \subseteq {"in", "out"} \X Nat
  /\ lost \in Nat

Init ==
  /\ inbox = <<>>
  /\ outbox = <<>>
  /\ worker = [w \in Worker |-> Idle]
  /\ delivered = <<>>
  /\ reclaimed = {}
  /\ lost = 0

Becomes(w, state) == worker' = [worker EXCEPT ![w] = state]
AtPC(w, pc) == worker[w].pc = pc

-----------------------------------------------------------------------------
(* The channel hands in a message; it may do so again.                     *)

enqueue_inbox(m) ==
  /\ inbox' = EnqueueUnique(inbox, m)
  /\ UNCHANGED <<outbox, worker, delivered, reclaimed, lost>>

-----------------------------------------------------------------------------
(* InboxWorker.run_once                                                    *)

GivenUp(tag, q) == {<<tag, r>> : r \in {s \in DOMAIN q : Overdue(q[s])}}

claim_inbox(w) ==
  LET due == Due(Reclaimed(inbox))
  IN  /\ AtPC(w, "idle")
      /\ due # {}
      /\ inbox[Min(due)].attempts < MaxClaims
      /\ inbox' = Claimed(inbox)
      /\ reclaimed' = reclaimed \union GivenUp("in", inbox)
      /\ Becomes(w, [pc |-> "handle", row |-> Min(due), age |-> 0])
      /\ UNCHANGED <<outbox, delivered, lost>>

\* Mutant: the message is acknowledged before its answer is stored.
AckThenAnswer(w) ==
  /\ AtPC(w, "handle")
  /\ inbox' = Acked(inbox, worker[w].row)
  /\ Becomes(w, [worker[w] EXCEPT !.pc = "mark"])
  /\ UNCHANGED <<outbox, delivered, reclaimed, lost>>

\* The answer goes to the outbox: what the dispatcher returned, or the text
\* of a refusal (unpaired, missing scope, rate limit).
Answer(w) ==
  /\ AtPC(w, "handle")
  /\ outbox' = EnqueueNew(outbox, inbox[worker[w].row].msg)
  /\ delivered' = Append(delivered, 0)
  /\ Becomes(w, [worker[w] EXCEPT !.pc = "mark"])
  /\ UNCHANGED <<inbox, reclaimed, lost>>

ack_inbox(w) ==
  /\ AtPC(w, "mark")
  /\ inbox' = Acked(inbox, worker[w].row)
  /\ Becomes(w, Idle)
  /\ UNCHANGED <<outbox, delivered, reclaimed, lost>>

\* Mutant: after recording the failure the worker goes on with the message.
RetryAndGoOn(w) ==
  /\ worker[w].pc \in {"handle", "mark"}
  /\ inbox' = Retried(inbox, worker[w].row)
  /\ UNCHANGED <<outbox, worker, delivered, reclaimed, lost>>

\* Any exception of the handler, also one raised after the answer was stored.
_mark_retry_or_dead(w) ==
  /\ worker[w].pc \in {"handle", "mark"}
  /\ inbox' = Retried(inbox, worker[w].row)
  /\ Becomes(w, Idle)
  /\ UNCHANGED <<outbox, delivered, reclaimed, lost>>

-----------------------------------------------------------------------------
(* OutboxWorker.run_once                                                   *)

claim_outbox(w) ==
  LET due == Due(Reclaimed(outbox))
  IN  /\ AtPC(w, "idle")
      /\ due # {}
      /\ outbox[Min(due)].attempts < MaxClaims
      /\ outbox' = Claimed(outbox)
      /\ reclaimed' = reclaimed \union GivenUp("out", outbox)
      /\ Becomes(w, [pc |-> "handle", row |-> Min(due), age |-> 0])
      /\ UNCHANGED <<inbox, delivered, lost>>

\* Mutant: the call is left to the end of the run and never made.
DeliverNothing(w) ==
  /\ AtPC(w, "handle")
  /\ Becomes(w, [worker[w] EXCEPT !.pc = "mark"])
  /\ UNCHANGED <<inbox, outbox, delivered, reclaimed, lost>>

\* Mutant: the call is made twice.
DeliverTwice(w) ==
  /\ AtPC(w, "handle")
  /\ delivered' = [delivered EXCEPT ![worker[w].row] = @ + 2]
  /\ Becomes(w, [worker[w] EXCEPT !.pc = "mark"])
  /\ UNCHANGED <<inbox, outbox, reclaimed, lost>>

\* adapter.deliver returns
_deliver(w) ==
  /\ AtPC(w, "handle")
  /\ delivered' = [delivered EXCEPT ![worker[w].row] = @ + 1]
  /\ Becomes(w, [worker[w] EXCEPT !.pc = "mark"])
  /\ UNCHANGED <<inbox, outbox, reclaimed, lost>>

mark_outbox_sent(w) ==
  /\ AtPC(w, "mark")
  /\ outbox' = Acked(outbox, worker[w].row)
  /\ Becomes(w, Idle)
  /\ UNCHANGED <<inbox, delivered, reclaimed, lost>>

\* The adapter raises, or mark_outbox_sent does after the delivery.
mark_outbox_retry(w) ==
  /\ worker[w].pc \in {"handle", "mark"}
  /\ outbox' = Retried(outbox, worker[w].row)
  /\ Becomes(w, Idle)
  /\ UNCHANGED <<inbox, delivered, reclaimed, lost>>

-----------------------------------------------------------------------------
(* Faults, the janitor and time                                            *)

\* The process ends, or recording the failure raises too: the row stays
\* claimed until its TTL has passed.
Lose(w) ==
  /\ ~AtPC(w, "idle")
  /\ lost < MaxLost
  /\ lost' = lost + 1
  /\ Becomes(w, Idle)
  /\ UNCHANGED <<inbox, outbox, delivered, reclaimed>>

\* ControlPlaneJanitor.run_once
Purge(cutoff) ==
  /\ outbox' = Purged(outbox, cutoff)
  /\ UNCHANGED <<inbox, worker, delivered, reclaimed, lost>>

Tick ==
  /\ inbox' = Aged(inbox)
  /\ outbox' = Aged(outbox)
  /\ worker' = [w \in Worker |->
       [worker[w] EXCEPT !.age =
          IF ~AtPC(w, "idle") /\ @ <= ReclaimTTL THEN @ + 1 ELSE @]]
  /\ UNCHANGED <<delivered, reclaimed, lost>>

InboxStep(w) == claim_inbox(w) \/ Answer(w) \/ ack_inbox(w) \/ _mark_retry_or_dead(w)
OutboxStep(w) ==
  claim_outbox(w) \/ _deliver(w) \/ mark_outbox_sent(w) \/ mark_outbox_retry(w)

WorkersNext ==
  \/ \E w \in InboxWorker : InboxStep(w)
  \/ \E w \in OutboxWorker : OutboxStep(w)
  \/ \E w \in Worker : Lose(w)
  \/ \E cutoff \in DOMAIN outbox : Purge(cutoff)

Next == WorkersNext \/ Tick \/ \E m \in Message : enqueue_inbox(m)

Spec == Init /\ [][Next]_vars

-----------------------------------------------------------------------------
(* Properties                                                              *)

\* A message is acknowledged (ack_inbox) only after an answer for it was
\* stored in the outbox, whichever worker acknowledged it and however often
\* the message was reclaimed, retried or lost before.
DoneMeansAnswered ==
  \A r \in DOMAIN inbox :
    inbox[r].status = "done" => RowsFor(outbox, inbox[r].msg) # {}

\* An answer is marked sent (mark_outbox_sent) only if the adapter took it at
\* least once.
SentMeansDelivered ==
  \A o \in DOMAIN outbox : outbox[o].status = "done" => delivered[o] > 0

\* The price of at-least-once delivery is bounded by the attempts counter:
\* one claim stores at most one answer, and one claim of an answer delivers it
\* at most once.
DuplicatesCostAttempts ==
  /\ \A r \in DOMAIN inbox :
       Cardinality(RowsFor(outbox, inbox[r].msg)) <= inbox[r].attempts
  /\ \A o \in DOMAIN outbox : delivered[o] <= outbox[o].attempts

\* Two workers work on one row at a time only when one of them has held it
\* longer than the TTL after which claims are given up.
SharedOnlyPastTTL ==
  \A kind \in {InboxWorker, OutboxWorker} : \A w1, w2 \in kind :
    w1 # w2 /\ worker[w1].row = worker[w2].row /\ worker[w1].row # 0
      => worker[w1].age > ReclaimTTL \/ worker[w2].age > ReclaimTTL

Settled(row) == row.status \in {"done", "dead", "gone"}

\* A row whose claims were never given up is settled once: no later report
\* overwrites done or dead.  (After a reclaim the report of the superseded
\* worker may, since ack and retry go by the row id alone.)
SettledOnce ==
  [][/\ \A r \in DOMAIN inbox : Settled(inbox[r]) /\ <<"in", r>> \notin reclaimed
          => inbox'[r].status = inbox[r].status
     /\ \A o \in DOMAIN outbox : Settled(outbox[o]) /\ <<"out", o>> \notin reclaimed
          => outbox'[o].status \in {outbox[o].status, "gone"}]_vars

\* The promises of inbox and outbox: at least once, and no more often than claims allow.
QueuesAreSafe ==
  /\ [](TypeOK /\ DoneMeansAnswered /\ SentMeansDelivered)
  /\ [](DuplicatesCostAttempts /\ SharedOnlyPastTTL)
  /\ SettledOnce

-----------------------------------------------------------------------------
(* Liveness.  A worker loop goes on for ever, so every call it makes       *)
(* returns or raises; workers are lost a bounded number of times; the      *)
(* clock advances.                                                         *)

Fairness ==
  /\ \A w \in InboxWorker : WF_vars(InboxStep(w))
  /\ \A w \in OutboxWorker : WF_vars(OutboxStep(w))
  /\ WF_vars(Tick)

LiveSpec == Spec /\ Fairness

\* Every message is answered or dead-lettered in the end and stays so,
\* whatever fails on the way: no claim, backoff or lost worker strands it.
MessagesSettle == <>[](\A r \in DOMAIN inbox : Settled(inbox[r]))

\* So is every answer in the outbox.
AnswersSettle == <>[](\A o \in DOMAIN outbox : Settled(outbox[o]))
=============================================================================
