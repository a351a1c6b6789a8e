-------------------------- MODULE ChannelPipeline --------------------------
(***************************************************************************)
(* The way of a message through the control plane: the runners of          *)
(* TelegramPolling write the inbox that the workers of ChannelWorkers      *)
(* read.  An update and its inbox message are one thing here, and a second *)
(* passes for both at once.  After the last runner that can be started     *)
(* none crashes or stops any more.                                         *)
(***************************************************************************)
EXTENDS ChannelWorkers, TelegramPolling

ASSUME PipelineAssumption == Message = Update

PipelineInit == Init /\ PollInit

\* _enqueue_inbox: an accepted update goes to enqueue_inbox.
Hand(p) ==
  /\ Accept(p) \/ Raise(p)
  /\ runner[p].next \in accepted'
  /\ enqueue_inbox(runner[p].next)

Starts(p) == acquire_polling_lease(p) \/ delete_webhook(p) \/ initialize(p)

\* Everything else a runner does leaves the inbox alone.
PollStep(p) ==
  \/ Hand(p)
  \/ UNCHANGED <<vars, accepted>> /\ RunOnce(p)
  \/ UNCHANGED vars /\ Starts(p)

\* A runner ends while another one is there to be started.
PollEnds(p) ==
  /\ \E q \in Runner : At(q, "new")
  /\ UNCHANGED vars
  /\ Leave(p) \/ Crash(p)

Second == Tick /\ PollTick

PipelineNext ==
  \/ \E p \in Runner : PollStep(p) \/ PollEnds(p)
  \/ UNCHANGED vars /\ Post
  \/ WorkersNext /\ UNCHANGED pollVars
  \/ Second

allVars == <<vars, pollVars>>

PipelineSpec == PipelineInit /\ [][PipelineNext]_allVars

\* A runner loops for ever.  A request or a handler that is tried again and
\* again is assumed to succeed at last.  The rest as in ChannelWorkers.
PipelineFairness ==
  /\ \A p \in Runner : WF_pollVars(Starts(p) \/ RunOnce(p))
  /\ SF_pollVars(\E p \in Runner : get_updates(p))
  /\ SF_pollVars(\E p \in Runner : Accept(p) \/ Decline(p))
  /\ \A w \in InboxWorker : WF_vars(InboxStep(w))
  /\ \A w \in OutboxWorker : WF_vars(OutboxStep(w))
  /\ WF_vars(Tick)

PipelineLiveSpec == PipelineSpec /\ PipelineFairness

-----------------------------------------------------------------------------
(* Properties                                                              *)

\* However often an update is fetched and handed in, by whichever runner and
\* after whichever crash, the inbox holds it once.
OneRowPerUpdate ==
  \A u \in 1..MaxUpdate : Cardinality(RowsFor(inbox, u)) <= 1

AllHandled ==
  \A u \in 1..posted : 1..u \cap Malformed = {} =>
    u \in declined \/ \E r \in RowsFor(inbox, u) : Settled(inbox[r])

\* Every update a user sends is declined, answered or dead-lettered at last,
\* also when runners crash, leave or are replaced on the way, unless a
\* malformed one is ahead of it: that one blocks the offset for good.
EveryUpdateIsHandled == []<>AllHandled

AllThrough ==
  \A r \in DOMAIN inbox : inbox[r].status = "done" =>
    \E o \in RowsFor(outbox, inbox[r].msg) : Settled(outbox[o])

\* And if it is answered, an answer reaches the channel or is dead-lettered.
EveryAnswerGetsThrough == []<>AllThrough
=============================================================================
