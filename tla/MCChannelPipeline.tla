------------------------- MODULE MCChannelPipeline -------------------------
(***************************************************************************)
(* A small instance of ChannelPipeline.  Each behaviour follows one        *)
(* scenario: one update on its whole way through the pipeline, or more     *)
(* updates and only the runners, with and without drop_pending_on_start.   *)
(***************************************************************************)
EXTENDS ChannelPipeline

CONSTANTS r1, r2, i1, o1

VARIABLE scenario

\* The runners of a bot configured to drop what is pending.
Drop == INSTANCE TelegramPolling WITH DropPending <- TRUE

ChannelInit == PipelineInit /\ scenario \in {"pipeline", "polling", "drop"}

\* Runners are interchangeable: r1 is the name of the one that starts first.
InOrder == runner'[r1].pc = "new" => runner'[r2].pc = "new"

ChannelNext ==
  /\ \/ scenario = "pipeline" /\ PipelineNext /\ posted' <= 1
     \/ scenario = "polling" /\ PollNext /\ UNCHANGED vars
     \/ scenario = "drop" /\ Drop!PollNext /\ UNCHANGED vars
  /\ InOrder
  /\ UNCHANGED scenario

\* PipelineFairness, where the pipeline runs.
Through(A) == scenario = "pipeline" /\ A

ChannelFairness ==
  /\ \A p \in Runner : WF_pollVars(Through(Starts(p) \/ RunOnce(p)))
  /\ SF_pollVars(Through(\E p \in Runner : get_updates(p)))
  /\ SF_pollVars(Through(\E p \in Runner : Accept(p) \/ Decline(p)))
  /\ \A w \in InboxWorker : WF_vars(Through(InboxStep(w)))
  /\ \A w \in OutboxWorker : WF_vars(Through(OutboxStep(w)))
  /\ WF_vars(Through(Tick))

ChannelSpec ==
  ChannelInit /\ [][ChannelNext]_<<allVars, scenario>> /\ ChannelFairness

-----------------------------------------------------------------------------
(* What the pipeline promises to a user                                    *)

\* An update becomes one inbox row at most, however often it is fetched, and is
\* declined, answered or dead-lettered at last, through every crash and replacement of
\* runners; so is every answer in the outbox.
PipelineDelivers ==
  /\ []OneRowPerUpdate
  /\ []<>(scenario = "pipeline" => AllHandled)
  /\ EveryAnswerGetsThrough
=============================================================================
