--------------------------- MODULE DeliveryProofs ---------------------------
(***************************************************************************)
(* Theorems about the two ways requests come in from other programs.       *)
(*                                                                         *)
(* TelegramPolling, for any number of runners and updates, any limit and   *)
(* staleness: the server forgets only handled updates, the stored offset   *)
(* covers only handled ones, no runner fetches an update again that it has *)
(* handled, and two runners poll together only after a late heartbeat.     *)
(*                                                                         *)
(* A2ACalls, for any set of calls under one key: the handler runs once,    *)
(* whoever was told a conclusive answer was told the stored one, and the   *)
(* stored answer never changes.                                            *)
(***************************************************************************)
EXTENDS TelegramPolling, A2ACalls, TLAPS

-----------------------------------------------------------------------------
(* A2ACalls: the reservation of a key                                      *)

\* The strengthening: only the call that reserved the key is ever at work, and
\* while it is, its reservation stands; with no reservation no handler has run.
Reservation ==
  /\ CallTypeOK
  /\ row.status = "none" => ran = {}
  /\ ran \subseteq {row.by}
  /\ \A c \in Call : pc[c] \in {"handler", "finish"} =>
       row.status = "in_progress" /\ row.by = c
  /\ \A c \in Call : pc[c] = "finish" => outcome[c] \in Outcomes
  /\ ToldIsStored

\* call: the key is free, and the call becomes its owner, or it is answered from
\* the row.
LEMMA CallKeeps ==
  ASSUME Reservation, NEW c \in Call, call(c)
  PROVE  Reservation'
<1> USE CallAssumption DEF Reservation, CallTypeOK, Outcomes, Unresolved, ToldIsStored
<1>1. CASE row.status = "none"
  BY <1>1 DEF call
<1>2. CASE row.status # "none"
  <2>1. /\ row' = row /\ ran' = ran /\ outcome' = outcome /\ stale' = stale
        /\ pc' = [pc EXCEPT ![c] = "done"]
        /\ got' = [got EXCEPT ![c] = FromRow]
    BY <1>2 DEF call, Returns
  <2>2. /\ FromRow \in Outcomes \union Unresolved
        /\ FromRow \in Outcomes => FromRow = row.status
    BY <1>2 DEF FromRow
  <2> QED
    BY <2>1, <2>2
<1> QED
  BY <1>1, <1>2

\* finish: what is told is what was written, or that nothing is known.
LEMMA FinishKeeps ==
  ASSUME Reservation, NEW c \in Call, finish(c)
  PROVE  Reservation'
<1> USE CallAssumption DEF Reservation, CallTypeOK, Outcomes, Unresolved, ToldIsStored
<1>1. /\ pc[c] = "finish" /\ row.status = "in_progress" /\ row.by = c
      /\ outcome[c] \in Outcomes
  BY DEF finish
<1>2. Finished(c) = [row EXCEPT !.status = outcome[c]] /\ Finished(c).status = outcome[c]
      /\ Finished(c).by = c /\ Finished(c) \in [status : Outcomes, by : Call]
  BY <1>1 DEF Finished
<1>3. PICK answer \in Outcomes \union {"unknown"} :
        /\ row' \in {row, Finished(c)}
        /\ answer \in Outcomes => row' = Finished(c) /\ answer = outcome[c]
        /\ pc' = [pc EXCEPT ![c] = "done"]
        /\ got' = [got EXCEPT ![c] = answer]
        /\ UNCHANGED <<outcome, ran, stale>>
  BY <1>1, <1>2 DEF finish, Returns
<1>4. \A d \in Call : got[d] \notin Outcomes
  BY <1>1
<1> QED
  BY <1>1, <1>2, <1>3, <1>4

\* Every step keeps the strengthening.
LEMMA StepKeeps ==
  ASSUME Reservation, [CallNext]_vars
  PROVE  Reservation'
<1>1. ASSUME NEW c \in Call, call(c) PROVE Reservation'
  BY <1>1, CallKeeps
<1>2. ASSUME NEW c \in Call, handler(c) PROVE Reservation'
  BY <1>2 DEF handler, Reservation, CallTypeOK, Outcomes, Unresolved, ToldIsStored
<1>3. ASSUME NEW c \in Call, finish(c) PROVE Reservation'
  BY <1>3, FinishKeeps
<1>4. ASSUME NEW c \in Call, Lose(c) PROVE Reservation'
  BY <1>4 DEF Lose, Reservation, CallTypeOK, Outcomes, Unresolved, ToldIsStored
<1>5. CASE Age
  BY <1>5 DEF Age, Reservation, CallTypeOK, Outcomes, Unresolved, ToldIsStored
<1>6. CASE UNCHANGED vars
  BY <1>6 DEF vars, Reservation, CallTypeOK, Outcomes, Unresolved, ToldIsStored
<1> QED
  BY <1>1, <1>2, <1>3, <1>4, <1>5, <1>6 DEF CallNext

\* The strengthening holds throughout.
THEOREM ReservationHolds == CallSpec => []Reservation
<1>1. CallInit => Reservation
  BY CallAssumption, Zenon DEF CallInit, Reservation, CallTypeOK, Outcomes, Unresolved, ToldIsStored
<1>2. Reservation /\ [CallNext]_vars => Reservation'
  BY StepKeeps
<1> QED
  BY <1>1, <1>2, PTL DEF CallSpec

\* A2ARuntime.call: the handler of a key is started at most once, for any number of
\* calls, whatever dies and however old the reservation is.
THEOREM HandlerOnce == CallSpec => []HandlerRunsOnce
<1>1. Reservation => HandlerRunsOnce
  BY DEF Reservation, HandlerRunsOnce
<1> QED
  BY <1>1, ReservationHolds, PTL

\* _execute_call_handler and _result_from_idempotency: a conclusive answer is told
\* to nobody unless the store has it.
THEOREM ToldWhatIsStored == CallSpec => []ToldIsStored
<1>1. Reservation => ToldIsStored
  BY DEF Reservation
<1> QED
  BY <1>1, ReservationHolds, PTL

\* finish_idempotency: an answer in the store is never changed or withdrawn.
THEOREM StoredStays == CallSpec => StoredIsFinal
<1>1. ASSUME Reservation, [CallNext]_vars, row.status \in Outcomes PROVE row' = row
  <2>1. ASSUME NEW c \in Call, call(c) PROVE row' = row
    BY <1>1, <2>1 DEF call, Outcomes
  <2>2. ASSUME NEW c \in Call, finish(c) PROVE row' = row
    BY <1>1, <2>2 DEF finish, Reservation, Outcomes
  <2> QED
    BY <1>1, <2>1, <2>2 DEF CallNext, handler, Lose, Age, vars
<1>2. Reservation /\ [CallNext]_vars => [row.status \in Outcomes => row' = row]_vars
  BY <1>1
<1> QED
  BY <1>2, ReservationHolds, PTL DEF CallSpec, StoredIsFinal

\* A2ARuntime.call keeps all it promises under a key.
THEOREM CallsKeepPromises == CallSpec => CallsAreHonoured
<1>1. Reservation => CallTypeOK
  BY DEF Reservation
<1> QED
  BY <1>1, ReservationHolds, HandlerOnce, ToldWhatIsStored, StoredStays, PTL
     DEF CallsAreHonoured

-----------------------------------------------------------------------------
(* TelegramPolling: types                                                  *)

Typed ==
  /\ PollTypeOK
  /\ \A p \in Runner : runner[p].next >= 1

\* One runner moves to a well-typed state.
LEMMA RunnerMoves ==
  ASSUME Typed, NEW p \in Runner, NEW r \in RunnerState, r.next >= 1,
         runner' = [runner EXCEPT ![p] = r]
  PROVE  runner' \in [Runner -> RunnerState] /\ \A q \in Runner : runner'[q].next >= 1
  BY DEF Typed, PollTypeOK

\* The states get_updates, Advance and _commit_offset give a runner.
LEMMA RunnerStates ==
  ASSUME NEW s \in RunnerState, NEW n \in Nat, NEW l \in 0..MaxUpdate,
         NEW u \in 0..MaxUpdate, NEW c \in 0..MaxUpdate, NEW e \in SUBSET Update
  PROVE  /\ [s EXCEPT !.pc = "batch", !.next = n, !.upto = u, !.reached = c] \in RunnerState
         /\ [s EXCEPT !.next = n, !.reached = c, !.recent = e] \in RunnerState
         /\ [s EXCEPT !.pc = "poll", !.last = l, !.next = n, !.upto = u, !.reached = c]
              \in RunnerState
<1>1. [s EXCEPT !.pc = "batch", !.next = n, !.upto = u, !.reached = c] \in RunnerState
  BY Zenon DEF RunnerState
<1>2. [s EXCEPT !.next = n, !.reached = c, !.recent = e] \in RunnerState
  BY Zenon DEF RunnerState
<1>3. [s EXCEPT !.pc = "poll", !.last = l, !.next = n, !.upto = u, !.reached = c]
        \in RunnerState
  BY Zenon DEF RunnerState
<1> QED
  BY <1>1, <1>2, <1>3

\* Starting and ending a runner keeps the types.
LEMMA StartTyped ==
  ASSUME Typed, NEW p \in Runner,
         acquire_polling_lease(p) \/ delete_webhook(p) \/ initialize(p) \/ Leave(p) \/ Crash(p)
  PROVE  Typed'
<1> USE PollingAssumption DEF Typed, PollTypeOK
<1>1. CASE acquire_polling_lease(p)
  BY <1>1 DEF acquire_polling_lease, RunnerState, Lease, Update
<1>2. CASE delete_webhook(p)
  BY <1>2 DEF delete_webhook, RunnerState, Lease, Update
<1>3. CASE initialize(p)
  <2> DEFINE newest == IF DropPending /\ posted >= confirmed THEN posted ELSE 0
             last == IF newest > 0 THEN newest ELSE stored
  <2>1. /\ newest \in 0..MaxUpdate /\ last \in 0..MaxUpdate
        /\ Later(confirmed, newest) \in 1..MaxUpdate + 1
        /\ confirmed..newest \subseteq Update
    BY DEF Later, RunnerState, Lease, Update
  <2>2. /\ runner' = [runner EXCEPT ![p].pc = "poll", ![p].last = last]
        /\ stored' = last /\ confirmed' = Later(confirmed, newest)
        /\ declined' = declined \union confirmed..newest
        /\ UNCHANGED <<posted, lease, accepted>>
    BY <1>3 DEF initialize
  <2> HIDE DEF newest, last
  <2>3. runner' \in [Runner -> RunnerState] /\ \A q \in Runner : runner'[q].next >= 1
    <3> DEFINE r == [runner[p] EXCEPT !.pc = "poll", !.last = last]
    <3>1. r \in RunnerState /\ r.next >= 1
      BY <2>1, Zenon DEF RunnerState, Update
    <3>2. runner' = [runner EXCEPT ![p] = r]
      BY <2>2, Zenon
    <3> QED
      BY <3>1, <3>2, RunnerMoves
  <2> QED
    BY <2>1, <2>2, <2>3
<1>4. CASE Leave(p)
  BY <1>4 DEF Leave, Released, NoLease, Blank, RunnerState, Lease, Update
<1>5. CASE Crash(p)
  BY <1>5 DEF Crash, Blank, RunnerState, Lease, Update
<1> QED
  BY <1>1, <1>2, <1>3, <1>4, <1>5

\* run_once keeps the types.
LEMMA RunOnceTyped ==
  ASSUME Typed, NEW p \in Runner, RunOnce(p)
  PROVE  Typed'
<1> USE PollingAssumption DEF Typed, PollTypeOK
<1>1. CASE heartbeat_polling_lease(p)
  BY <1>1 DEF heartbeat_polling_lease, RunnerState, Lease, Update
<1>2. CASE get_updates(p)
  <2> DEFINE first == Later(runner[p].last + 1, confirmed)
             upto == Earlier(posted, (first + Limit) - 1)
  <2>1. first \in 1..MaxUpdate + 1 /\ upto \in 0..MaxUpdate
    BY DEF Later, Earlier, RunnerState, Lease, Update
  <2>2. /\ runner' = [runner EXCEPT ![p].pc = "batch", ![p].next = first,
                                    ![p].upto = upto, ![p].reached = runner[p].last]
        /\ confirmed' = first /\ UNCHANGED <<posted, stored, lease, accepted, declined>>
    BY <1>2 DEF get_updates
  <2> HIDE DEF first, upto
  <2>3. runner' \in [Runner -> RunnerState] /\ \A q \in Runner : runner'[q].next >= 1
    <3> DEFINE r == [runner[p] EXCEPT !.pc = "batch", !.next = first, !.upto = upto, !.reached = runner[p].last]
    <3>1. r \in RunnerState /\ r.next >= 1
      <4>1. runner[p] \in RunnerState /\ runner[p].last \in 0..MaxUpdate /\ first \in Nat
        BY <2>1 DEF RunnerState
      <4>2. r \in RunnerState
        BY <2>1, <4>1, RunnerStates, Zenon
      <4> QED
        BY <2>1, <4>1, <4>2 DEF RunnerState
    <3>2. runner' = [runner EXCEPT ![p] = r]
      BY <2>2, Zenon
    <3> QED
      BY <3>1, <3>2, RunnerMoves
  <2> QED
    BY <2>1, <2>2, <2>3
<1>3. CASE FetchFails(p)
  BY <1>3 DEF FetchFails, RunnerState, Lease, Update
<1>4. CASE Accept(p)
  <2>1. runner[p].next \in Update
    BY <1>4 DEF Accept, InBatch, RunnerState, Lease, Update
  <2>2. runner' \in [Runner -> RunnerState] /\ \A q \in Runner : runner'[q].next >= 1
    <3> DEFINE r == [runner[p] EXCEPT !.next = @ + 1, !.reached = Later(@, runner[p].next),
                                  !.recent = @ \union {runner[p].next}]
    <3>1. r \in RunnerState /\ r.next >= 1
      <4>1. /\ runner[p] \in RunnerState /\ runner[p].next + 1 \in Nat
            /\ Later(runner[p].reached, runner[p].next) \in 0..MaxUpdate
            /\ runner[p].recent \union {runner[p].next} \in SUBSET Update
        BY <2>1 DEF Later, RunnerState, Update
      <4>2. r \in RunnerState
        BY <4>1, RunnerStates, Zenon
      <4> QED
        BY <4>1, <4>2 DEF RunnerState
    <3>2. runner' = [runner EXCEPT ![p] = r]
      BY <1>4, Zenon DEF Accept, Advance
    <3> QED
      BY <3>1, <3>2, RunnerMoves
  <2> QED
    BY <1>4, <2>1, <2>2 DEF Accept
<1>5. CASE Decline(p)
  <2>1. runner[p].next \in Update
    BY <1>5 DEF Decline, InBatch, RunnerState, Lease, Update
  <2>2. runner' \in [Runner -> RunnerState] /\ \A q \in Runner : runner'[q].next >= 1
    <3> DEFINE r == [runner[p] EXCEPT !.next = @ + 1, !.reached = Later(@, runner[p].next),
                                  !.recent = @ \union {runner[p].next}]
    <3>1. r \in RunnerState /\ r.next >= 1
      <4>1. /\ runner[p] \in RunnerState /\ runner[p].next + 1 \in Nat
            /\ Later(runner[p].reached, runner[p].next) \in 0..MaxUpdate
            /\ runner[p].recent \union {runner[p].next} \in SUBSET Update
        BY <2>1 DEF Later, RunnerState, Update
      <4>2. r \in RunnerState
        BY <4>1, RunnerStates, Zenon
      <4> QED
        BY <4>1, <4>2 DEF RunnerState
    <3>2. runner' = [runner EXCEPT ![p] = r]
      BY <1>5, Zenon DEF Decline, Advance
    <3> QED
      BY <3>1, <3>2, RunnerMoves
  <2> QED
    BY <1>5, <2>1, <2>2 DEF Decline
<1>6. CASE Raise(p)
  BY <1>6 DEF Raise, InBatch, RunnerState, Lease, Update
<1>7. CASE _commit_offset(p)
  <2>1. runner' \in [Runner -> RunnerState] /\ \A q \in Runner : runner'[q].next >= 1
    <3> DEFINE r == [runner[p] EXCEPT !.pc = "poll", !.last = runner[p].reached,
                                  !.next = 1, !.upto = 0, !.reached = 0]
    <3>1. r \in RunnerState /\ r.next >= 1
      <4>1. /\ runner[p] \in RunnerState /\ runner[p].reached \in 0..MaxUpdate
            /\ 0 \in 0..MaxUpdate /\ 1 \in Nat
        BY DEF RunnerState
      <4>2. r \in RunnerState
        BY <4>1, RunnerStates, Zenon
      <4> QED
        BY <4>1, <4>2 DEF RunnerState
    <3>2. runner' = [runner EXCEPT ![p] = r]
      BY <1>7, Zenon DEF _commit_offset
    <3> QED
      BY <3>1, <3>2, RunnerMoves
  <2>2. stored' \in 0..MaxUpdate
    BY <1>7 DEF _commit_offset, RunnerState, Lease, Update
  <2> QED
    BY <1>7, <2>1, <2>2 DEF _commit_offset
<1> QED
  BY <1>1, <1>2, <1>3, <1>4, <1>5, <1>6, <1>7 DEF RunOnce

\* So do the users and the clock.
LEMMA RestTyped ==
  ASSUME Typed, Post \/ PollTick \/ UNCHANGED pollVars
  PROVE  Typed'
<1> USE PollingAssumption DEF Typed, PollTypeOK
<1>1. CASE Post
  BY <1>1 DEF Post, RunnerState, Lease, Update
<1>2. CASE PollTick
  <2>1. lease' \in Lease
    BY <1>2 DEF PollTick, RunnerState, Lease, Update
  <2>2. runner' \in [Runner -> RunnerState] /\ \A q \in Runner : runner'[q].next >= 1
    <3>1. CASE runner' = runner
      BY <3>1
    <3>2. CASE runner' # runner
      <4> DEFINE p == lease.owner
                 b == runner[p].tardy \/ (Live(p) /\ lease.silent = StaleAfter)
                 r == [runner[p] EXCEPT !.tardy = b]
      <4>1. p \in Runner /\ runner' = [runner EXCEPT ![p].tardy = b]
        BY <1>2, <3>2 DEF PollTick
      <4>2. b \in BOOLEAN
        BY <4>1 DEF Live
      <4> HIDE DEF b
      <4>3. r \in RunnerState /\ r.next >= 1
        BY <4>1, <4>2 DEF RunnerState
      <4> QED
        BY <4>1, <4>3, RunnerMoves
    <3> QED
      BY <3>1, <3>2
  <2> QED
    BY <1>2, <2>1, <2>2 DEF PollTick
<1>3. CASE UNCHANGED pollVars
  BY <1>3 DEF pollVars, RunnerState, Lease, Update
<1> QED
  BY <1>1, <1>2, <1>3

\* Throughout, every variable has its type.
LEMMA TypedHolds == PollSpec => []Typed
<1>1. PollInit => Typed
  BY PollingAssumption DEF PollInit, Typed, PollTypeOK, RunnerState, Lease, NoLease, Blank, Update
<1>2. Typed /\ [PollNext]_pollVars => Typed'
  BY StartTyped, RunOnceTyped, RestTyped DEF PollNext
<1> QED
  BY <1>1, <1>2, PTL DEF PollSpec

-----------------------------------------------------------------------------
(* What a runner remembers                                                 *)

\* The updates a runner has handled lie behind its offsets.
Behind(r) ==
  /\ r.pc \in {"new", "init", "load", "gone"} => r.recent = {}
  /\ r.pc \in {"poll", "fetch"} => \A u \in r.recent : u <= r.last
  /\ r.pc = "batch" => \A u \in r.recent : u <= r.reached /\ u < r.next

RecentBehind == \A p \in Runner : Behind(runner[p])

\* Only the runner that moves needs a look.
LEMMA BehindMoves ==
  ASSUME RecentBehind, NEW p \in Runner, Behind(runner'[p]),
         \A q \in Runner : q # p => runner'[q] = runner[q]
  PROVE  RecentBehind'
<1>1. ASSUME NEW q \in Runner PROVE Behind(runner'[q])
  BY DEF RecentBehind
<1> QED
  BY <1>1 DEF RecentBehind, Behind

\* Starting and ending a runner: there is nothing to remember.
LEMMA StartBehind ==
  ASSUME RecentBehind, Typed, NEW p \in Runner,
         acquire_polling_lease(p) \/ delete_webhook(p) \/ initialize(p) \/ Leave(p) \/ Crash(p)
  PROVE  RecentBehind'
<1>0. runner \in [Runner -> RunnerState] /\ runner[p] \in RunnerState /\ Behind(runner[p])
  BY DEF Typed, PollTypeOK, RecentBehind
<1>1. CASE acquire_polling_lease(p) \/ delete_webhook(p) \/ initialize(p)
  <2>1. runner[p].recent = {}
    BY <1>0, <1>1 DEF acquire_polling_lease, delete_webhook, initialize, At, Behind
  <2>2. runner'[p].recent = {} /\ \A q \in Runner : q # p => runner'[q] = runner[q]
    BY <1>0, <1>1, <2>1 DEF acquire_polling_lease, delete_webhook, initialize, RunnerState
  <2>3. Behind(runner'[p])
    BY <2>2 DEF Behind
  <2> QED
    BY <2>2, <2>3, BehindMoves
<1>2. CASE Leave(p) \/ Crash(p)
  <2>1. runner'[p] = Blank("gone") /\ \A q \in Runner : q # p => runner'[q] = runner[q]
    BY <1>0, <1>2 DEF Leave, Crash
  <2>2. Behind(runner'[p])
    BY <2>1 DEF Behind, Blank
  <2> QED
    BY <2>1, <2>2, BehindMoves
<1> QED
  BY <1>1, <1>2

\* run_once: each fetch starts above what was handled.
LEMMA RunOnceBehind ==
  ASSUME RecentBehind, Typed, NEW p \in Runner, RunOnce(p)
  PROVE  RecentBehind'
<1> DEFINE r == runner[p]
<1>0. /\ runner \in [Runner -> RunnerState] /\ r \in RunnerState /\ Behind(r)
      /\ r.last \in Nat /\ r.next \in Nat /\ r.reached \in Nat /\ r.recent \subseteq Nat
      /\ confirmed \in Nat
  BY PollingAssumption DEF Typed, PollTypeOK, RecentBehind, RunnerState, Update
<1>1. \A q \in Runner : q # p => runner'[q] = runner[q]
  BY <1>0 DEF RunOnce, heartbeat_polling_lease, get_updates, FetchFails, Accept, Decline,
     Advance, Raise, _commit_offset
<1>2. CASE heartbeat_polling_lease(p) \/ FetchFails(p)
  <2>1. /\ r.pc \in {"poll", "fetch"} /\ runner'[p].pc \in {"poll", "fetch"}
        /\ runner'[p].last = r.last /\ runner'[p].recent = r.recent
    BY <1>0, <1>2 DEF heartbeat_polling_lease, FetchFails, At, RunnerState
  <2>2. Behind(runner'[p])
    BY <1>0, <2>1 DEF Behind
  <2> QED
    BY <1>1, <2>2, BehindMoves
<1>3. CASE get_updates(p)
  <2>1. /\ r.pc = "fetch" /\ runner'[p].pc = "batch" /\ runner'[p].recent = r.recent
        /\ runner'[p].reached = r.last /\ runner'[p].next = Later(r.last + 1, confirmed)
    BY <1>0, <1>3 DEF get_updates, At, RunnerState
  <2>2. Behind(runner'[p])
    BY <1>0, <2>1 DEF Behind, Later
  <2> QED
    BY <1>1, <2>2, BehindMoves
<1>4. CASE Accept(p) \/ Decline(p)
  <2>1. /\ r.pc = "batch" /\ runner'[p].pc = "batch" /\ runner'[p].recent = r.recent \union {r.next}
        /\ runner'[p].reached = Later(r.reached, r.next) /\ runner'[p].next = r.next + 1
    BY <1>0, <1>4 DEF Accept, Decline, InBatch, Advance, At, RunnerState
  <2>2. Behind(runner'[p])
    BY <1>0, <2>1 DEF Behind, Later
  <2> QED
    BY <1>1, <2>2, BehindMoves
<1>5. CASE Raise(p)
  <2>1. /\ r.pc = "batch" /\ runner'[p].pc = "batch" /\ runner'[p].recent = r.recent
        /\ runner'[p].reached = r.reached /\ runner'[p].next = r.next
    BY <1>0, <1>5 DEF Raise, InBatch, At, RunnerState
  <2>2. Behind(runner'[p])
    BY <1>0, <2>1 DEF Behind
  <2> QED
    BY <1>1, <2>2, BehindMoves
<1>6. CASE _commit_offset(p)
  <2>1. /\ r.pc = "batch" /\ runner'[p].pc = "poll" /\ runner'[p].recent = r.recent
        /\ runner'[p].last = r.reached
    BY <1>0, <1>6 DEF _commit_offset, At, RunnerState
  <2>2. Behind(runner'[p])
    BY <1>0, <2>1 DEF Behind
  <2> QED
    BY <1>1, <2>2, BehindMoves
<1> QED
  BY <1>2, <1>3, <1>4, <1>5, <1>6 DEF RunOnce

\* So do the users and the clock.
LEMMA RestBehind ==
  ASSUME RecentBehind, Typed, Post \/ PollTick \/ UNCHANGED pollVars
  PROVE  RecentBehind'
<1>1. CASE runner' = runner
  BY <1>1 DEF RecentBehind, Behind
<1>2. CASE runner' # runner
  <2>1. PICK p \in Runner : \E b : runner' = [runner EXCEPT ![p].tardy = b]
    BY <1>2 DEF Post, PollTick, pollVars
  <2>2. /\ runner'[p].pc = runner[p].pc /\ runner'[p].recent = runner[p].recent
        /\ runner'[p].last = runner[p].last /\ runner'[p].reached = runner[p].reached
        /\ runner'[p].next = runner[p].next
        /\ \A q \in Runner : q # p => runner'[q] = runner[q]
    BY <2>1 DEF Typed, PollTypeOK, RunnerState
  <2>3. Behind(runner'[p])
    BY <2>2 DEF RecentBehind, Behind
  <2> QED
    BY <2>2, <2>3, BehindMoves
<1> QED
  BY <1>1, <1>2

-----------------------------------------------------------------------------
(* What has been handled                                                   *)

Handled(n) == \A u \in 1..n : u \in accepted \union declined
HandledNext(n) == \A u \in 1..n : u \in accepted' \union declined'

\* Every offset, on the server, in the store and in the memory of a runner, has only
\* handled updates below it.
OffsetsAreSafe ==
  /\ Handled(confirmed - 1)
  /\ Handled(stored)
  /\ \A p \in Runner : /\ Handled(runner[p].last) /\ Handled(runner[p].reached)
                       /\ Handled(runner[p].next - 1)

\* What was handled stays handled, so only the runner that moves, the server and the
\* store need a look.
LEMMA OffsetsMove ==
  ASSUME OffsetsAreSafe, Typed, NEW p \in Runner,
         accepted \subseteq accepted', declined \subseteq declined',
         \A q \in Runner : q # p => runner'[q] = runner[q],
         HandledNext(runner'[p].last), HandledNext(runner'[p].reached),
         HandledNext(runner'[p].next - 1), HandledNext(stored'), HandledNext(confirmed' - 1)
  PROVE  OffsetsAreSafe'
<1>1. ASSUME NEW q \in Runner
      PROVE  /\ HandledNext(runner'[q].last) /\ HandledNext(runner'[q].reached)
             /\ HandledNext(runner'[q].next - 1)
  <2>1. CASE q = p
    BY <2>1
  <2>2. CASE q # p
    <3>1. runner'[q] = runner[q]
      BY <2>2
    <3>2. /\ Handled(runner[q].last) /\ Handled(runner[q].reached)
          /\ Handled(runner[q].next - 1)
      BY DEF OffsetsAreSafe
    <3> QED
      BY <3>1, <3>2 DEF Handled, HandledNext
  <2> QED
    BY <2>1, <2>2
<1> QED
  BY <1>1 DEF OffsetsAreSafe, Handled, HandledNext

\* Starting and ending a runner: what is skipped on request counts as declined.
LEMMA StartSafe ==
  ASSUME OffsetsAreSafe, Typed, NEW p \in Runner,
         acquire_polling_lease(p) \/ delete_webhook(p) \/ initialize(p) \/ Leave(p) \/ Crash(p)
  PROVE  OffsetsAreSafe'
<1> USE DEF Typed, PollTypeOK
<1>1. CASE acquire_polling_lease(p)
  <2>1. /\ runner' = [runner EXCEPT ![p].pc = "init"]
        /\ UNCHANGED <<confirmed, stored, accepted, declined>>
    BY <1>1 DEF acquire_polling_lease
  <2>2. /\ runner'[p].last = runner[p].last /\ runner'[p].reached = runner[p].reached
        /\ runner'[p].next = runner[p].next
        /\ \A q \in Runner : q # p => runner'[q] = runner[q]
    BY <2>1 DEF RunnerState
  <2> QED
    BY <2>1, <2>2, OffsetsMove DEF OffsetsAreSafe, Handled, HandledNext
<1>2. CASE delete_webhook(p)
  <2>1. /\ runner' = [runner EXCEPT ![p].pc = "load"] /\ stored' = stored /\ accepted' = accepted
        /\ \/ confirmed' = confirmed /\ declined' = declined
           \/ confirmed' = posted + 1 /\ declined' = declined \union confirmed..posted
    BY <1>2 DEF delete_webhook
  <2>2. /\ runner'[p].last = runner[p].last /\ runner'[p].reached = runner[p].reached
        /\ runner'[p].next = runner[p].next
        /\ \A q \in Runner : q # p => runner'[q] = runner[q]
    BY <2>1 DEF RunnerState
  <2>3. HandledNext(confirmed' - 1)
    BY <2>1 DEF OffsetsAreSafe, Handled, HandledNext
  <2> QED
    BY <2>1, <2>2, <2>3, OffsetsMove DEF OffsetsAreSafe, Handled, HandledNext
<1>3. CASE initialize(p)
  <2> DEFINE newest == IF DropPending /\ posted >= confirmed THEN posted ELSE 0
  <2>1. /\ runner' = [runner EXCEPT ![p].pc = "poll",
                                    ![p].last = IF newest > 0 THEN newest ELSE stored]
        /\ stored' = IF newest > 0 THEN newest ELSE stored
        /\ confirmed' = Later(confirmed, newest) /\ accepted' = accepted
        /\ declined' = declined \union confirmed..newest
        /\ newest \in Nat /\ confirmed \in Nat \ {0} /\ stored \in Nat
    BY <1>3 DEF initialize
  <2> HIDE DEF newest
  <2>2. /\ runner'[p].last = stored' /\ runner'[p].reached = runner[p].reached
        /\ runner'[p].next = runner[p].next
        /\ \A q \in Runner : q # p => runner'[q] = runner[q]
    BY <2>1 DEF RunnerState
  <2>3. HandledNext(newest)
    BY <2>1 DEF OffsetsAreSafe, Handled, HandledNext
  <2>4. HandledNext(confirmed' - 1) /\ HandledNext(stored')
    BY <2>1, <2>3 DEF OffsetsAreSafe, Handled, HandledNext, Later
  <2> QED
    BY <2>1, <2>2, <2>4, OffsetsMove DEF OffsetsAreSafe, Handled, HandledNext
<1>4. CASE Leave(p) \/ Crash(p)
  <2>1. /\ runner' = [runner EXCEPT ![p] = Blank("gone")]
        /\ UNCHANGED <<confirmed, stored, accepted, declined>>
    BY <1>4 DEF Leave, Crash
  <2>2. /\ runner'[p].last = 0 /\ runner'[p].reached = 0 /\ runner'[p].next = 1
        /\ \A q \in Runner : q # p => runner'[q] = runner[q]
    BY <2>1 DEF Blank
  <2> QED
    BY <2>1, <2>2, OffsetsMove DEF OffsetsAreSafe, Handled, HandledNext
<1> QED
  BY <1>1, <1>2, <1>3, <1>4

\* run_once: an update is passed only when it has been handled.
LEMMA RunOnceSafe ==
  ASSUME OffsetsAreSafe, RecentBehind, Typed, NEW p \in Runner, RunOnce(p)
  PROVE  OffsetsAreSafe'
<1> USE DEF Typed, PollTypeOK
<1>0. runner[p] \in RunnerState
  OBVIOUS
<1>1. CASE heartbeat_polling_lease(p) \/ FetchFails(p) \/ Raise(p)
  <2>1. /\ confirmed' = confirmed /\ stored' = stored /\ declined' = declined
        /\ accepted \subseteq accepted'
    BY <1>1 DEF heartbeat_polling_lease, FetchFails, Raise
  <2>2. /\ runner'[p].last = runner[p].last /\ runner'[p].reached = runner[p].reached
        /\ runner'[p].next = runner[p].next
        /\ \A q \in Runner : q # p => runner'[q] = runner[q]
    BY <1>0, <1>1 DEF heartbeat_polling_lease, FetchFails, Raise, RunnerState
  <2> QED
    BY <2>1, <2>2, OffsetsMove DEF OffsetsAreSafe, Handled, HandledNext
<1>2. CASE get_updates(p)
  <2>1. /\ runner' = [runner EXCEPT ![p].pc = "batch", ![p].next = confirmed',
               ![p].upto = Earlier(posted, (confirmed' + Limit) - 1),
               ![p].reached = runner[p].last]
        /\ confirmed' = Later(runner[p].last + 1, confirmed)
        /\ UNCHANGED <<stored, accepted, declined>>
    BY <1>2 DEF get_updates
  <2>2. /\ runner'[p].last = runner[p].last /\ runner'[p].reached = runner[p].last
        /\ runner'[p].next = confirmed'
        /\ \A q \in Runner : q # p => runner'[q] = runner[q]
    BY <1>0, <2>1 DEF RunnerState
  <2>3. HandledNext(confirmed' - 1)
    <3>1. runner[p].last \in Nat /\ confirmed \in Nat
      BY <1>0 DEF RunnerState
    <3> QED
      BY <2>1, <3>1 DEF OffsetsAreSafe, Handled, HandledNext, Later
  <2> QED
    BY <2>1, <2>2, <2>3, OffsetsMove, Zenon DEF OffsetsAreSafe, Handled, HandledNext
<1>3. CASE Accept(p) \/ Decline(p)
  <2> DEFINE n == runner[p].next
  <2>1. /\ n \notin runner[p].recent /\ n \in Nat /\ runner[p].reached \in Nat
    BY <1>0, <1>3 DEF Accept, Decline, InBatch, At, RecentBehind, Behind, RunnerState
  <2>2. /\ n \in accepted' \union declined'
        /\ accepted \subseteq accepted' /\ declined \subseteq declined'
        /\ confirmed' = confirmed /\ stored' = stored /\ Advance(p)
    BY <1>3, <2>1 DEF Accept, Decline
  <2>3. /\ runner'[p].last = runner[p].last /\ runner'[p].reached = Later(runner[p].reached, n)
        /\ runner'[p].next = n + 1
        /\ \A q \in Runner : q # p => runner'[q] = runner[q]
    BY <1>0, <2>2 DEF Advance, RunnerState
  <2> HIDE DEF n
  <2>4. Handled(n - 1)
    BY DEF OffsetsAreSafe, n
  <2>5. HandledNext(n)
    BY <2>1, <2>2, <2>4 DEF Handled, HandledNext
  <2>6. HandledNext(runner'[p].next - 1) /\ HandledNext(runner'[p].reached)
    BY <2>1, <2>2, <2>3, <2>5 DEF OffsetsAreSafe, Handled, HandledNext, Later
  <2> QED
    BY <2>2, <2>3, <2>6, OffsetsMove DEF OffsetsAreSafe, Handled, HandledNext
<1>4. CASE _commit_offset(p)
  <2>1. /\ UNCHANGED <<confirmed, accepted, declined>>
        /\ stored' = stored \/ stored' = runner[p].reached
        /\ runner' = [runner EXCEPT ![p].pc = "poll", ![p].last = runner[p].reached,
                              ![p].next = 1, ![p].upto = 0, ![p].reached = 0]
    BY <1>4 DEF _commit_offset
  <2>2. /\ runner'[p].last = runner[p].reached /\ runner'[p].reached = 0
        /\ runner'[p].next = 1
        /\ \A q \in Runner : q # p => runner'[q] = runner[q]
    BY <1>0, <2>1 DEF RunnerState
  <2>3. /\ HandledNext(runner[p].reached) /\ HandledNext(stored)
        /\ HandledNext(confirmed - 1) /\ HandledNext(0) /\ HandledNext(1 - 1)
    BY <2>1 DEF OffsetsAreSafe, Handled, HandledNext
  <2> QED
    BY <2>1, <2>2, <2>3, OffsetsMove
<1> QED
  BY <1>1, <1>2, <1>3, <1>4 DEF RunOnce

\* So do the users and the clock.
LEMMA RestSafe ==
  ASSUME OffsetsAreSafe, Typed, Post \/ PollTick \/ UNCHANGED pollVars
  PROVE  OffsetsAreSafe'
<1>1. UNCHANGED <<confirmed, stored, accepted, declined>>
  BY DEF Post, PollTick, pollVars
<1>2. CASE runner' = runner
  BY <1>1, <1>2 DEF OffsetsAreSafe, Handled
<1>3. CASE runner' # runner
  <2>1. PICK p \in Runner : \E b : runner' = [runner EXCEPT ![p].tardy = b]
    BY <1>3 DEF Post, PollTick, pollVars
  <2>2. /\ runner'[p].last = runner[p].last /\ runner'[p].reached = runner[p].reached
        /\ runner'[p].next = runner[p].next
        /\ \A q \in Runner : q # p => runner'[q] = runner[q]
    BY <2>1 DEF Typed, PollTypeOK, RunnerState
  <2> QED
    BY <1>1, <2>2, OffsetsMove DEF OffsetsAreSafe, Handled, HandledNext
<1> QED
  BY <1>2, <1>3

\* Types, memories and offsets hold throughout.
THEOREM PollingInvariant == PollSpec => [](RecentBehind /\ OffsetsAreSafe)
<1>1. PollInit => RecentBehind /\ OffsetsAreSafe
  BY DEF PollInit, RecentBehind, Behind, OffsetsAreSafe, Handled, Blank
<1>2. Typed /\ RecentBehind /\ OffsetsAreSafe /\ [PollNext]_pollVars
        => (RecentBehind /\ OffsetsAreSafe)'
  <2> SUFFICES ASSUME Typed, RecentBehind, OffsetsAreSafe, [PollNext]_pollVars
               PROVE  RecentBehind' /\ OffsetsAreSafe'
    OBVIOUS
  <2>1. ASSUME NEW p \in Runner, RunOnce(p) PROVE RecentBehind' /\ OffsetsAreSafe'
    BY <2>1, RunOnceBehind, RunOnceSafe
  <2>2. ASSUME NEW p \in Runner,
               acquire_polling_lease(p) \/ delete_webhook(p) \/ initialize(p) \/ Leave(p)
               \/ Crash(p)
        PROVE  RecentBehind' /\ OffsetsAreSafe'
    BY <2>2, StartBehind, StartSafe
  <2>3. CASE Post \/ PollTick \/ UNCHANGED pollVars
    BY <2>3, RestBehind, RestSafe
  <2> QED
    BY <2>1, <2>2, <2>3 DEF PollNext
<1> QED
  BY <1>1, <1>2, TypedHolds, PTL DEF PollSpec

\* get_updates and _process_update: the server is never told to forget an update
\* that was not handled, whatever crashes, fails or runs twice.
THEOREM UpdatesAreNotLost == PollSpec => []NoUpdateLost
<1>1. OffsetsAreSafe => NoUpdateLost
  BY DEF OffsetsAreSafe, Handled, NoUpdateLost
<1> QED
  BY <1>1, PollingInvariant, PTL

\* _commit_offset: the stored offset covers only handled updates.
THEOREM StoredOffsetIsSafe == PollSpec => []OffsetIsSafe
<1>1. OffsetsAreSafe => OffsetIsSafe
  BY DEF OffsetsAreSafe, Handled, OffsetIsSafe
<1> QED
  BY <1>1, PollingInvariant, PTL

\* run_once: no runner is given an update again that it has handled.
THEOREM NothingRefetched == PollSpec => []NeverRefetched
<1>1. Typed /\ RecentBehind => NeverRefetched
  <2> SUFFICES ASSUME Typed, RecentBehind, NEW p \in Runner, At(p, "batch")
               PROVE  runner[p].next..runner[p].upto \cap runner[p].recent = {}
    BY DEF NeverRefetched
  <2>1. /\ runner[p].next \in Nat /\ runner[p].recent \subseteq Nat
        /\ \A u \in runner[p].recent : u < runner[p].next
    BY DEF Typed, PollTypeOK, RunnerState, Update, RecentBehind, Behind, At
  <2> QED
    BY <2>1
<1> QED
  BY <1>1, TypedHolds, PollingInvariant, PTL

-----------------------------------------------------------------------------
(* The lease                                                               *)

\* A live runner whose heartbeat was never late owns the lease, and the lease of a
\* live runner goes stale only when the runner is marked as late.
PromptOwns ==
  /\ \A p \in Runner : Live(p) /\ ~runner[p].tardy => lease.owner = p
  /\ \A p \in Runner : lease.owner = p /\ Live(p) /\ lease.silent > StaleAfter
       => runner[p].tardy

\* acquire_polling_lease: whoever is replaced is gone or late.
LEMMA AcquirePrompt ==
  ASSUME PromptOwns, Typed, NEW p \in Runner, acquire_polling_lease(p)
  PROVE  PromptOwns'
<1>1. /\ lease' = [owner |-> p, silent |-> 0]
      /\ runner' = [runner EXCEPT ![p].pc = "init"]
      /\ \/ lease.owner = NULL
         \/ lease.owner \in Runner /\ (~Live(lease.owner) \/ lease.silent > StaleAfter)
  BY DEF acquire_polling_lease
<1>2. /\ lease'.owner = p /\ lease'.silent = 0 /\ ~(0 > StaleAfter)
      /\ \A q \in Runner : q # p => runner'[q] = runner[q]
  BY <1>1, PollingAssumption DEF Typed, PollTypeOK
<1>3. ASSUME NEW q \in Runner, q # p, Live(q) PROVE runner[q].tardy
  BY <1>1, <1>3, PollingAssumption DEF PromptOwns
<1> QED
  BY <1>2, <1>3 DEF PromptOwns, Live

\* The other steps of a runner: it stays as prompt as it was, or it ends.
LEMMA RunnerPrompt ==
  ASSUME PromptOwns, Typed, NEW p \in Runner,
         delete_webhook(p) \/ initialize(p) \/ RunOnce(p) \/ Leave(p) \/ Crash(p)
  PROVE  PromptOwns'
<1>0. runner \in [Runner -> RunnerState] /\ runner[p] \in RunnerState /\ lease \in Lease
  BY DEF Typed, PollTypeOK
<1>1. CASE Leave(p) \/ Crash(p)
  <2>1. /\ runner'[p] = Blank("gone") /\ \A q \in Runner : q # p => runner'[q] = runner[q]
        /\ lease' = lease \/ (lease.owner = p /\ lease' = NoLease)
    BY <1>0, <1>1 DEF Leave, Crash, Released
  <2>2. ~(runner'[p].pc \notin {"new", "gone"}) /\ NoLease.owner = NULL
    BY <2>1 DEF Blank, NoLease
  <2> QED
    BY <2>1, <2>2, PollingAssumption DEF PromptOwns, Live
<1>2. CASE delete_webhook(p) \/ initialize(p) \/ RunOnce(p)
  <2>1. \A q \in Runner : q # p => runner'[q] = runner[q]
    BY <1>0, <1>2, Zenon DEF RunOnce, heartbeat_polling_lease, get_updates, FetchFails, Accept,
       Decline, Advance, Raise, _commit_offset, delete_webhook, initialize
  <2>2. Live(p) /\ runner'[p].pc \notin {"new", "gone"} /\ runner'[p].tardy = runner[p].tardy
    <3>1. CASE delete_webhook(p) \/ initialize(p)
      BY <1>0, <3>1 DEF delete_webhook, initialize, Live, At, RunnerState
    <3>2. CASE heartbeat_polling_lease(p) \/ get_updates(p) \/ FetchFails(p) \/ _commit_offset(p)
      BY <1>0, <3>2 DEF heartbeat_polling_lease, get_updates, FetchFails, _commit_offset, Live,
         At, RunnerState
    <3>3. CASE Accept(p) \/ Decline(p) \/ Raise(p)
      BY <1>0, <3>3 DEF Accept, Decline, Raise, InBatch, Advance, Live, At, RunnerState
    <3> QED
      BY <1>2, <3>1, <3>2, <3>3 DEF RunOnce
  <2>3. lease'.owner = lease.owner /\ (lease'.silent = lease.silent \/ lease'.silent = 0)
    BY <1>0, <1>2 DEF RunOnce, heartbeat_polling_lease, get_updates, FetchFails, Accept,
       Decline, Raise, _commit_offset, delete_webhook, initialize, Lease
  <2>4. ~(0 > StaleAfter)
    BY PollingAssumption
  <2> QED
    BY <2>1, <2>2, <2>3, <2>4 DEF PromptOwns, Live
<1> QED
  BY <1>1, <1>2

\* The clock: the heartbeat that gets too old marks its runner.
LEMMA RestPrompt ==
  ASSUME PromptOwns, Typed, Post \/ PollTick \/ UNCHANGED pollVars
  PROVE  PromptOwns'
<1>0. runner \in [Runner -> RunnerState] /\ lease \in Lease
  BY DEF Typed, PollTypeOK
<1>1. CASE lease' = lease /\ runner' = runner
  BY <1>1 DEF PromptOwns, Live
<1>2. CASE ~(lease' = lease /\ runner' = runner)
  <2> DEFINE p == lease.owner
             b == runner[p].tardy \/ (Live(p) /\ lease.silent = StaleAfter)
  <2>1. /\ p \in Runner /\ lease.silent <= StaleAfter
        /\ lease' = [lease EXCEPT !.silent = lease.silent + 1]
        /\ runner' = [runner EXCEPT ![p].tardy = b]
    BY <1>2 DEF Post, PollTick, pollVars
  <2>2. /\ lease'.owner = p /\ lease'.silent = lease.silent + 1
        /\ \A q \in Runner : q # p => runner'[q] = runner[q]
        /\ runner'[p].pc = runner[p].pc /\ runner'[p].tardy = b
    BY <1>0, <2>1 DEF Lease, RunnerState
  <2>3. lease.silent \in Nat /\ StaleAfter \in Nat
    BY <1>0, PollingAssumption DEF Lease
  <2>4. lease'.silent > StaleAfter => lease.silent = StaleAfter
    BY <2>1, <2>2, <2>3
  <2> QED
    BY <2>1, <2>2, <2>4, Zenon DEF PromptOwns, Live
<1> QED
  BY <1>1, <1>2

\* acquire_polling_lease and heartbeat_polling_lease: two runners are at work together
\* only if the heartbeat of one of them was late.
THEOREM TogetherOnlyIfLate == PollSpec => []OnePromptRunner
<1>1. PollInit => PromptOwns
  BY DEF PollInit, PromptOwns, Live, Blank
<1>2. Typed /\ PromptOwns /\ [PollNext]_pollVars => PromptOwns'
  <2> SUFFICES ASSUME Typed, PromptOwns, [PollNext]_pollVars PROVE PromptOwns'
    OBVIOUS
  <2>1. ASSUME NEW p \in Runner, acquire_polling_lease(p) PROVE PromptOwns'
    BY <2>1, AcquirePrompt
  <2>2. ASSUME NEW p \in Runner,
               delete_webhook(p) \/ initialize(p) \/ RunOnce(p) \/ Leave(p) \/ Crash(p)
        PROVE  PromptOwns'
    BY <2>2, RunnerPrompt
  <2>3. CASE Post \/ PollTick \/ UNCHANGED pollVars
    BY <2>3, RestPrompt
  <2> QED
    BY <2>1, <2>2, <2>3 DEF PollNext
<1>3. PromptOwns => OnePromptRunner
  BY DEF PromptOwns, OnePromptRunner
<1> QED
  BY <1>1, <1>2, <1>3, TypedHolds, PTL DEF PollSpec

\* The polling runner as a whole: nothing is lost, fetched twice by a runner, or polled
\* by two prompt runners.
THEOREM PollingKeepsPromises == PollSpec => []PollingIsSafe
<1>1. Typed => PollTypeOK
  BY DEF Typed
<1> QED
  BY <1>1, TypedHolds, UpdatesAreNotLost, StoredOffsetIsSafe, NothingRefetched,
     TogetherOnlyIfLate, PTL DEF PollingIsSafe

=============================================================================
