-------------------------- MODULE GatewayTurnProofs --------------------------
(***************************************************************************)
(* For any turns, requests, inputs, time to live and number of deletions.  *)
(*                                                                         *)
(* Of the lease: within a life of the session the accepted writes come in  *)
(* the order of the fences, and the writers of a fence belong to one       *)
(* request.  Of the gateway: it uses the lease as SessionTurnLease says;   *)
(* an answer that was handed over is in the records of the run; and it is  *)
(* handed over once unless the turn lost its lease on the way.             *)
(***************************************************************************)
EXTENDS GatewayTurn, TLAPS

-----------------------------------------------------------------------------
(* The lease                                                               *)

Row == [request : Request \union {NULL}, fence : Nat, left : 0..TTL, released : BOOLEAN]
Entry == [life : Nat, born : Nat, fence : Nat, by : Turn]

\* No token of this life is ahead of the row, and one that is level with it belongs
\* to the request in the row.
TokensFollow ==
  \A t \in Turn :
    token[t] # NoToken =>
      /\ token[t].life <= life
      /\ token[t].fence > 0
      /\ token[t].life = life => /\ token[t].fence <= row.fence
                                 /\ token[t].fence = row.fence => request[t] = row.request

\* The same of an entry of the log.
Follows(e) ==
  /\ e.life <= life
  /\ e.life = life =>
       /\ e.fence <= row.fence
       /\ e.fence = row.fence /\ e.born = life => request[e.by] = row.request

LogFollows == \A i \in 1..Len(log) : Follows(log[i])

\* The strengthening of the two properties.
Fenced ==
  /\ LeaseTypeOK
  /\ TokensFollow
  /\ row.released \/ row.fence > 0
  /\ LogFollows
  /\ FencesNeverGoBack
  /\ OneRequestPerFence

\* The row keeps its fence and its request: renew, release and the clock.
LEMMA SameFenceKeeps ==
  ASSUME Fenced, LeaseTypeOK', UNCHANGED <<life, token, log>>,
         row'.fence = row.fence, row'.request = row.request,
         row.released => row'.released
  PROVE  Fenced'
<1>1. TokensFollow'
  BY DEF Fenced, TokensFollow, NoToken
<1>2. LogFollows'
  BY DEF Fenced, LogFollows, Follows
<1> QED
  BY <1>1, <1>2 DEF Fenced, FencesNeverGoBack, OneRequestPerFence

\* acquire: the fence stays with the request that holds it, or becomes one that
\* nobody has.
LEMMA AcquireKeeps ==
  ASSUME Fenced, NEW t \in Turn, acquire(t)
  PROVE  Fenced'
<1> USE LeaseAssumption
<1> DEFINE f == IF Active THEN row.fence ELSE row.fence + 1
<1>1. /\ row' = [request |-> request[t], fence |-> f, left |-> TTL, released |-> FALSE]
      /\ token' = [token EXCEPT ![t] = [life |-> life, fence |-> f]]
      /\ life' = life /\ log' = log
  BY DEF acquire
<1>2. /\ row.fence \in Nat /\ f \in Nat /\ life \in Nat /\ request[t] \in Request
      /\ row \in Row
      /\ token \in [Turn -> [life : Nat, fence : Nat]]
      /\ log \in Seq(Entry)
  BY DEF Fenced, LeaseTypeOK, Entry, Row
<1>3. \/ f = row.fence /\ request[t] = row.request
      \/ f = row.fence + 1
  BY DEF acquire, Busy, Active
<1>7. row'.fence = f /\ row'.request = request[t]
  BY <1>1
<1>8. f > 0
  BY <1>2 DEF Active, Fenced
<1> HIDE DEF f
<1>4. LeaseTypeOK'
  BY <1>1, <1>2 DEF LeaseTypeOK, Entry, Row
<1>5. TokensFollow'
  <2> SUFFICES ASSUME NEW u \in Turn, token'[u] # NoToken
               PROVE  /\ token'[u].life <= life
                      /\ token'[u].fence > 0
                      /\ token'[u].life = life =>
                           /\ token'[u].fence <= f
                           /\ token'[u].fence = f => request[u] = request[t]
    BY <1>1, <1>7 DEF TokensFollow, NoToken
  <2>1. CASE u = t
    BY <2>1, <1>8, <1>1, <1>2
  <2>2. CASE u # t
    <3>1. token'[u] = token[u]
      BY <2>2, <1>1, <1>2
    <3> QED
      BY <3>1, <1>2, <1>3 DEF Fenced, TokensFollow
  <2> QED
    BY <2>1, <2>2
<1>6. LogFollows'
  <2> SUFFICES ASSUME NEW i \in 1..Len(log)
               PROVE  Follows(log[i])'
    BY <1>1 DEF LogFollows
  <2>1. PICK e \in Entry : e = log[i]
    BY <1>2
  <2>2. Follows(e)
    BY <2>1 DEF Fenced, LogFollows
  <2>3. /\ e.life <= life
        /\ e.life = life =>
             /\ e.fence <= f
             /\ e.fence = f /\ e.born = life => request[e.by] = request[t]
    <3>1. e.fence \in Nat /\ row.fence \in Nat
      BY <1>2 DEF Entry
    <3>2. CASE f = row.fence /\ request[t] = row.request
      BY <2>2, <3>2 DEF Follows
    <3>3. CASE f = row.fence + 1
      BY <2>2, <3>1, <3>3 DEF Follows
    <3> QED
      BY <1>3, <3>2, <3>3
  <2> QED
    BY <1>1, <1>7, <2>1, <2>3 DEF Follows
<1> QED
  BY <1>1, <1>7, <1>8, <1>4, <1>5, <1>6 DEF Fenced, FencesNeverGoBack, OneRequestPerFence

\* write: the entry is level with the row, and no earlier one is ahead of it.
LEMMA WriteKeeps ==
  ASSUME Fenced, NEW t \in Turn, write(t)
  PROVE  Fenced'
<1> USE LeaseAssumption
<1> DEFINE e == [life |-> life, born |-> token[t].life, fence |-> token[t].fence, by |-> t]
<1>1. /\ row' = row /\ life' = life /\ token' = token
      /\ log' = log \/ log' = Append(log, e)
      /\ token[t] # NoToken /\ row.fence = token[t].fence
  BY DEF write, assert_fence, Logged
<1>2. /\ row.fence \in Nat /\ life \in Nat /\ e \in Entry
      /\ token \in [Turn -> [life : Nat, fence : Nat]]
      /\ log \in Seq(Entry)
  BY DEF Fenced, LeaseTypeOK, Entry
<1>3. /\ e.life = life /\ e.fence = row.fence /\ e.by = t /\ e.born = token[t].life
      /\ e.born = life => request[t] = row.request
  BY <1>1, <1>2 DEF Fenced, TokensFollow
<1>4. CASE log' = log
  BY <1>1, <1>4, SameFenceKeeps DEF Fenced, LeaseTypeOK
<1>5. CASE log' = Append(log, e)
  <2> HIDE DEF e
  <2>1. /\ Len(log) \in Nat /\ Len(log') = Len(log) + 1
        /\ log' \in Seq(Entry)
        /\ \A i \in 1..Len(log) : log'[i] = log[i] /\ log[i] \in Entry
        /\ log'[Len(log) + 1] = e
    BY <1>2, <1>5
  <2>2. \A i \in 1..Len(log') : (i \in 1..Len(log) /\ log'[i] = log[i]) \/ log'[i] = e
    BY <2>1
  <2>3. LeaseTypeOK' /\ TokensFollow' /\ (row.released \/ row.fence > 0)'
    BY <1>1, <2>1, Zenon DEF Fenced, LeaseTypeOK, TokensFollow, NoToken, Entry
  <2>4. \A i \in 1..Len(log) : Follows(log[i])
    BY DEF Fenced, LogFollows
  <2>5. Follows(e)
    BY <1>2, <1>3 DEF Follows
  <2>6. LogFollows'
    <3> SUFFICES ASSUME NEW i \in 1..Len(log')
                 PROVE  Follows(log[i])'
      BY DEF LogFollows
    <3>1. Follows(log'[i])
      BY <2>2, <2>4, <2>5
    <3> QED
      BY <1>1, <3>1 DEF Follows
  <2>7. FencesNeverGoBack'
    <3> SUFFICES ASSUME NEW i \in 1..Len(log'), NEW j \in 1..Len(log'), i <= j,
                        log'[i].life = log'[j].life
                 PROVE  log'[i].fence <= log'[j].fence
      BY DEF FencesNeverGoBack
    <3>1. CASE j \in 1..Len(log)
      BY <2>1, <3>1 DEF Fenced, FencesNeverGoBack
    <3>2. CASE j \notin 1..Len(log)
      <4>1. log'[j] = e
        BY <2>1, <3>2
      <4>2. Follows(log'[i])
        BY <2>2, <2>4, <2>5
      <4> QED
        BY <1>3, <4>1, <4>2 DEF Follows
    <3> QED
      BY <3>1, <3>2
  <2>8. OneRequestPerFence'
    <3> SUFFICES ASSUME NEW i \in 1..Len(log'), NEW j \in 1..Len(log'),
                        log'[i].life = log'[j].life, log'[i].fence = log'[j].fence,
                        log'[i].born = log'[i].life, log'[j].born = log'[j].life
                 PROVE  request[log'[i].by] = request[log'[j].by]
      BY DEF OneRequestPerFence
    <3>1. CASE i \in 1..Len(log) /\ j \in 1..Len(log)
      BY <2>1, <3>1 DEF Fenced, OneRequestPerFence
    <3>2. CASE i \notin 1..Len(log) \/ j \notin 1..Len(log)
      <4>1. log'[i] = e \/ log'[j] = e
        BY <2>1, <3>2
      <4>2. Follows(log'[i]) /\ Follows(log'[j])
        BY <2>2, <2>4, <2>5
      <4> QED
        BY <1>3, <4>1, <4>2 DEF Follows
    <3> QED
      BY <3>1, <3>2
  <2> QED
    BY <2>3, <2>6, <2>7, <2>8 DEF Fenced
<1> QED
  BY <1>1, <1>4, <1>5

\* delete_session: of the new life there is neither a token nor an entry.
LEMMA DeleteKeeps ==
  ASSUME Fenced, delete_session
  PROVE  Fenced'
<1>1. row' = NoRow /\ life' = life + 1 /\ token' = token /\ log' = log /\ life \in Nat
  BY DEF Fenced, LeaseTypeOK, delete_session
<1>2. LeaseTypeOK' /\ (row.released \/ row.fence > 0)'
  BY <1>1, LeaseAssumption DEF Fenced, LeaseTypeOK, NoRow
<1>3. TokensFollow'
  BY <1>1 DEF Fenced, LeaseTypeOK, TokensFollow, NoToken
<1>4. LogFollows'
  <2> SUFFICES ASSUME NEW i \in 1..Len(log)
               PROVE  Follows(log[i])'
    BY <1>1 DEF LogFollows
  <2>1. log[i].life \in Nat /\ log[i].life <= life
    <3>1. log \in Seq(Entry)
      BY DEF Fenced, LeaseTypeOK, Entry
    <3>2. log[i] \in Entry
      BY <3>1
    <3> QED
      BY <3>2 DEF Fenced, LogFollows, Follows, Entry
  <2> QED
    BY <1>1, <2>1 DEF Follows
<1> QED
  BY <1>1, <1>2, <1>3, <1>4 DEF Fenced, FencesNeverGoBack, OneRequestPerFence

\* Every step keeps the strengthening.
LEMMA LeaseStepKeeps ==
  ASSUME Fenced, [LeaseNext]_leaseVars
  PROVE  Fenced'
<1>1. ASSUME NEW t \in Turn, acquire(t) PROVE Fenced'
  BY <1>1, AcquireKeeps
<1>2. ASSUME NEW t \in Turn, renew(t) PROVE Fenced'
  <2>4. row \in Row /\ TTL \in 0..TTL
    BY LeaseAssumption DEF Fenced, LeaseTypeOK, Row
  <2>5. row' \in Row
    BY <1>2, <2>4 DEF renew, Row
  <2>1. LeaseTypeOK'
    BY <1>2, <2>5 DEF Fenced, LeaseTypeOK, renew, Row
  <2>2. /\ row'.fence = row.fence /\ row'.request = row.request
        /\ row'.released = row.released
    BY <1>2 DEF Fenced, LeaseTypeOK, renew
  <2> QED
    BY <1>2, <2>1, <2>2, SameFenceKeeps DEF renew
<1>3. ASSUME NEW t \in Turn, release(t) PROVE Fenced'
  <2>1. LeaseTypeOK'
    BY <1>3, Zenon DEF Fenced, LeaseTypeOK, release
  <2>2. /\ row'.fence = row.fence /\ row'.request = row.request
        /\ row.released => row'.released
    BY <1>3 DEF Fenced, LeaseTypeOK, release
  <2> QED
    BY <1>3, <2>1, <2>2, SameFenceKeeps DEF release
<1>4. ASSUME NEW t \in Turn, write(t) PROVE Fenced'
  BY <1>4, WriteKeeps
<1>5. CASE delete_session
  BY <1>5, DeleteKeeps
<1>6. CASE Tick
  <2>4. row \in Row /\ TTL \in Nat
    BY LeaseAssumption DEF Fenced, LeaseTypeOK, Row
  <2>5. (IF row.left > 0 THEN row.left - 1 ELSE 0) \in 0..TTL
    BY <2>4 DEF Row
  <2>6. row' \in Row
    BY <1>6, <2>4, <2>5 DEF Tick, Row
  <2>1. LeaseTypeOK'
    BY <1>6, <2>6 DEF Fenced, LeaseTypeOK, Tick, Row
  <2>2. /\ row'.fence = row.fence /\ row'.request = row.request
        /\ row'.released = row.released
    BY <1>6 DEF Fenced, LeaseTypeOK, Tick
  <2> QED
    BY <1>6, <2>1, <2>2, SameFenceKeeps DEF Tick
<1>7. CASE UNCHANGED leaseVars
  BY <1>7, SameFenceKeeps DEF leaseVars, Fenced, LeaseTypeOK
<1> QED
  BY <1>1, <1>2, <1>3, <1>4, <1>5, <1>6, <1>7 DEF LeaseNext

\* The strengthening holds throughout.
THEOREM FencedHolds == LeaseSpec => []Fenced
<1>1. LeaseInit => Fenced
  BY LeaseAssumption DEF LeaseInit, Fenced, LeaseTypeOK, TokensFollow, LogFollows,
     FencesNeverGoBack, OneRequestPerFence, NoRow, NoToken
<1>2. Fenced /\ [LeaseNext]_leaseVars => Fenced'
  BY LeaseStepKeeps
<1> QED
  BY <1>1, <1>2, PTL DEF LeaseSpec

\* assert_fence: a turn whose lease was taken over never writes after its
\* successor, as long as the session is not deleted between.
THEOREM WritesInFenceOrder == LeaseSpec => []FencesNeverGoBack
<1>1. Fenced => FencesNeverGoBack
  BY DEF Fenced
<1> QED
  BY <1>1, FencedHolds, PTL

\* acquire: two turns that write under one fence, both of this life of the session,
\* are calls of one request.
THEOREM FenceOfOneRequest == LeaseSpec => []OneRequestPerFence
<1>1. Fenced => OneRequestPerFence
  BY DEF Fenced
<1> QED
  BY <1>1, FencedHolds, PTL

\* SessionTurnLeaseStore: all the lease promises to those who assert their fence.
THEOREM LeaseFencesWrites == LeaseSpec => []WritesAreFenced
<1>1. Fenced => WritesAreFenced
  BY DEF Fenced, WritesAreFenced
<1> QED
  BY <1>1, FencedHolds, PTL

-----------------------------------------------------------------------------
(* The gateway uses the lease                                              *)

\* A step of a turn is a step of the lease or leaves it alone.
LEMMA TurnStepIsLeaseStep ==
  ASSUME NEW t \in Turn, TurnStep(t) \/ Crash(t)
  PROVE  [LeaseNext]_leaseVars
<1> SUFFICES \/ acquire(t) \/ renew(t) \/ release(t) \/ write(t)
             \/ UNCHANGED leaseVars
  BY DEF LeaseNext
<1>1. CASE acquire_session_turn_lease(t)
  BY <1>1 DEF acquire_session_turn_lease
<1>2. CASE update_session_metadata(t)
  BY <1>2 DEF update_session_metadata
<1>3. CASE _emit_attach_role_event(t)
  BY <1>3 DEF _emit_attach_role_event
<1>4. CASE _setup_turn(t)
  BY <1>4 DEF _setup_turn
<1>5. CASE Prepare(t)
  BY <1>5 DEF Prepare
<1>6. CASE _persist_inbound_message_if_needed(t) \/ _execute_agent(t)
  BY <1>6 DEF _persist_inbound_message_if_needed, _execute_agent
<1>7. CASE _complete_suppressed_idle_tick(t) \/ _build_outbound_and_persist(t)
  BY <1>7 DEF _complete_suppressed_idle_tick, _build_outbound_and_persist
<1>8. CASE _renew_session_turn_lease(t)
  BY <1>8 DEF _renew_session_turn_lease
<1>9. CASE response_delivered(t) \/ emit_terminal_run_state(t)
  BY <1>9, Zenon DEF response_delivered, emit_terminal_run_state
<1>10. CASE Fail(t)
  BY <1>10, Zenon DEF Fail
<1>11. CASE release_session_turn_lease(t)
  BY <1>11 DEF release_session_turn_lease
<1>12. CASE _resolve_routing(t) \/ send(t) \/ Raises(t) \/ FenceError(t) \/ ReplayRaises(t)
            \/ Crash(t)
  BY <1>12, Zenon DEF _resolve_routing, send, Raises, FenceError, ReplayRaises, Crash
<1> QED
  BY <1>1, <1>2, <1>3, <1>4, <1>5, <1>6, <1>7, <1>8, <1>9, <1>10, <1>11, <1>12
     DEF TurnStep

\* Whatever the gateway does to the lease is a call of acquire, renew or release, a
\* fenced write, or the deletion of the session.
THEOREM GatewayImplementsLease == TurnSpec => ImplementsLease
<1>1. TurnInit => LeaseInit
  BY DEF TurnInit
<1>2. [TurnNext]_allVars => [LeaseNext]_leaseVars
  <2>1. ASSUME NEW t \in Turn, TurnStep(t) \/ Crash(t) PROVE [LeaseNext]_leaseVars
    BY <2>1, TurnStepIsLeaseStep
  <2>2. CASE Delete
    BY <2>2 DEF Delete, LeaseNext
  <2>3. CASE Time
    BY <2>3 DEF Time, LeaseNext
  <2>4. CASE UNCHANGED allVars
    BY <2>4 DEF allVars
  <2> QED
    BY <2>1, <2>2, <2>3, <2>4 DEF TurnNext
<1> QED
  BY <1>1, <1>2, PTL DEF TurnSpec, LeaseSpec, ImplementsLease

\* GatewayTurnRunner.run: whatever turns stall, fail or die, the writes to a session
\* come in the order of the fences, and a fence is one request's.
THEOREM GatewayWritesAreFenced == TurnSpec => []WritesAreFenced
  BY GatewayImplementsLease, LeaseFencesWrites, PTL DEF ImplementsLease

-----------------------------------------------------------------------------
(* What a turn remembers                                                   *)

Running(x) == x.inv # NULL /\ x.run = "awaiting"
Own(x) == Running(x) /\ x.stored /\ x.record # "none"

\* Where the answer is the turn's own it has a run of its own; where it is a
\* replayed one it has none, and has read a run that completed.
Phase(t, x) ==
  /\ x.pc \in {"new", "meta", "route", "attach", "queue"} =>
       x.answer = NULL /\ x.inv = NULL /\ x.run = "none" /\ ~x.stored
  /\ x.pc \in {"prepare", "inbound", "agent", "suppress", "persist"} =>
       x.answer = NULL /\ Running(x) /\ ~x.stored
  /\ x.pc \in {"renew", "send", "delivered"} =>
       \/ x.answer = t /\ Own(x)
       \/ /\ x.answer \notin {t, NULL} /\ x.inv = NULL /\ x.run = "none" /\ ~x.stored
          /\ x.before.run = "completed" /\ x.before.of # NULL
  /\ x.pc = "terminal" => x.answer = t /\ Own(x)
  /\ x.pc = "fail" => Running(x)
  /\ x.stored => x.inv # NULL
  /\ x.pc \notin {"release", "done"} => x.result # "answered"
  /\ x.result = "answered" => x.run \in {"completed", "failed"} /\ x.run = x.record

\* What a turn knows of other turns: the answer it has was stored, on its thread.
AnswerOK(t) ==
  LET x == turn[t]
  IN  /\ x.given => x.stored
      /\ x.before.of # NULL => turn[x.before.of].inv # NULL
      /\ x.answer # NULL => turn[x.answer].stored
      /\ x.answer # NULL /\ x.pc \in {"renew", "send", "delivered"} =>
           turn[x.answer].thread = x.thread

\* What the stored events and messages say of turns: a message whose delivery is
\* on record is on a thread that was delivered.
ThreadOK(h) ==
  LET s == thread[h]
  IN  /\ s.run # "none" => s.of # NULL
      /\ s.of # NULL => turn[s.of].inv # NULL
      /\ s.out # NULL => /\ turn[s.out].stored /\ turn[s.out].thread = h
                         /\ turn[s.out].given => s.delivered

\* Where a turn is after it has handed over its answer.
Sent == {"delivered", "terminal", "release", "done"}

Remembered ==
  /\ TurnTypeOK
  /\ \A t \in Turn : Phase(t, turn[t]) /\ AnswerOK(t)
  /\ \A h \in Thread : ThreadOK(h)
  /\ \A e \in sends : /\ turn[e[1]].stored
                     /\ turn[e[2]].pc \in Sent

Faultless(t) == t \notin lapsed \union orphaned

\* The answer is with the channel or about to be.
Sending(t) == At(t, "send") \/ (At(t, "delivered") /\ \E e \in sends : e[2] = t)

\* The lease of a turn at work, and of one that delivers through a channel.
HeldOK(t) ==
  /\ AtWork(t) => token[t] # NoToken /\ (t \notin orphaned => token[t].life = life)
  /\ Sending(t) /\ Faultless(t) => Owns(t) /\ row.left > 0

\* What was sent is on record as delivered or is about to be; and a turn that has
\* the same answer in hand under another request has lost its lease.
SendsOK ==
  \A e \in sends : Faultless(e[2]) =>
    /\ turn[e[1]].given \/ (At(e[2], "delivered") /\ turn[e[2]].answer = e[1])
    /\ \A t \in Turn : /\ turn[t].pc \in {"renew", "send"} /\ turn[t].answer = e[1]
                       /\ t \notin orphaned /\ request[t] # request[e[2]]
                       => ~Owns(t)

Answering == Fenced /\ Remembered /\ (\A t \in Turn : HeldOK(t)) /\ SendsOK /\ SentOnceUnlessLapsed

-----------------------------------------------------------------------------
(* One step of a turn: what it does to the turns and to the threads        *)

\* Only the marks that other turns set on it may change.
Kept(u) ==
  LET x == turn[u]
      y == turn'[u]
  IN  /\ y.pc = x.pc /\ y.thread = x.thread /\ y.before = x.before /\ y.state = x.state
      /\ y.answer = x.answer /\ y.inv = x.inv /\ y.run = x.run /\ y.stored = x.stored
      /\ y.record = x.record /\ y.result = x.result

\* What no step takes back.
Lasts(x, y) ==
  /\ x.inv # NULL => y.inv = x.inv /\ y.thread = x.thread
  /\ x.stored => y.stored
  /\ x.given => y.given
  /\ x.pc \in Sent => y.pc \in Sent

\* Where a turn has its answer from.
Found(t, x, y) ==
  /\ y.before \in {x.before, NoThread, thread[recent]}
  /\ \/ y.answer = x.answer /\ (y.pc \in {"renew", "send", "delivered"} =>
           x.pc \in {"renew", "send", "delivered"} /\ y.thread = x.thread)
     \/ y.answer = NULL
     \/ y.answer = t /\ y.stored
     \/ y.answer = thread[recent].out /\ y.thread = recent

NothingGiven == \A u \in Turn : turn'[u].given = turn[u].given

RecordStep(t) ==
  /\ turn' \in [Turn -> TurnState]
  /\ Phase(t, turn'[t])
  /\ Found(t, turn[t], turn'[t])
  /\ \A u \in Turn \ {t} : Kept(u)
  /\ \A u \in Turn : Lasts(turn[u], turn'[u]) /\ (turn'[u].given => turn'[u].stored)

\* A turn that changes nothing but itself.
LEMMA OneTurn ==
  ASSUME Remembered, NEW t \in Turn, NEW y \in TurnState, turn' = [turn EXCEPT ![t] = y],
         Phase(t, y), Found(t, turn[t], y), Lasts(turn[t], y), y.given => y.stored
  PROVE  /\ RecordStep(t) /\ turn'[t] = y /\ \A u \in Turn \ {t} : turn'[u] = turn[u]
         /\ y.given = turn[t].given => NothingGiven
<1>1. turn \in [Turn -> TurnState]
  BY DEF Remembered, TurnTypeOK
<1>2. /\ turn' \in [Turn -> TurnState] /\ turn'[t] = y
      /\ \A u \in Turn \ {t} : turn'[u] = turn[u]
  BY <1>1
<1>3. \A u \in Turn \ {t} : Kept(u) /\ Lasts(turn[u], turn'[u])
  BY <1>2 DEF Kept, Lasts, Sent
<1>4. \A u \in Turn : turn[u].given => turn[u].stored
  BY DEF Remembered, AnswerOK
<1> QED
  BY <1>2, <1>3, <1>4 DEF RecordStep, NothingGiven

\* The next place of a turn.
LEMMA GoesStep ==
  ASSUME Remembered, NEW t \in Turn, NEW pc \in PC, Goes(t, pc),
         \/ turn[t].pc = "new" /\ pc = "meta"
         \/ turn[t].pc = "meta" /\ pc = "route"
         \/ turn[t].pc = "attach" /\ pc = "queue"
         \/ turn[t].pc = "prepare" /\ pc = "inbound"
         \/ turn[t].pc = "inbound" /\ pc = "agent"
         \/ turn[t].pc = "agent" /\ pc \in {"suppress", "persist"}
         \/ turn[t].pc = "renew" /\ pc = "send"
         \/ turn[t].pc = "send" /\ pc = "delivered"
         \/ turn[t].pc \in {"inbound", "agent", "persist"} /\ pc = "fail"
         \/ turn[t].pc = "send" /\ ~Replaying(t) /\ pc = "fail"
  PROVE  /\ RecordStep(t) /\ turn'[t].pc = pc /\ turn'[t].answer = turn[t].answer
         /\ turn'[t].inv = turn[t].inv /\ NothingGiven
<1> DEFINE x == turn[t]
           y == [x EXCEPT !.pc = pc]
<1>1. turn \in [Turn -> TurnState] /\ x \in TurnState /\ Phase(t, x) /\ (x.given => x.stored)
  BY DEF Remembered, TurnTypeOK, AnswerOK
<1>2. y \in TurnState /\ y.pc = pc /\ y.answer = x.answer /\ y.inv = x.inv /\ y.run = x.run
      /\ y.stored = x.stored /\ y.given = x.given /\ y.record = x.record /\ y.result = x.result
      /\ y.thread = x.thread /\ y.before = x.before
  BY <1>1 DEF TurnState
<1>3. turn' = [turn EXCEPT ![t] = y]
  BY <1>1 DEF Goes
<1> HIDE DEF y
<1>4. Phase(t, y)
  BY <1>1, <1>2 DEF Phase, Running, Own, Replaying
<1>5. Found(t, x, y) /\ Lasts(x, y)
  BY <1>1, <1>2 DEF Found, Lasts, Sent, Phase
<1> QED
  BY <1>1, <1>2, <1>3, <1>4, <1>5, OneTurn, Zenon

\* The end of a turn, but for its release.
LEMMA EndsStep ==
  ASSUME Remembered, NEW t \in Turn, Ends(t, "error"), turn[t].pc \notin {"new", "release", "done"}
  PROVE  /\ RecordStep(t) /\ turn'[t].pc = "release"
         /\ NothingGiven
<1> DEFINE x == turn[t]
           y == [x EXCEPT !.pc = "release", !.result = "error"]
<1>1. turn \in [Turn -> TurnState] /\ x \in TurnState /\ Phase(t, x) /\ (x.given => x.stored)
  BY DEF Remembered, TurnTypeOK, AnswerOK
<1>6. "release" \in PC
  BY DEF PC
<1>2. y \in TurnState /\ y.pc = "release" /\ y.answer = x.answer /\ y.inv = x.inv
      /\ y.run = x.run /\ y.stored = x.stored /\ y.given = x.given /\ y.record = x.record
      /\ y.result = "error" /\ y.thread = x.thread /\ y.before = x.before
  BY <1>1, <1>6, Zenon DEF TurnState
<1>3. turn' = [turn EXCEPT ![t] = y]
  BY <1>1, Zenon DEF Ends
<1> HIDE DEF y
<1>4. Phase(t, y)
  BY <1>1, <1>2 DEF Phase
<1>5. Found(t, x, y) /\ Lasts(x, y)
  BY <1>1, <1>2 DEF Found, Lasts, Sent
<1> QED
  BY <1>1, <1>2, <1>3, <1>4, <1>5, OneTurn, Zenon

\* The release, a crash and a call that found the session busy.
LEMMA OverStep ==
  ASSUME Remembered, NEW t \in Turn, NEW y \in TurnState, turn' = [turn EXCEPT ![t] = y],
         y.pc = "done", y.result = turn[t].result \/ y.result \in {"busy", "crashed"},
         y.thread = turn[t].thread, y.inv = turn[t].inv, y.run = turn[t].run,
         y.stored = turn[t].stored, y.given = turn[t].given, y.record = turn[t].record,
         \/ y.before = NoThread /\ y.answer = NULL
         \/ y.before = turn[t].before /\ y.answer = turn[t].answer
  PROVE  RecordStep(t)
<1> DEFINE x == turn[t]
<1>1. x \in TurnState /\ Phase(t, x) /\ (x.given => x.stored)
  BY DEF Remembered, TurnTypeOK, AnswerOK
<1>2. Phase(t, y)
  BY <1>1 DEF Phase
<1>3. Found(t, x, y) /\ Lasts(x, y)
  BY <1>1 DEF Found, Lasts, Sent
<1> QED
  BY <1>1, <1>2, <1>3, OneTurn, Zenon

\* _resolve_routing: what is taken up is the last message of the last thread.
LEMMA RouteStep ==
  ASSUME Remembered, NEW t \in Turn, _resolve_routing(t)
  PROVE  /\ RecordStep(t)
         /\ turn'[t].answer # NULL => /\ turn'[t].answer = thread[recent].out
                                      /\ ~thread[recent].delivered
         /\ turn'[t].pc \notin {"send", "new", "done"}
         /\ NothingGiven
<1> DEFINE x == turn[t]
           h == thread[recent]
           replay == Replays(x.in, h) /\ h.out # NULL
           pc == CASE ~replay -> "attach"
                   [] replay /\ x.in.mode = "channel" -> "renew"
                   [] replay /\ x.in.mode = "return" -> "delivered"
                   [] OTHER -> "release"
           on == IF Forks(x.in, h) THEN t ELSE recent
           state == thread_state(h)
           answer == IF replay THEN h.out ELSE NULL
           result == IF replay THEN "replayed" ELSE x.result
           z == [x EXCEPT !.thread = on, !.before = h, !.state = state]
           y == [z EXCEPT !.answer = answer, !.result = result, !.pc = pc]
<1>1. turn \in [Turn -> TurnState] /\ x \in TurnState /\ Phase(t, x) /\ (x.given => x.stored)
  BY DEF Remembered, TurnTypeOK, AnswerOK
<1>2. h \in ThreadState /\ recent \in Thread /\ ThreadOK(recent)
  BY DEF Remembered, TurnTypeOK
<1>3. pc \in PC /\ pc \in {"attach", "renew", "delivered", "release"}
      /\ (replay <=> pc # "attach")
  BY DEF PC
<1>4. /\ state \in {"settled", "failed", "awaiting", "undelivered"}
      /\ state = "undelivered" => h.run = "completed" /\ ~h.delivered
  BY <1>2 DEF thread_state, ThreadState
<1>5. answer \in Turn \union {NULL} /\ on \in Thread
  BY <1>2 DEF ThreadState, Thread
<1>7. At(t, "route") /\ turn' = [turn EXCEPT ![t] = y]
  BY <1>1, ZenonT(30) DEF _resolve_routing
<1>8. /\ replay => /\ on = recent /\ h.run = "completed" /\ ~h.delivered /\ h.of # NULL
                   /\ answer = h.out /\ answer \notin {NULL, t} /\ result = "replayed"
      /\ ~replay => answer = NULL /\ result = x.result
  <2>1. replay => ~Forks(x.in, h) /\ h.run = "completed" /\ ~h.delivered /\ h.of # NULL
    BY <1>2, <1>4 DEF Replays, Forks, ThreadOK
  <2>2. replay => h.out # t
    BY <1>1, <1>2, <1>7 DEF ThreadOK, Phase, At
  <2> QED
    BY <2>1, <2>2
<1>11. result \in {"none", "busy", "error", "replayed", "suppressed", "answered", "crashed"}
  BY <1>1 DEF TurnState
<1> HIDE DEF pc, on, state, answer, result, replay
<1>6. /\ y \in TurnState /\ y.pc = pc /\ y.inv = x.inv /\ y.run = x.run /\ y.stored = x.stored
      /\ y.given = x.given /\ y.record = x.record /\ y.before = h
      /\ y.answer = answer /\ y.thread = on /\ y.result = result
  <2>1. /\ z \in TurnState /\ z.inv = x.inv /\ z.run = x.run /\ z.stored = x.stored
        /\ z.given = x.given /\ z.record = x.record /\ z.before = h /\ z.thread = on
    BY <1>1, <1>2, <1>4, <1>5, Zenon DEF TurnState
  <2> HIDE DEF z
  <2> QED
    BY <2>1, <1>3, <1>5, <1>11, ZenonT(30) DEF TurnState
<1> HIDE DEF y
<1>9. Phase(t, y)
  <2>1. CASE replay
    BY <2>1, <1>1, <1>3, <1>6, <1>7, <1>8 DEF Phase, At
  <2>2. CASE ~replay
    BY <2>2, <1>1, <1>3, <1>6, <1>7, <1>8 DEF Phase, At
  <2> QED
    BY <2>1, <2>2
<1>10. Found(t, x, y) /\ Lasts(x, y)
  BY <1>1, <1>3, <1>6, <1>7, <1>8 DEF Found, Lasts, Sent, Phase, At
<1> QED
  BY <1>1, <1>3, <1>6, <1>7, <1>8, <1>9, <1>10, OneTurn, Zenon

\* _setup_turn: the turn gets an invocation and a run.
LEMMA SetupStep ==
  ASSUME Remembered, NEW t \in Turn, _setup_turn(t)
  PROVE  /\ RecordStep(t) /\ turn'[t].inv \in Turn /\ turn'[t].inv # NULL
         /\ turn'[t].pc = "prepare" /\ NothingGiven
         /\ thread' = [thread EXCEPT ![turn[t].thread].run = "awaiting",
                                    ![turn[t].thread].of = t,
                                    ![turn[t].thread].inv = turn'[t].inv]
<1> DEFINE x == turn[t]
           inv == IF x.before.inv = NULL \/ x.state \in {"settled", "failed"}
                  THEN t ELSE x.before.inv
           y == [x EXCEPT !.pc = "prepare", !.inv = inv, !.run = "awaiting"]
<1>1. turn \in [Turn -> TurnState] /\ x \in TurnState /\ Phase(t, x) /\ (x.given => x.stored)
  BY DEF Remembered, TurnTypeOK, AnswerOK
<1>2. inv \in Turn /\ inv # NULL /\ "prepare" \in PC
  BY <1>1, TurnAssumption DEF TurnState, ThreadState, PC
<1>3. At(t, "queue") /\ turn' = [turn EXCEPT ![t] = y]
  BY <1>1, Zenon DEF _setup_turn
<1>7. thread' = [thread EXCEPT ![turn[t].thread].run = "awaiting", ![turn[t].thread].of = t,
                              ![turn[t].thread].inv = inv]
  BY DEF _setup_turn
<1> HIDE DEF inv
<1>4. y \in TurnState /\ y.pc = "prepare" /\ y.answer = x.answer /\ y.inv = inv
      /\ y.run = "awaiting" /\ y.stored = x.stored /\ y.given = x.given /\ y.record = x.record
      /\ y.result = x.result /\ y.thread = x.thread /\ y.before = x.before
  BY <1>1, <1>2, Zenon DEF TurnState
<1> HIDE DEF y
<1>5. Phase(t, y)
  BY <1>1, <1>2, <1>3, <1>4 DEF Phase, At, Running
<1>6. Found(t, x, y) /\ Lasts(x, y)
  BY <1>1, <1>3, <1>4 DEF Found, Lasts, Sent, Phase, At
<1> QED
  BY <1>1, <1>2, <1>3, <1>4, <1>5, <1>6, <1>7, OneTurn, Zenon

\* _complete_suppressed_idle_tick: the run is completed without an answer.
LEMMA SuppressStep ==
  ASSUME Remembered, NEW t \in Turn, _complete_suppressed_idle_tick(t)
  PROVE  /\ RecordStep(t) /\ turn'[t].inv = turn[t].inv /\ turn[t].inv # NULL
         /\ turn'[t].pc = "release" /\ NothingGiven
<1> DEFINE x == turn[t]
           y == [x EXCEPT !.pc = "release", !.run = "completed", !.record = "completed",
                          !.result = "suppressed"]
<1>1. turn \in [Turn -> TurnState] /\ x \in TurnState /\ Phase(t, x) /\ (x.given => x.stored)
  BY DEF Remembered, TurnTypeOK, AnswerOK
<1>2. "release" \in PC
  BY DEF PC
<1>3. At(t, "suppress") /\ turn' = [turn EXCEPT ![t] = y]
  BY <1>1, Zenon DEF _complete_suppressed_idle_tick
<1>4. y \in TurnState /\ y.pc = "release" /\ y.answer = x.answer /\ y.inv = x.inv
      /\ y.stored = x.stored /\ y.given = x.given /\ y.result = "suppressed"
      /\ y.thread = x.thread /\ y.before = x.before
  BY <1>1, <1>2, ZenonT(30) DEF TurnState
<1> HIDE DEF y
<1>5. Phase(t, y)
  BY <1>1, <1>3, <1>4 DEF Phase
<1>6. Found(t, x, y) /\ Lasts(x, y)
  BY <1>1, <1>3, <1>4 DEF Found, Lasts, Sent
<1> QED
  BY <1>1, <1>3, <1>4, <1>5, <1>6, OneTurn, Zenon DEF Phase, Running, At

\* _build_outbound_and_persist: the answer is the turn's own.
LEMMA PersistStep ==
  ASSUME Remembered, NEW t \in Turn, _build_outbound_and_persist(t)
  PROVE  /\ RecordStep(t) /\ turn'[t].stored /\ ~turn'[t].given
         /\ turn'[t].answer = t /\ turn'[t].thread = turn[t].thread
         /\ turn'[t].pc \in {"renew", "delivered", "terminal"}
         /\ NothingGiven
<1> DEFINE x == turn[t]
           pc == CASE x.in.mode = "channel" -> "renew"
                   [] x.in.mode = "return" -> "delivered"
                   [] OTHER -> "terminal"
<1>1. turn \in [Turn -> TurnState] /\ x \in TurnState /\ Phase(t, x) /\ (x.given => x.stored)
  BY DEF Remembered, TurnTypeOK, AnswerOK
<1>2. pc \in PC /\ pc \in {"renew", "delivered", "terminal"}
  BY DEF PC
<1>3. PICK state \in {"completed", "failed"} :
        turn' = [turn EXCEPT ![t].answer = t, ![t].stored = TRUE, ![t].record = state,
                             ![t].pc = pc]
  BY Zenon DEF _build_outbound_and_persist
<1> DEFINE y == [x EXCEPT !.answer = t, !.stored = TRUE, !.record = state, !.pc = pc]
<1>4. At(t, "persist") /\ turn' = [turn EXCEPT ![t] = y]
  BY <1>1, <1>3, ZenonT(30) DEF _build_outbound_and_persist
<1> HIDE DEF pc
<1>5. y \in TurnState /\ y.pc = pc /\ y.answer = t /\ y.inv = x.inv /\ y.run = x.run
      /\ y.stored = TRUE /\ y.given = x.given /\ y.record = state
      /\ y.result = x.result /\ y.thread = x.thread /\ y.before = x.before
  BY <1>1, <1>2, Zenon DEF TurnState
<1> HIDE DEF y
<1>6. Phase(t, y)
  BY <1>1, <1>2, <1>4, <1>5 DEF Phase, At, Running, Own
<1>7. Found(t, x, y) /\ Lasts(x, y)
  BY <1>1, <1>2, <1>4, <1>5 DEF Found, Lasts, Sent, At
<1>8. ~x.given
  BY <1>1, <1>4 DEF Phase, At
<1> QED
  BY <1>1, <1>2, <1>4, <1>5, <1>6, <1>7, <1>8, OneTurn, Zenon

\* response.delivered, of the turn's own answer.
LEMMA DeliveredStep ==
  ASSUME Remembered, NEW t \in Turn, response_delivered(t), ~Replaying(t)
  PROVE  /\ RecordStep(t) /\ turn[t].answer = t /\ turn'[t].given /\ turn'[t].pc = "terminal"
         /\ \A u \in Turn \ {t} : turn'[u].given = turn[u].given
<1> DEFINE x == turn[t]
           y == [x EXCEPT !.pc = "terminal", !.shown = TRUE, !.given = TRUE]
<1>1. turn \in [Turn -> TurnState] /\ x \in TurnState /\ Phase(t, x) /\ (x.given => x.stored)
  BY DEF Remembered, TurnTypeOK, AnswerOK
<1>2. "terminal" \in PC
  BY DEF PC
<1>3. At(t, "delivered") /\ turn' = [turn EXCEPT ![t] = y]
  BY <1>1, Zenon DEF response_delivered
<1>4. y \in TurnState /\ y.pc = "terminal" /\ y.answer = x.answer /\ y.inv = x.inv
      /\ y.run = x.run /\ y.stored = x.stored /\ y.given /\ y.record = x.record
      /\ y.result = x.result /\ y.thread = x.thread /\ y.before = x.before
  BY <1>1, <1>2, Zenon DEF TurnState
<1> HIDE DEF y
<1>5. x.answer = t /\ x.stored
  BY <1>1, <1>3 DEF Phase, At, Replaying, Own
<1>6. Phase(t, y)
  BY <1>1, <1>3, <1>4, <1>5 DEF Phase, At, Running, Own
<1>7. Found(t, x, y) /\ Lasts(x, y)
  BY <1>1, <1>4 DEF Found, Lasts, Sent
<1> QED
  BY <1>1, <1>3, <1>4, <1>5, <1>6, <1>7, OneTurn, Zenon

\* response.delivered, of an answer that another turn left behind.
LEMMA ReplayedStep ==
  ASSUME Remembered, NEW t \in Turn, response_delivered(t), Replaying(t)
  PROVE  /\ RecordStep(t) /\ turn'[t].pc = "release"
         /\ turn[t].answer \in Turn /\ turn'[turn[t].answer].given
         /\ turn[turn[t].answer].thread = turn[t].thread
         /\ turn[t].before.of \in Turn /\ turn[turn[t].before.of].inv # NULL
         /\ \A u \in Turn \ {turn[t].answer} : turn'[u].given = turn[u].given
<1> DEFINE x == turn[t]
           of == x.before.of
           a == x.answer
<1>1. /\ turn \in [Turn -> TurnState] /\ x \in TurnState /\ Phase(t, x) /\ AnswerOK(t)
      /\ \A u \in Turn : turn[u].given => turn[u].stored
  BY DEF Remembered, TurnTypeOK, AnswerOK
<1>2. At(t, "delivered") /\ turn' = [turn EXCEPT ![t].pc = "release", ![of].shown = TRUE,
                                                 ![a].given = TRUE]
  BY Zenon DEF response_delivered
<1>3. /\ a \in Turn \ {t} /\ x.inv = NULL /\ x.run = "none" /\ ~x.stored
      /\ of # NULL
  BY <1>1, <1>2 DEF Phase, At, Replaying, TurnState
<1>4. /\ of \in Turn \ {t} /\ turn[of].inv # NULL /\ turn[a].stored
      /\ turn[a].thread = x.thread
  <2>1. of \in Turn
    BY <1>1, <1>3 DEF TurnState, ThreadState
  <2>2. turn[of].inv # NULL /\ turn[a].stored /\ turn[a].thread = x.thread
    BY <1>1, <1>2, <1>3, TurnAssumption DEF AnswerOK, At
  <2> QED
    BY <1>3, <2>1, <2>2
<1> HIDE DEF of, a
<1>5. "release" \in PC
  BY DEF PC
<1> DEFINE one == [turn EXCEPT ![t] = [x EXCEPT !.pc = "release"]]
           two == [one EXCEPT ![of] = [one[of] EXCEPT !.shown = TRUE]]
<1>6. turn' = [two EXCEPT ![a] = [two[a] EXCEPT !.given = TRUE]]
  BY <1>1, <1>2, <1>3, <1>4
<1>7. /\ one \in [Turn -> TurnState]
      /\ one[t] = [x EXCEPT !.pc = "release"] /\ \A u \in Turn \ {t} : one[u] = turn[u]
  <2>1. [x EXCEPT !.pc = "release"] \in TurnState
    BY <1>1, <1>5 DEF TurnState
  <2> QED
    BY <1>1, <2>1
<1> HIDE DEF one
<1>8. /\ two \in [Turn -> TurnState]
      /\ two[of] = [one[of] EXCEPT !.shown = TRUE] /\ \A u \in Turn \ {of} : two[u] = one[u]
  <2>2. one[of] \in TurnState
    BY <1>4, <1>7
  <2>1. [one[of] EXCEPT !.shown = TRUE] \in TurnState
    BY <2>2, Zenon DEF TurnState
  <2> QED
    BY <1>4, <1>7, <2>1
<1> HIDE DEF two
<1>9. /\ turn' \in [Turn -> TurnState]
      /\ turn'[a] = [two[a] EXCEPT !.given = TRUE] /\ \A u \in Turn \ {a} : turn'[u] = two[u]
  <2>2. two[a] \in TurnState
    BY <1>3, <1>8
  <2>1. [two[a] EXCEPT !.given = TRUE] \in TurnState
    BY <2>2, Zenon DEF TurnState
  <2> QED
    BY <1>3, <1>6, <1>8, <2>1
<1>10. turn'[t] = [x EXCEPT !.pc = "release"]
  BY <1>3, <1>4, <1>7, <1>8, <1>9
<1>11. turn'[t].pc = "release" /\ turn'[t].answer = x.answer /\ turn'[t].inv = x.inv
       /\ turn'[t].run = x.run /\ turn'[t].stored = x.stored /\ turn'[t].given = x.given
       /\ turn'[t].record = x.record /\ turn'[t].result = x.result
       /\ turn'[t].thread = x.thread /\ turn'[t].before = x.before
  BY <1>1, <1>10 DEF TurnState
<1>12. ASSUME NEW u \in Turn \ {t}
       PROVE  /\ Kept(u) /\ Lasts(turn[u], turn'[u])
              /\ turn'[u].given = IF u = a THEN TRUE ELSE turn[u].given
  <2> DEFINE p == one[u]
             q == two[u]
             r == turn'[u]
  <2>1. p = turn[u] /\ p \in TurnState /\ q \in TurnState
    BY <1>7, <1>8
  <2>2. q = p \/ q = [p EXCEPT !.shown = TRUE]
    BY <1>8
  <2>3. /\ u # a => r = q
        /\ u = a => r = [q EXCEPT !.given = TRUE]
    BY <1>9
  <2> HIDE DEF p, q, r
  <2>4. /\ q.pc = p.pc /\ q.thread = p.thread /\ q.before = p.before /\ q.state = p.state
        /\ q.answer = p.answer /\ q.inv = p.inv /\ q.run = p.run /\ q.stored = p.stored
        /\ q.record = p.record /\ q.result = p.result /\ q.given = p.given
    BY <2>1, <2>2 DEF TurnState
  <2>5. /\ r.pc = q.pc /\ r.thread = q.thread /\ r.before = q.before /\ r.state = q.state
        /\ r.answer = q.answer /\ r.inv = q.inv /\ r.run = q.run /\ r.stored = q.stored
        /\ r.record = q.record /\ r.result = q.result 
        /\ r.given = IF u = a THEN TRUE ELSE q.given
    BY <2>1, <2>3, ZenonT(30) DEF TurnState
  <2>6. r = turn'[u]
    BY DEF r
  <2> QED
    BY <2>1, <2>4, <2>5, <2>6, Zenon DEF Kept, Lasts, Sent
<1>13. Phase(t, turn'[t]) /\ Found(t, x, turn'[t]) /\ Lasts(x, turn'[t])
  BY <1>1, <1>11, <1>2 DEF Phase, Found, Lasts, Sent, At
<1>14. \A u \in Turn : turn'[u].given => turn'[u].stored
  BY <1>1, <1>3, <1>4, <1>11, <1>12, Zenon DEF Kept
<1> QED
  BY <1>3, <1>4, <1>9, <1>11, <1>12, <1>13, <1>14, Zenon DEF RecordStep, of, a

\* emit_terminal_run_state: the events get what the record has.
LEMMA TerminalStep ==
  ASSUME Remembered, NEW t \in Turn, emit_terminal_run_state(t)
  PROVE  /\ RecordStep(t) /\ turn'[t].inv = turn[t].inv /\ turn[t].inv # NULL
         /\ turn[t].record \in {"completed", "failed"}
         /\ turn'[t].pc = "release" /\ NothingGiven
<1> DEFINE x == turn[t]
           y == [x EXCEPT !.pc = "release", !.run = x.record, !.result = "answered"]
<1>1. turn \in [Turn -> TurnState] /\ x \in TurnState /\ Phase(t, x) /\ (x.given => x.stored)
  BY DEF Remembered, TurnTypeOK, AnswerOK
<1>2. "release" \in PC
  BY DEF PC
<1>3. At(t, "terminal") /\ turn' = [turn EXCEPT ![t] = y]
  BY <1>1, Zenon DEF emit_terminal_run_state
<1>4. x.inv # NULL /\ x.record \in {"completed", "failed"}
  BY <1>1, <1>3 DEF Phase, At, Own, Running, TurnState
<1>5. y \in TurnState /\ y.pc = "release" /\ y.answer = x.answer /\ y.inv = x.inv
      /\ y.run = x.record /\ y.stored = x.stored /\ y.given = x.given /\ y.record = x.record
      /\ y.result = "answered" /\ y.thread = x.thread /\ y.before = x.before
  BY <1>1, <1>2, <1>4, Zenon DEF TurnState
<1> HIDE DEF y
<1>6. Phase(t, y)
  BY <1>1, <1>4, <1>5 DEF Phase
<1>7. Found(t, x, y) /\ Lasts(x, y)
  BY <1>1, <1>5 DEF Found, Lasts, Sent
<1> QED
  BY <1>1, <1>3, <1>4, <1>5, <1>6, <1>7, OneTurn, Zenon

\* The exception handler.
LEMMA FailStep ==
  ASSUME Remembered, NEW t \in Turn, Fail(t)
  PROVE  /\ RecordStep(t) /\ turn'[t].inv = turn[t].inv /\ turn[t].inv # NULL
         /\ turn'[t].pc = "release"
         /\ NothingGiven
<1> DEFINE x == turn[t]
           run == IF assert_fence(t) THEN "failed" ELSE x.run
           y == [x EXCEPT !.pc = "release", !.record = "failed", !.result = "error",
                          !.run = run]
<1>1. turn \in [Turn -> TurnState] /\ x \in TurnState /\ Phase(t, x) /\ (x.given => x.stored)
  BY DEF Remembered, TurnTypeOK, AnswerOK
<1>2. "release" \in PC /\ run \in {"none", "awaiting", "completed", "failed"}
  BY <1>1 DEF PC, TurnState
<1>3. At(t, "fail") /\ turn' = [turn EXCEPT ![t] = y]
  BY <1>1, Zenon DEF Fail
<1>4. x.inv # NULL
  BY <1>1, <1>3 DEF Phase, At, Running
<1> HIDE DEF run
<1>5. y \in TurnState /\ y.pc = "release" /\ y.answer = x.answer /\ y.inv = x.inv
      /\ y.stored = x.stored /\ y.given = x.given
      /\ y.result = "error" /\ y.thread = x.thread /\ y.before = x.before
  BY <1>1, <1>2, <1>4, ZenonT(30) DEF TurnState
<1> HIDE DEF y
<1>6. Phase(t, y)
  BY <1>1, <1>4, <1>5 DEF Phase
<1>7. Found(t, x, y) /\ Lasts(x, y)
  BY <1>1, <1>5 DEF Found, Lasts, Sent
<1> QED
  BY <1>1, <1>3, <1>4, <1>5, <1>6, <1>7, OneTurn, Zenon

\* What a turn had in memory goes with it: the release and a crash.
LEMMA OverIsStep ==
  ASSUME Remembered, NEW t \in Turn, NEW result, turn' = [turn EXCEPT ![t] = Over(t, result)],
         result = turn[t].result \/ result = "crashed"
  PROVE  /\ RecordStep(t) /\ turn'[t].pc = "done" /\ turn'[t].answer = NULL
         /\ NothingGiven
<1> DEFINE x == turn[t]
           o == [x EXCEPT !.pc = "done"]
           z == [o EXCEPT !.result = result]
           y == [z EXCEPT !.before = NoThread, !.state = "settled", !.answer = NULL]
<1>1. turn \in [Turn -> TurnState] /\ x \in TurnState
  BY DEF Remembered, TurnTypeOK
<1>6. turn' = [turn EXCEPT ![t] = y]
  BY <1>1 DEF Over
<1>2. "done" \in PC /\ NoThread \in ThreadState
      /\ result \in {"none", "busy", "error", "replayed", "suppressed", "answered", "crashed"}
  BY <1>1 DEF PC, NoThread, ThreadState, TurnState
<1>3. y \in TurnState /\ y.pc = "done" /\ y.answer = NULL /\ y.inv = x.inv
      /\ y.stored = x.stored /\ y.given = x.given /\ y.result = result /\ y.thread = x.thread
      /\ y.before = NoThread /\ y.run = x.run /\ y.record = x.record
  <2>3. o \in TurnState /\ o.pc = "done" /\ o.inv = x.inv /\ o.stored = x.stored
        /\ o.given = x.given /\ o.thread = x.thread /\ o.run = x.run /\ o.record = x.record
    BY <1>1, <1>2 DEF TurnState
  <2> HIDE DEF o
  <2>1. z \in TurnState /\ z.pc = "done" /\ z.inv = x.inv /\ z.stored = x.stored
        /\ z.given = x.given /\ z.result = result /\ z.thread = x.thread
        /\ z.run = x.run /\ z.record = x.record
    BY <1>2, <2>3 DEF TurnState
  <2> HIDE DEF z
  <2>2. y \in TurnState /\ y.pc = z.pc /\ y.answer = NULL /\ y.inv = z.inv
        /\ y.stored = z.stored /\ y.given = z.given /\ y.result = z.result
        /\ y.thread = z.thread /\ y.before = NoThread /\ y.run = z.run /\ y.record = z.record
    BY <1>2, <2>1, Zenon DEF TurnState
  <2> QED
    BY <2>1, <2>2
<1> HIDE DEF y
<1>4. RecordStep(t)
  BY <1>3, <1>6, OverStep, Zenon
<1>5. turn'[t] = y /\ \A u \in Turn \ {t} : turn'[u] = turn[u]
  BY <1>1, <1>3, <1>6
<1> QED
  BY <1>3, <1>4, <1>5 DEF NothingGiven

\* A call that found the session busy.
LEMMA BusyStep ==
  ASSUME Remembered, NEW t \in Turn,
         turn' = [turn EXCEPT ![t].pc = "done", ![t].result = "busy"]
  PROVE  /\ RecordStep(t) /\ turn'[t].pc = "done"
         /\ NothingGiven
<1> DEFINE x == turn[t]
           y == [x EXCEPT !.pc = "done", !.result = "busy"]
<1>1. turn \in [Turn -> TurnState] /\ x \in TurnState
  BY DEF Remembered, TurnTypeOK
<1>2. "done" \in PC /\ turn' = [turn EXCEPT ![t] = y]
  BY <1>1, Zenon DEF PC
<1>3. y \in TurnState /\ y.pc = "done" /\ y.answer = x.answer /\ y.inv = x.inv
      /\ y.stored = x.stored /\ y.given = x.given /\ y.result = "busy" /\ y.thread = x.thread
      /\ y.before = x.before /\ y.run = x.run /\ y.record = x.record
  BY <1>1, <1>2 DEF TurnState
<1> HIDE DEF y
<1>4. RecordStep(t)
  BY <1>2, <1>3, OverStep, Zenon
<1>5. turn'[t] = y /\ \A u \in Turn \ {t} : turn'[u] = turn[u]
  BY <1>1, <1>2, <1>3, Zenon
<1> QED
  BY <1>3, <1>4, <1>5, Zenon DEF NothingGiven

\* What a step does to the threads: a run event names a turn that has a run, a message
\* is new and stored, and a delivery is recorded on the thread of the answer.
ThreadMoves(h, s, q) ==
  /\ (q.run = s.run /\ q.of = s.of) \/ (q.of \in Turn /\ turn'[q.of].inv # NULL)
  /\ \/ q.out = s.out
     \/ /\ q.out \in Turn /\ turn'[q.out].stored /\ turn'[q.out].thread = h
        /\ ~turn'[q.out].given
  /\ s.delivered => q.delivered

ThreadStep ==
  /\ thread' \in [Thread -> ThreadState]
  /\ \A h \in Thread : ThreadMoves(h, thread[h], thread'[h])
  /\ \A u \in Turn : turn'[u].given => turn[u].given \/ thread'[turn[u].thread].delivered

\* Nothing happens to the threads.
LEMMA SameThreads ==
  ASSUME Remembered, thread' = thread, NothingGiven
  PROVE  ThreadStep
  BY DEF Remembered, TurnTypeOK, ThreadStep, ThreadMoves, NothingGiven

\* One thread changes.
LEMMA OneThread ==
  ASSUME Remembered, NEW h \in Thread, NEW q \in ThreadState, thread' = [thread EXCEPT ![h] = q],
         ThreadMoves(h, thread[h], q),
         \/ NothingGiven
         \/ q.delivered /\ \A u \in Turn : turn'[u].given => turn[u].given \/ turn[u].thread = h
  PROVE  ThreadStep
<1>1. thread \in [Thread -> ThreadState]
  BY DEF Remembered, TurnTypeOK
<1>2. /\ thread' \in [Thread -> ThreadState] /\ thread'[h] = q
      /\ \A k \in Thread \ {h} : thread'[k] = thread[k]
  BY <1>1
<1>3. ASSUME NEW k \in Thread PROVE ThreadMoves(k, thread[k], thread'[k])
  <2>1. CASE k = h
    BY <1>2, <2>1
  <2>2. CASE k # h
    BY <1>2, <2>2 DEF ThreadMoves
  <2> QED
    BY <2>1, <2>2
<1>4. ASSUME NEW u \in Turn, turn'[u].given
      PROVE  turn[u].given \/ thread'[turn[u].thread].delivered
  BY <1>2, <1>4 DEF NothingGiven
<1> QED
  BY <1>2, <1>3, <1>4 DEF ThreadStep

\* A run event.
LEMMA RunEventStep ==
  ASSUME Remembered, NEW t \in Turn, NEW run \in {"awaiting", "completed", "failed"},
         RunEvent(t, run), turn'[t].inv # NULL, NothingGiven
  PROVE  ThreadStep
<1> DEFINE h == turn[t].thread
           q == [thread[h] EXCEPT !.run = run, !.of = t]
<1>1. thread \in [Thread -> ThreadState] /\ h \in Thread /\ thread[h] \in ThreadState
  BY DEF Remembered, TurnTypeOK, TurnState
<1>2. q \in ThreadState /\ q.of = t /\ q.out = thread[h].out /\ q.delivered = thread[h].delivered
  BY <1>1, Zenon DEF ThreadState
<1>3. thread' = [thread EXCEPT ![h] = q]
  BY <1>1, Zenon DEF RunEvent
<1> HIDE DEF q, h
<1>4. ThreadMoves(h, thread[h], q)
  BY <1>2 DEF ThreadMoves
<1> QED
  BY <1>1, <1>2, <1>3, <1>4, OneThread, Zenon

\* The steps that set nothing but the thread's writer, latest message or delivery.
LEMMA FieldStep ==
  ASSUME Remembered, NEW t \in Turn,
         LET h == turn[t].thread
         IN  \/ \E a \in Attach \union {NULL} : /\ thread' = [thread EXCEPT ![h].writer = a]
                                                /\ NothingGiven
             \/ /\ thread' = [thread EXCEPT ![h].out = t]
                /\ turn'[t].stored /\ turn'[t].thread = h /\ ~turn'[t].given
                /\ NothingGiven
             \/ /\ thread' = [thread EXCEPT ![h].delivered = TRUE]
                /\ \A u \in Turn : turn'[u].given => turn[u].given \/ turn[u].thread = h
  PROVE  ThreadStep
<1> DEFINE h == turn[t].thread
           s == thread[h]
<1>1. thread \in [Thread -> ThreadState] /\ h \in Thread /\ s \in ThreadState
  BY DEF Remembered, TurnTypeOK, TurnState
<1>2. ASSUME NEW a \in Attach \union {NULL}, thread' = [thread EXCEPT ![h].writer = a],
             NothingGiven
      PROVE  ThreadStep
  <2> DEFINE q == [s EXCEPT !.writer = a]
  <2>1. q \in ThreadState /\ q.run = s.run /\ q.of = s.of /\ q.out = s.out
        /\ q.delivered = s.delivered /\ thread' = [thread EXCEPT ![h] = q]
    BY <1>1, <1>2 DEF ThreadState
  <2> HIDE DEF q, h
  <2>2. ThreadMoves(h, s, q)
    BY <1>2, <2>1 DEF ThreadMoves
  <2> QED
    BY <1>1, <1>2, <2>1, <2>2, OneThread, Zenon
<1>3. ASSUME thread' = [thread EXCEPT ![h].out = t], turn'[t].stored, turn'[t].thread = h,
             ~turn'[t].given, NothingGiven
      PROVE  ThreadStep
  <2> DEFINE q == [s EXCEPT !.out = t]
  <2>1. q \in ThreadState /\ q.run = s.run /\ q.of = s.of /\ q.out = t
        /\ q.delivered = s.delivered /\ thread' = [thread EXCEPT ![h] = q]
    BY <1>1, <1>3 DEF ThreadState
  <2> HIDE DEF q, h
  <2>2. ThreadMoves(h, s, q)
    BY <1>3, <2>1 DEF ThreadMoves
  <2> QED
    BY <1>1, <1>3, <2>1, <2>2, OneThread, Zenon
<1>4. ASSUME thread' = [thread EXCEPT ![h].delivered = TRUE],
             \A u \in Turn : turn'[u].given => turn[u].given \/ turn[u].thread = h
      PROVE  ThreadStep
  <2> DEFINE q == [s EXCEPT !.delivered = TRUE]
  <2>1. q \in ThreadState /\ q.run = s.run /\ q.of = s.of /\ q.out = s.out
        /\ q.delivered /\ thread' = [thread EXCEPT ![h] = q]
    BY <1>1, <1>4, Zenon DEF ThreadState
  <2> HIDE DEF q, h
  <2>2. ThreadMoves(h, s, q)
    BY <1>4, <2>1 DEF ThreadMoves
  <2> QED
    BY <1>1, <1>4, <2>1, <2>2, OneThread, Zenon
<1> QED
  BY <1>2, <1>3, <1>4, Zenon

\* What turns and threads know of each other outlives the step.
LEMMA KnowledgeLasts ==
  ASSUME Remembered, LeaseTypeOK', NEW t \in Turn, RecordStep(t), ThreadStep,
         recent' \in Thread, told' \subseteq Turn \X {"settled", "failed"},
         lapsed' \subseteq Turn, orphaned' \subseteq Turn,
         sends' \subseteq Turn \X Turn,
         \A e \in sends' \ sends : turn'[e[1]].stored /\ turn'[e[2]].pc \in Sent
  PROVE  Remembered'
<1>1. /\ turn \in [Turn -> TurnState] /\ thread \in [Thread -> ThreadState] /\ recent \in Thread
      /\ sends \subseteq Turn \X Turn
  BY DEF Remembered, TurnTypeOK
<1>2. turn' \in [Turn -> TurnState] /\ thread' \in [Thread -> ThreadState]
  BY DEF RecordStep, ThreadStep
<1>3. \A u \in Turn : Phase(u, turn[u]) /\ AnswerOK(u) /\ turn[u] \in TurnState
  BY <1>1 DEF Remembered
<1>4. \A h \in Thread : ThreadOK(h) /\ thread[h] \in ThreadState
  BY <1>1 DEF Remembered
<1>5. \A u \in Turn : /\ turn[u].inv # NULL => turn'[u].inv = turn[u].inv /\ turn'[u].thread = turn[u].thread
                      /\ turn[u].stored => turn'[u].stored /\ turn'[u].thread = turn[u].thread
                      /\ turn[u].pc \in Sent => turn'[u].pc \in Sent
                      /\ turn'[u].given => turn'[u].stored
  BY <1>3, Zenon DEF RecordStep, Lasts, Phase
<1>6. ASSUME NEW u \in Turn PROVE Phase(u, turn'[u])
  <2>1. CASE u = t
    BY <2>1 DEF RecordStep
  <2>2. CASE u # t
    <3>1. Phase(u, turn[u]) /\ Kept(u)
      BY <1>3, <2>2, Zenon DEF RecordStep
    <3> QED
      BY <3>1, ZenonT(30) DEF Kept, Phase, Running, Own
  <2> QED
    BY <2>1, <2>2
<1>7. ASSUME NEW u \in Turn PROVE AnswerOK(u)'
  <2> DEFINE x == turn[u]
             y == turn'[u]
  <2>1. /\ x.before.of # NULL => x.before.of \in Turn /\ turn[x.before.of].inv # NULL
        /\ x.answer # NULL => x.answer \in Turn /\ turn[x.answer].stored
        /\ thread[recent].of # NULL =>
             thread[recent].of \in Turn /\ turn[thread[recent].of].inv # NULL
        /\ thread[recent].out # NULL =>
             /\ thread[recent].out \in Turn /\ turn[thread[recent].out].stored
             /\ turn[thread[recent].out].thread = recent
    BY <1>1, <1>3, <1>4 DEF AnswerOK, ThreadOK, TurnState, ThreadState
  <2>2. y.given => y.stored
    BY <1>5, Zenon
  <2>3. CASE u # t
    <3>1. y.before = x.before /\ y.answer = x.answer /\ y.pc = x.pc /\ y.thread = x.thread
      BY <2>3, Zenon DEF RecordStep, Kept
    <3> QED
      BY <1>3, <1>5, <2>1, <2>2, <3>1, ZenonT(30) DEF AnswerOK
  <2>4. CASE u = t
    <3>1. Found(t, turn[t], turn'[t])
      BY DEF RecordStep
    <3>2. y.before.of # NULL => turn'[y.before.of].inv # NULL
      <4>1. NoThread.of = NULL
        BY DEF NoThread
      <4>2. y.before \in {x.before, NoThread, thread[recent]}
        BY <2>4, <3>1, Zenon DEF Found
      <4> QED
        BY <1>5, <2>1, <4>1, <4>2, ZenonT(30)
    <3>3. y.answer # NULL => turn'[y.answer].stored
      BY <1>5, <2>1, <2>4, <3>1, Zenon DEF Found
    <3>4. y.answer # NULL /\ y.pc \in {"renew", "send", "delivered"} =>
            turn'[y.answer].thread = y.thread
      <4>1. CASE y.answer = x.answer /\ (y.pc \in {"renew", "send", "delivered"} =>
                   x.pc \in {"renew", "send", "delivered"} /\ y.thread = x.thread)
        <5>1. x.answer # NULL /\ x.pc \in {"renew", "send", "delivered"} =>
                turn[x.answer].thread = x.thread
          BY <1>3, Zenon DEF AnswerOK
        <5> QED
          BY <1>5, <2>1, <4>1, <5>1, Zenon
      <4>2. CASE y.answer = thread[recent].out /\ y.thread = recent
        BY <1>5, <2>1, <4>2, Zenon
      <4> QED
        BY <2>4, <3>1, <4>1, <4>2, Zenon DEF Found
    <3> QED
      BY <2>2, <3>2, <3>3, <3>4, Zenon DEF AnswerOK
  <2> QED
    BY <2>3, <2>4
<1>8. ASSUME NEW h \in Thread PROVE ThreadOK(h)'
  <2> DEFINE s == thread[h]
             q == thread'[h]
  <2>1. /\ s.of # NULL => s.of \in Turn /\ turn[s.of].inv # NULL
        /\ s.out # NULL => /\ s.out \in Turn /\ turn[s.out].stored /\ turn[s.out].thread = h
                           /\ turn[s.out].given => s.delivered
        /\ s.run # "none" => s.of # NULL
    BY <1>4 DEF ThreadOK, ThreadState
  <2>2. /\ (q.run = s.run /\ q.of = s.of) \/ (q.of \in Turn /\ turn'[q.of].inv # NULL)
        /\ \/ q.out = s.out
           \/ /\ q.out \in Turn /\ turn'[q.out].stored /\ turn'[q.out].thread = h
              /\ ~turn'[q.out].given
        /\ s.delivered => q.delivered
        /\ \A u \in Turn : turn'[u].given => turn[u].given \/ thread'[turn[u].thread].delivered
    BY DEF ThreadStep, ThreadMoves
  <2> QED
    BY <1>5, <2>1, <2>2, TurnAssumption, ZenonT(30) DEF ThreadOK
<1>9. ASSUME NEW e \in sends' PROVE turn'[e[1]].stored /\ turn'[e[2]].pc \in Sent
  <2>1. CASE e \in sends
    <3>1. e[1] \in Turn /\ e[2] \in Turn /\ turn[e[1]].stored /\ turn[e[2]].pc \in Sent
      BY <1>1, <2>1 DEF Remembered
    <3> QED
      BY <1>5, <3>1
  <2> QED
    BY <2>1
<1> QED
  BY <1>2, <1>6, <1>7, <1>8, <1>9 DEF Remembered, TurnTypeOK

-----------------------------------------------------------------------------
(* One step of a turn: the lease, the answer and the records               *)

\* The call of the lease that goes with the step.
LeaseCall(t) ==
  \/ UNCHANGED leaseVars
  \/ acquire(t) \/ renew(t) \/ write(t)
  \/ release(t) /\ (Owns(t) => {u \in Turn : Delivering(u)} \subseteq lapsed')

\* An answer is in hand because the routing found it undelivered, or because the turn
\* has just stored it.
Taken(t) ==
  LET y == turn'[t]
  IN  /\ y.answer # NULL /\ At(t, "route") =>
           y.answer = thread[recent].out /\ ~thread[recent].delivered
      /\ y.pc = "renew" => At(t, "route") \/ (At(t, "persist") /\ y.answer = t)
      /\ y.pc = "renew" => UNCHANGED <<row, token>>
      /\ y.pc = "send" => At(t, "renew") /\ renew(t) /\ y.answer = turn[t].answer

\* An answer is handed over from "send" only, and the delivery recorded next.
HandsOver(t) ==
  LET y == turn'[t]
  IN  /\ \/ sends' = sends
         \/ /\ At(t, "send") /\ y.pc = "delivered" /\ y.answer = turn[t].answer
            /\ sends' = sends \union {<<turn[t].answer, t>>} /\ UNCHANGED leaseVars
      /\ y.pc = "delivered" => \/ At(t, "send") /\ UNCHANGED leaseVars
                               \/ turn[t].pc \in {"route", "persist"} /\ sends' = sends
      /\ At(t, "delivered") => \/ turn'[turn[t].answer].given
                               \/ ~assert_fence(t) \/ t \in lapsed'

Does(t) ==
  /\ RecordStep(t) /\ ThreadStep /\ LeaseCall(t) /\ Taken(t) /\ HandsOver(t)
  /\ turn'[t].pc \notin {"new", "done"} => AtWork(t) \/ acquire(t)
  /\ lapsed \subseteq lapsed' /\ lapsed' \subseteq Turn /\ orphaned' = orphaned
  /\ recent' \in Thread /\ told' \subseteq Turn \X {"settled", "failed"}

\* A step that sends an answer sends that of its turn.
LEMMA NewlySent ==
  ASSUME NEW t \in Turn, HandsOver(t), NEW e \in sends' \ sends
  PROVE  /\ At(t, "send") /\ e = <<turn[t].answer, t>>
         /\ turn'[t].pc = "delivered" /\ turn'[t].answer = turn[t].answer
         /\ UNCHANGED leaseVars
  BY Zenon DEF HandsOver

\* The steps of a turn that go on or give up.
LEMMA PlainDoes ==
  ASSUME Remembered, NEW t \in Turn,
         \/ acquire_session_turn_lease(t) \/ update_session_metadata(t)
         \/ _emit_attach_role_event(t) \/ Prepare(t) \/ _persist_inbound_message_if_needed(t)
         \/ _execute_agent(t) \/ Raises(t) \/ FenceError(t) \/ ReplayRaises(t)
  PROVE  Does(t)
<1>1. /\ turn[t] \in TurnState /\ recent \in Thread /\ turn[t].thread \in Thread
      /\ told \subseteq Turn \X {"settled", "failed"} /\ lapsed \subseteq Turn /\ Phase(t, turn[t])
  BY DEF Remembered, TurnTypeOK, TurnState
<1>2. {"meta", "route", "queue", "inbound", "agent", "suppress", "persist", "fail"} \subseteq PC
  BY DEF PC
<1>3. CASE acquire_session_turn_lease(t)
  <2>1. CASE Busy(t) /\ UNCHANGED leaseVars
             /\ turn' = [turn EXCEPT ![t].pc = "done", ![t].result = "busy"]
    <3>1. RecordStep(t) /\ turn'[t].pc = "done" /\ ThreadStep
      BY <1>3, <2>1, BusyStep, SameThreads, Zenon DEF acquire_session_turn_lease
    <3> QED
      BY <1>1, <1>3, <2>1, <3>1 DEF acquire_session_turn_lease, Does, LeaseCall, Taken, HandsOver, At
  <2>2. CASE acquire(t) /\ Goes(t, "meta")
    <3>1. RecordStep(t) /\ turn'[t].pc = "meta" /\ ThreadStep
      BY <1>2, <1>3, <2>2, GoesStep, SameThreads DEF acquire_session_turn_lease, At
    <3> QED
      BY <1>1, <1>3, <2>2, <3>1 DEF acquire_session_turn_lease, Does, LeaseCall, Taken, HandsOver, At
  <2> QED
    BY <1>3, <2>1, <2>2 DEF acquire_session_turn_lease
<1>4. CASE update_session_metadata(t)
  <2>1. RecordStep(t) /\ turn'[t].pc = "route" /\ ThreadStep
    BY <1>2, <1>4, GoesStep, SameThreads DEF update_session_metadata, At
  <2> QED
    BY <1>1, <1>4, <2>1, ZenonT(30) DEF update_session_metadata, Does, LeaseCall, Taken, HandsOver, At, AtWork
<1>5. CASE _emit_attach_role_event(t)
  <2>1. RecordStep(t) /\ turn'[t].pc \in {"queue", "release"} /\ ThreadStep
    <3>1. CASE Goes(t, "queue") /\ thread' = thread
      BY <1>2, <1>5, <3>1, GoesStep, SameThreads DEF _emit_attach_role_event, At
    <3>2. CASE Ends(t, "error") /\ thread' = thread
      BY <1>5, <3>2, EndsStep, SameThreads DEF _emit_attach_role_event, At
    <3>3. CASE /\ Goes(t, "queue")
               /\ thread' = [thread EXCEPT ![turn[t].thread].writer = turn[t].in.attach]
      <4>1. turn[t].in.attach \in Attach \union {NULL}
        BY <1>1, TurnAssumption DEF TurnState, Inputs
      <4>2. RecordStep(t) /\ turn'[t].pc = "queue" /\ NothingGiven
        BY <1>2, <1>5, <3>3, GoesStep DEF _emit_attach_role_event, At
      <4> QED
        BY <3>3, <4>1, <4>2, FieldStep, Zenon
    <3> QED
      BY <1>5, <3>1, <3>2, <3>3 DEF _emit_attach_role_event
  <2> QED
    BY <1>1, <1>5, <2>1 DEF _emit_attach_role_event, Does, LeaseCall, Taken, HandsOver, At, AtWork
<1>6. CASE Prepare(t)
  <2>1. RecordStep(t) /\ turn'[t].pc \in {"inbound", "release"} /\ ThreadStep
    <3>1. CASE Goes(t, "inbound") /\ RunEvent(t, "awaiting")
      <4>1. RecordStep(t) /\ turn'[t].pc = "inbound" /\ NothingGiven /\ turn'[t].inv = turn[t].inv
        BY <1>2, <1>6, <3>1, GoesStep, Zenon DEF Prepare, At
      <4>2. turn'[t].inv # NULL
        BY <1>1, <1>6, <4>1, Zenon DEF Prepare, At, Phase, Running
      <4> QED
        BY <3>1, <4>1, <4>2, RunEventStep, Zenon
    <3>2. CASE Ends(t, "error") /\ thread' = thread
      BY <1>6, <3>2, EndsStep, SameThreads, Zenon DEF Prepare, At
    <3> QED
      BY <1>6, <3>1, <3>2, Zenon DEF Prepare
  <2> QED
    BY <1>1, <1>6, <2>1, Zenon DEF Prepare, Does, LeaseCall, Taken, HandsOver, At, AtWork
<1>7. CASE _persist_inbound_message_if_needed(t)
  <2>1. RecordStep(t) /\ turn'[t].pc = "agent" /\ ThreadStep
    BY <1>2, <1>7, GoesStep, SameThreads, Zenon DEF _persist_inbound_message_if_needed, At
  <2> QED
    BY <1>1, <1>7, <2>1, Zenon
       DEF _persist_inbound_message_if_needed, Does, LeaseCall, Taken, HandsOver, At, AtWork
<1>8. CASE _execute_agent(t)
  <2>1. PICK next \in {"suppress", "persist"} : Goes(t, next)
    BY <1>8 DEF _execute_agent
  <2>2. RecordStep(t) /\ turn'[t].pc = next /\ NothingGiven /\ turn'[t].inv = turn[t].inv
    BY <1>2, <1>8, <2>1, GoesStep, Zenon DEF _execute_agent, At
  <2>3. turn'[t].inv # NULL
    BY <1>1, <1>8, <2>2, Zenon DEF _execute_agent, At, Phase, Running
  <2>4. ThreadStep
    BY <1>8, <2>2, <2>3, RunEventStep, Zenon DEF _execute_agent
  <2> QED
    BY <1>1, <1>8, <2>2, <2>4, Zenon DEF _execute_agent, Does, LeaseCall, Taken, HandsOver, At, AtWork
<1>9. CASE Raises(t)
  <2>1. RecordStep(t) /\ turn'[t].pc = "fail" /\ ThreadStep
    BY <1>2, <1>9, GoesStep, SameThreads, Zenon DEF Raises, At
  <2> QED
    BY <1>1, <1>9, <2>1, Zenon DEF Raises, Does, LeaseCall, Taken, HandsOver, At, AtWork
<1>10. CASE FenceError(t) \/ ReplayRaises(t)
  <2>1. turn[t].pc \notin {"new", "route", "release", "done"}
        /\ (At(t, "delivered") => ~assert_fence(t))
    BY <1>10, Zenon DEF FenceError, ReplayRaises, At, Writes
  <2>2. RecordStep(t) /\ turn'[t].pc = "release" /\ ThreadStep
    BY <1>10, <2>1, EndsStep, SameThreads, Zenon DEF FenceError, ReplayRaises
  <2> QED
    BY <1>1, <1>10, <2>1, <2>2, Zenon
       DEF FenceError, ReplayRaises, Does, LeaseCall, Taken, HandsOver, At, AtWork
<1> QED
  BY <1>3, <1>4, <1>5, <1>6, <1>7, <1>8, <1>9, <1>10

\* The steps that take up, run, store, deliver or end an answer.
LEMMA AnswerDoes ==
  ASSUME Remembered, NEW t \in Turn,
         \/ _resolve_routing(t) \/ _setup_turn(t) \/ _complete_suppressed_idle_tick(t)
         \/ _build_outbound_and_persist(t) \/ _renew_session_turn_lease(t) \/ send(t)
  PROVE  Does(t)
<1>1. /\ turn[t] \in TurnState /\ recent \in Thread /\ turn[t].thread \in Thread
      /\ told \subseteq Turn \X {"settled", "failed"} /\ lapsed \subseteq Turn /\ Phase(t, turn[t])
  BY DEF Remembered, TurnTypeOK, TurnState
<1>2. CASE _resolve_routing(t)
  <2>1. RecordStep(t) /\ ThreadStep
    BY <1>2, RouteStep, SameThreads, Zenon DEF _resolve_routing
  <2>2. /\ turn'[t].answer # NULL => turn'[t].answer = thread[recent].out /\ ~thread[recent].delivered
        /\ turn'[t].pc \notin {"send", "new", "done"}
    BY <1>2, RouteStep, Zenon
  <2> QED
    BY <1>1, <1>2, <2>1, <2>2, Zenon
       DEF _resolve_routing, Does, LeaseCall, Taken, HandsOver, At, AtWork, leaseVars
<1>3. CASE _setup_turn(t)
  <2> DEFINE h == turn[t].thread
             inv == turn'[t].inv
             q == [thread[h] EXCEPT !.run = "awaiting", !.of = t, !.inv = inv]
  <2>1. /\ RecordStep(t) /\ turn'[t].pc = "prepare" /\ NothingGiven /\ inv \in Turn /\ inv # NULL
        /\ thread' = [thread EXCEPT ![h].run = "awaiting", ![h].of = t, ![h].inv = inv]
    BY <1>3, SetupStep, Zenon
  <2>2. thread \in [Thread -> ThreadState] /\ thread[h] \in ThreadState
    BY <1>1 DEF Remembered, TurnTypeOK
  <2>3. thread' = [thread EXCEPT ![h] = q]
    BY <1>1, <2>1, <2>2, Zenon
  <2>4. q \in ThreadState /\ q.of = t /\ q.out = thread[h].out /\ q.delivered = thread[h].delivered
    BY <2>1, <2>2, Zenon DEF ThreadState
  <2> HIDE DEF q, h
  <2>5. ThreadMoves(h, thread[h], q)
    BY <2>1, <2>4 DEF ThreadMoves
  <2>6. ThreadStep
    BY <1>1, <2>1, <2>3, <2>4, <2>5, OneThread, Zenon DEF h
  <2> QED
    BY <1>1, <1>3, <2>1, <2>6 DEF _setup_turn, Does, LeaseCall, Taken, HandsOver, At, AtWork
<1>4. CASE _complete_suppressed_idle_tick(t)
  <2>1. RecordStep(t) /\ turn'[t].pc = "release" /\ NothingGiven /\ turn'[t].inv # NULL
    BY <1>4, SuppressStep
  <2>2. ThreadStep
    BY <1>4, <2>1, RunEventStep, Zenon DEF _complete_suppressed_idle_tick
  <2> QED
    BY <1>1, <1>4, <2>1, <2>2
       DEF _complete_suppressed_idle_tick, Does, LeaseCall, Taken, HandsOver, At, AtWork
<1>5. CASE _build_outbound_and_persist(t)
  <2>1. /\ RecordStep(t) /\ NothingGiven /\ turn'[t].stored /\ ~turn'[t].given
        /\ turn'[t].answer = t /\ turn'[t].thread = turn[t].thread
        /\ turn'[t].pc \in {"renew", "delivered", "terminal"}
    BY <1>5, PersistStep
  <2>2. ThreadStep /\ recent' \in Thread
    <3>1. CASE UNCHANGED <<thread, recent>>
      BY <1>1, <2>1, <3>1, SameThreads
    <3>2. CASE thread' = [thread EXCEPT ![turn[t].thread].out = t] /\ recent' = turn[t].thread
      BY <1>1, <2>1, <3>2, FieldStep, Zenon
    <3> QED
      BY <1>5, <3>1, <3>2 DEF _build_outbound_and_persist
  <2> QED
    BY <1>1, <1>5, <2>1, <2>2
       DEF _build_outbound_and_persist, Does, LeaseCall, Taken, HandsOver, At, AtWork, write
<1>6. CASE _renew_session_turn_lease(t)
  <2>1. "send" \in PC
    BY DEF PC
  <2>2. RecordStep(t) /\ turn'[t].pc = "send" /\ turn'[t].answer = turn[t].answer /\ NothingGiven
    BY <1>6, <2>1, GoesStep, ZenonT(30) DEF _renew_session_turn_lease, At
  <2>3. ThreadStep
    BY <1>6, <2>2, SameThreads DEF _renew_session_turn_lease
  <2> QED
    BY <1>1, <1>6, <2>2, <2>3, Zenon
       DEF _renew_session_turn_lease, Does, LeaseCall, Taken, HandsOver, At, AtWork
<1>7. CASE send(t)
  <2>1. "delivered" \in PC
    BY DEF PC
  <2>2. /\ RecordStep(t) /\ turn'[t].pc = "delivered" /\ turn'[t].answer = turn[t].answer
        /\ NothingGiven
    BY <1>7, <2>1, GoesStep, Zenon DEF send, At
  <2>3. ThreadStep
    BY <1>7, <2>2, SameThreads DEF send
  <2> QED
    BY <1>1, <1>7, <2>2, <2>3, Zenon DEF send, Does, LeaseCall, Taken, HandsOver, At, AtWork
<1> QED
  BY <1>2, <1>3, <1>4, <1>5, <1>6, <1>7

\* What an ended run adds to the invocations' events.
LEMMA TerminalType ==
  ASSUME NEW t \in Turn, NEW run, NEW stored, NEW shown, turn[t].inv \in Turn
  PROVE  Terminal(t, run, stored, shown) \subseteq Turn \X {"settled", "failed"}
<1>1. CASE run = "failed"
  BY <1>1 DEF Terminal
<1>2. CASE run # "failed" /\ run = "completed" /\ stored /\ shown
  BY <1>2 DEF Terminal
<1>3. CASE run # "failed" /\ ~(run = "completed" /\ stored /\ shown)
  BY <1>3 DEF Terminal
<1> QED
  BY <1>1, <1>2, <1>3

\* The steps that end a turn.
LEMMA EndDoes ==
  ASSUME Remembered, NEW t \in Turn,
         \/ response_delivered(t) \/ emit_terminal_run_state(t) \/ Fail(t)
         \/ release_session_turn_lease(t) \/ Crash(t)
  PROVE  Does(t)
<1>1. /\ turn[t] \in TurnState /\ recent \in Thread /\ turn[t].thread \in Thread
      /\ told \subseteq Turn \X {"settled", "failed"} /\ lapsed \subseteq Turn /\ Phase(t, turn[t])
      /\ \A u \in Turn : turn[u].inv # NULL => turn[u].inv \in Turn
  BY DEF Remembered, TurnTypeOK, TurnState
<1>2. CASE response_delivered(t) /\ ~Replaying(t)
  <2>1. /\ RecordStep(t) /\ turn[t].answer = t /\ turn'[t].given /\ turn'[t].pc = "terminal"
        /\ \A u \in Turn \ {t} : turn'[u].given = turn[u].given
    BY <1>2, DeliveredStep, Zenon
  <2>2. ThreadStep
    BY <1>2, <2>1, FieldStep, Zenon DEF response_delivered
  <2> QED
    BY <1>1, <1>2, <2>1, <2>2 DEF response_delivered, Does, LeaseCall, Taken, HandsOver, At, AtWork
<1>3. CASE response_delivered(t) /\ Replaying(t)
  <2> DEFINE of == turn[t].before.of
  <2>1. /\ RecordStep(t) /\ turn'[t].pc = "release" /\ turn[t].answer \in Turn
        /\ turn'[turn[t].answer].given /\ turn[turn[t].answer].thread = turn[t].thread
        /\ of \in Turn /\ turn[of].inv # NULL
        /\ \A u \in Turn \ {turn[t].answer} : turn'[u].given = turn[u].given
    BY <1>3, ReplayedStep, Zenon
  <2>2. ThreadStep
    BY <1>3, <2>1, FieldStep, Zenon DEF response_delivered
  <2>3. told' = told \union Terminal(of, turn[of].run, turn[of].stored, TRUE)
    BY <1>3, Zenon DEF response_delivered
  <2>4. told' \subseteq Turn \X {"settled", "failed"}
    BY <1>1, <2>1, <2>3, TerminalType, Zenon
  <2> QED
    BY <1>1, <1>3, <2>1, <2>2, <2>4, Zenon
       DEF response_delivered, Does, LeaseCall, Taken, HandsOver, At, AtWork
<1>4. CASE emit_terminal_run_state(t)
  <2>1. /\ RecordStep(t) /\ turn'[t].inv = turn[t].inv /\ turn[t].inv # NULL
        /\ turn[t].record \in {"completed", "failed"} /\ turn'[t].pc = "release" /\ NothingGiven
    BY <1>4, TerminalStep, Zenon
  <2>2. ThreadStep
    BY <1>4, <2>1, RunEventStep, Zenon DEF emit_terminal_run_state
  <2>3. told' \subseteq Turn \X {"settled", "failed"}
    BY <1>1, <1>4, <2>1, TerminalType DEF emit_terminal_run_state
  <2> QED
    BY <1>1, <1>4, <2>1, <2>2, <2>3
       DEF emit_terminal_run_state, Does, LeaseCall, Taken, HandsOver, At, AtWork
<1>5. CASE Fail(t)
  <2>1. /\ RecordStep(t) /\ turn'[t].inv = turn[t].inv /\ turn[t].inv # NULL
        /\ turn'[t].pc = "release" /\ NothingGiven
    BY <1>5, FailStep, Zenon
  <2>2. ThreadStep
    BY <1>5, <2>1, RunEventStep, SameThreads, Zenon DEF Fail
  <2>3. told' \subseteq Turn \X {"settled", "failed"}
    BY <1>1, <1>5, <2>1, TerminalType, Zenon DEF Fail
  <2> QED
    BY <1>1, <1>5, <2>1, <2>2, <2>3, ZenonT(30) DEF Fail, Does, LeaseCall, Taken, HandsOver, At, AtWork
<1>6. CASE release_session_turn_lease(t)
  <2>1. RecordStep(t) /\ turn'[t].pc = "done" /\ NothingGiven
    BY <1>6, OverIsStep, Zenon DEF release_session_turn_lease
  <2>2. ThreadStep
    BY <1>6, <2>1, SameThreads DEF release_session_turn_lease
  <2> QED
    BY <1>1, <1>6, <2>1, <2>2, Zenon
       DEF release_session_turn_lease, Does, LeaseCall, Taken, HandsOver, At, AtWork
<1>7. CASE Crash(t)
  <2>1. RecordStep(t) /\ turn'[t].pc = "done" /\ NothingGiven /\ turn'[t].answer = NULL
    BY <1>7, OverIsStep, Zenon DEF Crash
  <2>2. ThreadStep
    BY <1>7, <2>1, SameThreads DEF Crash
  <2> QED
    BY <1>1, <1>7, <2>1, <2>2, Zenon
       DEF Crash, Does, LeaseCall, Taken, HandsOver, At, AtWork, Delivering
<1> QED
  BY <1>2, <1>3, <1>4, <1>5, <1>6, <1>7

-----------------------------------------------------------------------------
(* What turns and threads know of each other                               *)

\* A step of a turn, or a crash, is one of the kinds above.
LEMMA StepDoes ==
  ASSUME Remembered, NEW t \in Turn, TurnStep(t) \/ Crash(t)
  PROVE  Does(t)
  BY PlainDoes, AnswerDoes, EndDoes DEF TurnStep

\* Every step keeps what turns and threads know of each other.
LEMMA NextRemembered ==
  ASSUME Remembered, LeaseTypeOK', [TurnNext]_allVars
  PROVE  Remembered'
<1>1. ASSUME NEW t \in Turn, TurnStep(t) \/ Crash(t) PROVE Remembered'
  <2>1. Does(t)
    BY <1>1, StepDoes
  <2>2. RecordStep(t) /\ ThreadStep /\ HandsOver(t)
    BY <2>1 DEF Does
  <2>3. /\ sends \subseteq Turn \X Turn /\ orphaned \subseteq Turn /\ Phase(t, turn[t])
        /\ turn[t] \in TurnState /\ AnswerOK(t)
    BY DEF Remembered, TurnTypeOK
  <2>4. At(t, "send") => turn[t].answer \in Turn /\ turn[turn[t].answer].stored
    BY <2>3, TurnAssumption, Zenon DEF Phase, At, AnswerOK, TurnState
  <2>5. /\ sends' \subseteq Turn \X Turn
        /\ \A e \in sends' \ sends : turn'[e[1]].stored /\ turn'[e[2]].pc \in Sent
    <3>1. \A e \in sends' \ sends : At(t, "send") /\ e = <<turn[t].answer, t>>
                                    /\ turn'[t].pc = "delivered"
      BY <2>2, NewlySent, Zenon
    <3>2. turn[t].answer \in Turn /\ turn[turn[t].answer].stored =>
            turn'[turn[t].answer].stored
      BY <2>2, Zenon DEF RecordStep, Lasts
    <3> QED
      BY <2>3, <2>4, <3>1, <3>2 DEF Sent
  <2> QED
    BY <2>1, <2>2, <2>3, <2>5, KnowledgeLasts, Zenon DEF Does
<1>2. CASE Delete
  <2>1. NULL \in Thread /\ NoThread \in ThreadState
    BY DEF Thread, NoThread, ThreadState
  <2>2. /\ thread' = [h \in Thread |-> NoThread] /\ recent' = NULL
        /\ UNCHANGED <<turn, sends, told, lapsed>> /\ orphaned' \subseteq Turn
    BY <1>2 DEF Delete, Remembered, TurnTypeOK
  <2>3. TurnTypeOK'
    BY <2>1, <2>2 DEF Remembered, TurnTypeOK
  <2>4. \A h \in Thread : ThreadOK(h)'
    BY <2>2 DEF ThreadOK, NoThread
  <2>5. \A u \in Turn : Phase(u, turn'[u]) /\ AnswerOK(u)'
    BY <2>2, Zenon DEF Remembered, AnswerOK
  <2> QED
    BY <2>2, <2>3, <2>4, <2>5, Zenon DEF Remembered
<1>3. CASE Time \/ UNCHANGED allVars
  <2>1. /\ UNCHANGED <<turn, thread, recent, sends, told, orphaned>> /\ lapsed' \subseteq Turn
    BY <1>3 DEF Time, Remembered, TurnTypeOK, allVars, turnVars
  <2>2. TurnTypeOK'
    BY <2>1 DEF Remembered, TurnTypeOK
  <2>3. \A h \in Thread : ThreadOK(h)'
    BY <2>1 DEF Remembered, ThreadOK
  <2>4. \A u \in Turn : Phase(u, turn'[u]) /\ AnswerOK(u)'
    BY <2>1, Zenon DEF Remembered, AnswerOK
  <2> QED
    BY <2>1, <2>2, <2>3, <2>4, Zenon DEF Remembered
<1> QED
  BY <1>1, <1>2, <1>3 DEF TurnNext

\* Nothing is known at the start.
LEMMA InitRemembered == TurnInit => Fenced /\ Remembered
<1> SUFFICES ASSUME TurnInit PROVE Fenced /\ Remembered
  OBVIOUS
<1>1. Fenced
  BY FencedHolds, LeaseAssumption DEF TurnInit, LeaseInit, Fenced, LeaseTypeOK, TokensFollow,
     LogFollows, FencesNeverGoBack, OneRequestPerFence, NoRow, NoToken
<1>2. NULL \in Thread /\ NoThread \in ThreadState
  BY DEF Thread, NoThread, ThreadState
<1>3. ASSUME NEW u \in Turn
      PROVE  /\ turn[u] \in TurnState /\ turn[u].pc = "new" /\ turn[u].answer = NULL
             /\ turn[u].inv = NULL /\ turn[u].run = "none" /\ ~turn[u].stored
             /\ ~turn[u].given /\ turn[u].before = NoThread /\ turn[u].result = "none"
  <2>1. PICK i \in Input : turn[u] = [NoTurn EXCEPT !.in = i]
    BY DEF TurnInit
  <2>2. "new" \in PC
    BY DEF PC
  <2> QED
    BY <1>2, <2>1, <2>2, Zenon DEF NoTurn, TurnState
<1>4. turn \in [Turn -> TurnState]
  BY <1>3 DEF TurnInit
<1>5. TurnTypeOK
  BY <1>1, <1>2, <1>4 DEF TurnInit, TurnTypeOK, Fenced
<1>6. ASSUME NEW u \in Turn PROVE Phase(u, turn[u]) /\ AnswerOK(u)
  <2>1. Phase(u, turn[u])
    BY <1>3 DEF Phase
  <2>2. NoThread.of = NULL
    BY DEF NoThread
  <2> QED
    BY <1>3, <2>1, <2>2 DEF AnswerOK
<1>7. \A h \in Thread : ThreadOK(h)
  BY DEF TurnInit, ThreadOK, NoThread
<1> QED
  BY <1>1, <1>5, <1>6, <1>7 DEF Remembered, TurnInit

\* The gateway's strengthening of its types.
LEMMA RememberedHolds == TurnSpec => [](Fenced /\ Remembered)
<1>1. Fenced /\ Remembered /\ [TurnNext]_allVars => (Fenced /\ Remembered)'
  <2> SUFFICES ASSUME Fenced, Remembered, [TurnNext]_allVars PROVE (Fenced /\ Remembered)'
    OBVIOUS
  <2>1. [LeaseNext]_leaseVars
    <3>1. ASSUME NEW t \in Turn, TurnStep(t) \/ Crash(t) PROVE [LeaseNext]_leaseVars
      BY <3>1, TurnStepIsLeaseStep
    <3>2. CASE Delete \/ Time
      BY <3>2 DEF Delete, Time, LeaseNext
    <3>3. CASE UNCHANGED allVars
      BY <3>3 DEF allVars
    <3> QED
      BY <3>1, <3>2, <3>3 DEF TurnNext
  <2>2. Fenced'
    BY <2>1, LeaseStepKeeps
  <2> QED
    BY <2>2, NextRemembered DEF Fenced
<1> QED
  BY <1>1, InitRemembered, PTL DEF TurnSpec

\* GatewayTurnRunner.run: a caller that got an answer finds the run ended in the events
\* as in the runs table.
THEOREM AnswersAreRecorded == TurnSpec => []AnswerIsRecorded
<1>1. Remembered => AnswerIsRecorded
  BY Zenon DEF Remembered, AnswerIsRecorded, Phase
<1> QED
  BY <1>1, RememberedHolds, PTL

-----------------------------------------------------------------------------
(* Who may send an answer                                                  *)

\* A lease that a turn at work has lost stays lost, unless the session is deleted.
LEMMA LostStaysLost ==
  ASSUME Fenced, NEW t \in Turn, LeaseCall(t), NEW u \in Turn, token[u] # NoToken,
         token[u].life = life, Owns(u)'
  PROVE  Owns(u) /\ (row.left > 0 => row'.left > 0)
<1>1. /\ row \in Row /\ TTL \in Nat \ {0} /\ token \in [Turn -> [life : Nat, fence : Nat]]
      /\ token[u].fence <= row.fence /\ (row.released \/ row.fence > 0)
  BY LeaseAssumption DEF Fenced, LeaseTypeOK, TokensFollow, Row
<1>2. CASE UNCHANGED leaseVars \/ write(t)
  BY <1>2 DEF leaseVars, write, Owns
<1>3. CASE renew(t)
  <2>1. row'.fence = row.fence /\ row'.request = row.request /\ row'.released = row.released
        /\ row'.left = TTL
    BY <1>1, <1>3 DEF renew, Row
  <2> QED
    BY <1>1, <1>3, <2>1 DEF renew, Owns
<1>4. CASE release(t)
  <2>1. row'.fence = row.fence /\ row'.request = row.request /\ (row.released => row'.released)
        /\ row'.left = row.left
    BY <1>1, <1>4 DEF release, Row
  <2> QED
    BY <1>1, <1>4, <2>1 DEF release, Owns
<1>5. CASE acquire(t)
  <2>1. /\ ~Busy(t) /\ token[t] = NoToken /\ u # t /\ token'[u] = token[u]
        /\ row'.fence = IF Active THEN row.fence ELSE row.fence + 1
        /\ row'.request = request[t] /\ row'.left = TTL
    BY <1>1, <1>5 DEF acquire
  <2>2. row'.fence = token[u].fence /\ row'.request = request[u]
    BY <2>1 DEF Owns
  <2>3. Active
    BY <1>1, <2>1, <2>2 DEF Row
  <2> QED
    BY <1>1, <2>1, <2>2, <2>3 DEF Active, Busy, Owns
<1> QED
  BY <1>2, <1>3, <1>4, <1>5 DEF LeaseCall

\* A turn that delivers keeps its lease, or its lapse is on record.
LEMMA HeldStays ==
  ASSUME Fenced, NEW t \in Turn, LeaseCall(t), NEW u \in Turn, Owns(u), row.left > 0,
         Delivering(u), u \notin lapsed', token'[u] = token[u]
  PROVE  Owns(u)' /\ row'.left > 0
<1>1. /\ row \in Row /\ TTL \in Nat \ {0}
  BY LeaseAssumption DEF Fenced, LeaseTypeOK, Row
<1>2. CASE UNCHANGED leaseVars \/ write(t)
  BY <1>2 DEF leaseVars, write, Owns
<1>3. CASE renew(t)
  <2>1. row'.fence = row.fence /\ row'.request = row.request /\ row'.released = row.released
        /\ row'.left = TTL
    BY <1>1, <1>3 DEF renew, Row
  <2> QED
    BY <1>1, <2>1 DEF Owns
<1>4. CASE release(t) /\ (Owns(t) => {v \in Turn : Delivering(v)} \subseteq lapsed')
  <2>1. ~Owns(t)
    BY <1>4
  <2>2. row' = row
    BY <1>1, <1>4, <2>1 DEF release, Row
  <2> QED
    BY <2>2 DEF Owns
<1>5. CASE acquire(t)
  <2>1. /\ ~Busy(t) /\ row'.fence = (IF Active THEN row.fence ELSE row.fence + 1)
        /\ row'.request = request[t] /\ row'.left = TTL /\ ~row'.released
    BY <1>1, <1>5 DEF acquire
  <2>2. Active /\ row.request = request[t]
    BY <2>1 DEF Active, Owns, Busy
  <2> QED
    BY <1>1, <2>1, <2>2 DEF Owns
<1> QED
  BY <1>2, <1>3, <1>4, <1>5 DEF LeaseCall

\* A lease is given once.
LEMMA TokenStays ==
  ASSUME Fenced, NEW t \in Turn, LeaseCall(t)
  PROVE  /\ life' = life
         /\ \A u \in Turn : token[u] # NoToken => token'[u] = token[u]
  BY DEF Fenced, LeaseTypeOK, LeaseCall, leaseVars, acquire, renew, write, release

\* acquire, for the turn that gets the lease.
LEMMA TokenGiven ==
  ASSUME Fenced, NEW t \in Turn, acquire(t)
  PROVE  token'[t] # NoToken /\ token'[t].life = life
<1>1. /\ row \in Row /\ token \in [Turn -> [life : Nat, fence : Nat]] /\ life \in Nat
      /\ row.released \/ row.fence > 0
  BY DEF Fenced, LeaseTypeOK, Row
<1>2. row'.fence > 0 /\ row'.fence \in Nat
  BY <1>1 DEF acquire, Active, Row
<1>3. token'[t] = [life |-> life, fence |-> row'.fence]
  BY <1>1 DEF acquire
<1> QED
  BY <1>2, <1>3 DEF NoToken

\* Who holds the lease while it has an answer to send.
LEMMA StepHeldOK ==
  ASSUME Fenced, Remembered, \A u \in Turn : HeldOK(u), NEW t \in Turn, Does(t), NEW v \in Turn
  PROVE  HeldOK(v)'
<1>1. /\ RecordStep(t) /\ LeaseCall(t) /\ Taken(t) /\ HandsOver(t) /\ HeldOK(v)
      /\ lapsed \subseteq lapsed' /\ orphaned' = orphaned
      /\ turn'[t].pc \notin {"new", "done"} => AtWork(t) \/ acquire(t)
  BY Zenon DEF Does
<1>2. life' = life /\ (token[v] # NoToken => token'[v] = token[v])
  BY <1>1, TokenStays
<1>3. v # t => turn'[v].pc = turn[v].pc
  BY <1>1, Zenon DEF RecordStep, Kept
<1>4. AtWork(v)' => token'[v] # NoToken /\ (v \notin orphaned' => token'[v].life = life')
  <2>1. CASE AtWork(v)
    BY <1>1, <1>2, <2>1, Zenon DEF HeldOK
  <2>2. CASE v = t /\ acquire(t)
    BY <1>2, <2>2, TokenGiven
  <2> QED
    BY <1>1, <1>3, <2>1, <2>2, Zenon DEF AtWork
<1>5. ASSUME Sending(v)', Faultless(v)' PROVE Owns(v)' /\ row'.left > 0
  <2>1. Faultless(v) /\ v \notin lapsed'
    BY <1>1, <1>5 DEF Faultless
  <2>2. CASE Sending(v)
    <3>1. Owns(v) /\ row.left > 0 /\ token[v] # NoToken /\ Delivering(v)
      BY <1>1, <2>1, <2>2, Zenon DEF HeldOK, Owns, Sending, Delivering, At
    <3> QED
      BY <1>1, <1>2, <2>1, <3>1, HeldStays, Zenon
  <2>3. CASE At(t, "renew") /\ renew(t) /\ v = t
    <3>1. row \in Row /\ TTL > 0
      BY LeaseAssumption DEF Fenced, LeaseTypeOK, Row
    <3>2. row'.fence = row.fence /\ row'.request = row.request /\ row'.released = row.released
          /\ row'.left = TTL
      BY <2>3, <3>1 DEF renew, Row
    <3> QED
      BY <2>3, <3>1, <3>2 DEF renew, Owns
  <2>4. CASE ~Sending(v) /\ v # t
    <3>1. \A e \in sends' : e[2] = v => e \in sends
      <4>1. \A e \in sends' \ sends : e = <<turn[t].answer, t>>
        BY <1>1, NewlySent, Zenon
      <4> QED
        BY <2>4, <4>1
    <3> QED
      BY <1>3, <1>5, <2>4, <3>1 DEF Sending, At
  <2>5. CASE ~Sending(v) /\ v = t
    <3>1. CASE turn'[t].pc = "send"
      BY <1>1, <2>3, <2>5, <3>1, Zenon DEF Taken
    <3>2. CASE turn'[t].pc = "delivered"
      <4>1. turn[t].pc \in {"route", "persist"} /\ sends' = sends
        BY <1>1, <2>5, <3>2, Zenon DEF HandsOver, Sending, At
      <4>2. \A e \in sends : turn[e[2]].pc \in Sent
        BY DEF Remembered
      <4> QED
        BY <1>5, <2>5, <3>2, <4>1, <4>2 DEF Sending, At, Sent
    <3> QED
      BY <1>5, <2>5, <3>1, <3>2 DEF Sending, At
  <2> QED
    BY <2>2, <2>4, <2>5
<1> QED
  BY <1>4, <1>5 DEF HeldOK

\* An answer that was sent is on record, or its record is about to be written; and
\* nobody else with a lease has it in hand.
LEMMA StepSendsOK ==
  ASSUME Fenced, Remembered, \A u \in Turn : HeldOK(u), SendsOK, NEW t \in Turn, Does(t)
  PROVE  SendsOK'
<1>1. /\ RecordStep(t) /\ LeaseCall(t) /\ Taken(t) /\ HandsOver(t) /\ HeldOK(t)
      /\ lapsed \subseteq lapsed' /\ orphaned' = orphaned
  BY Zenon DEF Does
<1>2. life' = life /\ \A u \in Turn : token[u] # NoToken => token'[u] = token[u]
  BY <1>1, TokenStays
<1>3. /\ sends \subseteq Turn \X Turn /\ turn \in [Turn -> TurnState]
      /\ \A e \in sends : turn[e[1]].stored /\ turn[e[2]].pc \in Sent
      /\ \A u \in Turn : Phase(u, turn[u]) /\ turn[u] \in TurnState
  BY DEF Remembered, TurnTypeOK
<1>4. \A u \in Turn : Faultless(u)' => Faultless(u) /\ u \notin lapsed'
  BY <1>1 DEF Faultless
<1>5. ASSUME NEW e \in sends', Faultless(e[2])'
      PROVE  turn'[e[1]].given \/ (At(e[2], "delivered")' /\ turn'[e[2]].answer = e[1])
  <2>1. CASE e \in sends
    <3>1. e[1] \in Turn /\ e[2] \in Turn /\ Faultless(e[2]) /\ e[2] \notin lapsed'
      BY <1>3, <1>4, <1>5, <2>1
    <3>2. turn[e[1]].given \/ (At(e[2], "delivered") /\ turn[e[2]].answer = e[1])
      BY <2>1, <3>1, Zenon DEF SendsOK
    <3>3. CASE turn[e[1]].given
      BY <1>1, <3>1, <3>3, Zenon DEF RecordStep, Lasts
    <3>4. CASE At(e[2], "delivered") /\ turn[e[2]].answer = e[1] /\ e[2] # t
      BY <1>1, <3>1, <3>4, Zenon DEF RecordStep, Kept, At
    <3>5. CASE At(e[2], "delivered") /\ turn[e[2]].answer = e[1] /\ e[2] = t
      <4>1. Sending(t)
        BY <2>1, <3>5 DEF Sending
      <4>2. assert_fence(t)
        BY <1>1, <3>1, <3>5, <4>1, Zenon DEF HeldOK, Owns, assert_fence
      <4> QED
        BY <1>1, <3>1, <3>5, <4>2, Zenon DEF HandsOver
    <3> QED
      BY <3>2, <3>3, <3>4, <3>5, Zenon
  <2>2. CASE e \notin sends
    <3>1. e = <<turn[t].answer, t>> /\ turn'[t].pc = "delivered"
          /\ turn'[t].answer = turn[t].answer
      BY <1>1, <1>5, <2>2, NewlySent, Zenon
    <3> QED
      BY <3>1 DEF At
  <2> QED
    BY <2>1, <2>2, Zenon
<1>6. ASSUME NEW e \in sends', Faultless(e[2])', NEW u \in Turn,
             turn'[u].pc \in {"renew", "send"}, turn'[u].answer = e[1],
             u \notin orphaned', request[u] # request[e[2]], Owns(u)'
      PROVE  FALSE
  <2>1. CASE e \in sends /\ u # t
    <3>1. turn[u].pc \in {"renew", "send"} /\ turn[u].answer = e[1] /\ u \notin orphaned
      BY <1>1, <1>6, <2>1, Zenon DEF RecordStep, Kept
    <3>2. e[2] \in Turn /\ Faultless(e[2])
      BY <1>3, <1>4, <1>6, <2>1, Zenon
    <3>3. ~Owns(u)
      BY <1>6, <2>1, <3>1, <3>2, Zenon DEF SendsOK
    <3>4. token[u] # NoToken /\ token[u].life = life
      BY <3>1, Zenon DEF HeldOK, AtWork
    <3> QED
      BY <1>1, <1>6, <3>3, <3>4, LostStaysLost, Zenon
  <2>2. CASE e \in sends /\ u = t
    <3>1. e[1] \in Turn /\ e[2] \in Turn /\ Faultless(e[2]) /\ turn[e[1]].stored
      BY <1>3, <1>4, <1>6, <2>2, Zenon
    <3>2. CASE turn'[t].pc = "send"
      BY <1>1, <1>6, <2>2, <3>1, <3>2 DEF Taken, renew, SendsOK, At
    <3>3. CASE turn'[t].pc = "renew" /\ At(t, "persist")
      <4>1. ~At(t, "route")
        BY <3>3 DEF At
      <4>2. turn'[t].answer = t
        BY <1>1, <3>3, <4>1, ZenonT(30) DEF Taken
      <4>3. Phase(t, turn[t]) => ~turn[t].stored
        BY <3>3, Zenon DEF Phase, At
      <4> QED
        BY <1>3, <1>6, <2>2, <3>1, <4>2, <4>3, Zenon
    <3>4. CASE turn'[t].pc = "renew" /\ At(t, "route")
      <4>1. e[1] = thread[recent].out /\ ~thread[recent].delivered
        BY <1>1, <1>6, <2>2, <3>1, <3>4, TurnAssumption, Zenon DEF Taken
      <4>2. ~turn[e[1]].given
        BY <3>1, <4>1, TurnAssumption DEF Remembered, TurnTypeOK, ThreadOK
      <4>3. At(e[2], "delivered") /\ Sending(e[2])
        BY <2>2, <3>1, <4>2, Zenon DEF SendsOK, Sending
      <4>4. Owns(e[2])
        BY <3>1, <4>3, Zenon DEF HeldOK
      <4> QED
        BY <1>1, <1>6, <2>2, <3>4, <4>4, Zenon DEF Taken, Owns
    <3> QED
      BY <1>1, <1>6, <2>2, <3>2, <3>3, <3>4, Zenon DEF Taken
  <2>3. CASE e \notin sends
    <3>1. At(t, "send") /\ e = <<turn[t].answer, t>> /\ UNCHANGED leaseVars
      BY <1>1, <2>3, Zenon DEF HandsOver
    <3>2. Owns(t)
      BY <1>1, <1>4, <1>6, <3>1, Zenon DEF HeldOK, Sending
    <3> QED
      BY <1>6, <3>1, <3>2, Zenon DEF Owns, leaseVars
  <2> QED
    BY <2>1, <2>2, <2>3
<1> QED
  BY <1>5, <1>6, Zenon DEF SendsOK

\* The answer that is handed over has not been handed over before, or somebody's lapse
\* is on record.
LEMMA StepSentOnce ==
  ASSUME Fenced, Remembered, \A u \in Turn : HeldOK(u), SendsOK, SentOnceUnlessLapsed,
         NEW t \in Turn, Does(t)
  PROVE  SentOnceUnlessLapsed'
<1>1. HandsOver(t) /\ HeldOK(t) /\ lapsed \subseteq lapsed' /\ orphaned' = orphaned
  BY DEF Does
<1> SUFFICES ASSUME NEW r \in Turn, NEW t1 \in Turn, NEW t2 \in Turn,
                    <<r, t1>> \in sends', <<r, t2>> \in sends', t1 # t2,
                    request[t1] # request[t2], t1 \notin lapsed' \union orphaned',
                    t2 \notin lapsed' \union orphaned'
             PROVE  FALSE
  BY DEF SentOnceUnlessLapsed, Senders
<1>2. Faultless(t1) /\ Faultless(t2)
  BY <1>1 DEF Faultless
<1>3. CASE <<r, t1>> \in sends /\ <<r, t2>> \in sends
  BY <1>2, <1>3 DEF SentOnceUnlessLapsed, Senders, Faultless
<1>4. ASSUME NEW u \in Turn, <<r, u>> \in sends, Faultless(u), At(t, "send"),
             turn[t].answer = r, Faultless(t), request[t] # request[u]
      PROVE  FALSE
  <2>1. Owns(t)
    BY <1>1, <1>4, Zenon DEF HeldOK, Sending
  <2>2. ~Owns(t)
    BY <1>4 DEF SendsOK, At, Faultless
  <2> QED
    BY <2>1, <2>2
<1>5. CASE <<r, t1>> \notin sends
  <2>1. t1 = t /\ At(t, "send") /\ turn[t].answer = r /\ <<r, t2>> \in sends
    BY <1>1, <1>5 DEF HandsOver
  <2> QED
    BY <1>2, <1>4, <2>1, Zenon
<1>6. CASE <<r, t2>> \notin sends
  <2>1. t2 = t /\ At(t, "send") /\ turn[t].answer = r /\ <<r, t1>> \in sends
    BY <1>1, <1>6 DEF HandsOver
  <2> QED
    BY <1>2, <1>4, <2>1
<1> QED
  BY <1>3, <1>5, <1>6

\* Every step keeps the strengthening of the delivery.
LEMMA NextAnswering ==
  ASSUME Answering, Fenced', Remembered', [TurnNext]_allVars
  PROVE  Answering'
<1>1. Fenced /\ Remembered /\ SendsOK /\ SentOnceUnlessLapsed /\ \A u \in Turn : HeldOK(u)
  BY DEF Answering
<1>2. ASSUME NEW t \in Turn, TurnStep(t) \/ Crash(t) PROVE Answering'
  <2>1. Does(t)
    BY <1>1, <1>2, StepDoes
  <2>2. \A u \in Turn : HeldOK(u)'
    BY <1>1, <2>1, StepHeldOK
  <2> QED
    BY <1>1, <2>1, <2>2, StepSendsOK, StepSentOnce DEF Answering
<1>3. CASE Delete
  <2>1. /\ UNCHANGED <<turn, sends, lapsed, token>> /\ orphaned \subseteq orphaned'
        /\ \A u \in Turn : AtWork(u) => u \in orphaned'
    BY <1>3 DEF Delete, delete_session
  <2>2. ASSUME NEW u \in Turn PROVE HeldOK(u)'
    BY <1>1, <2>1 DEF HeldOK, AtWork, Sending, Faultless, At
  <2>3. SendsOK'
    BY <1>1, <2>1 DEF SendsOK, Faultless, AtWork, At
  <2>4. SentOnceUnlessLapsed'
    BY <1>1, <2>1 DEF SentOnceUnlessLapsed, Senders
  <2> QED
    BY <2>2, <2>3, <2>4 DEF Answering
<1>4. CASE Time
  <2>1. /\ UNCHANGED <<turn, sends, orphaned, token, life>> /\ lapsed \subseteq lapsed'
        /\ \A u \in Turn : Delivering(u) /\ row.left <= 1 => u \in lapsed'
        /\ row' = [row EXCEPT !.left = IF row.left > 0 THEN row.left - 1 ELSE 0]
    BY <1>4 DEF Time, Tick
  <2>2. row \in Row
    BY <1>1 DEF Fenced, LeaseTypeOK, Row
  <2>3. row'.fence = row.fence /\ row'.request = row.request /\ row'.released = row.released
        /\ row'.left = IF row.left > 0 THEN row.left - 1 ELSE 0
    BY <2>1, <2>2 DEF Row
  <2>4. \A u \in Turn : Owns(u)' <=> Owns(u)
    BY <2>1, <2>3 DEF Owns
  <2>5. row.left > 1 => row'.left > 0
    BY <2>2, <2>3, LeaseAssumption DEF Row
  <2>6. ASSUME NEW u \in Turn PROVE HeldOK(u)'
    <3>1. HeldOK(u)
      BY <1>1
    <3>2. Sending(u)' => Sending(u) /\ Delivering(u)
      BY <2>1 DEF Sending, At, Delivering
    <3>3. Faultless(u)' => Faultless(u) /\ u \notin lapsed'
      BY <2>1 DEF Faultless
    <3>4. Delivering(u) /\ u \notin lapsed' => row.left > 1
      BY <2>1, <2>2, LeaseAssumption DEF Row
    <3> QED
      BY <2>1, <2>4, <2>5, <3>1, <3>2, <3>3, <3>4 DEF HeldOK, AtWork
  <2>7. SendsOK'
    BY <1>1, <2>1, <2>4, <2>6 DEF SendsOK, Faultless, At, Remembered, TurnTypeOK
  <2>8. SentOnceUnlessLapsed'
    BY <1>1, <2>1 DEF SentOnceUnlessLapsed, Senders
  <2> QED
    BY <2>6, <2>7, <2>8 DEF Answering
<1>5. CASE UNCHANGED allVars
  <2>1. UNCHANGED <<turn, sends, orphaned, lapsed, token, life, row>>
    BY <1>5 DEF allVars, turnVars, leaseVars
  <2>2. \A u \in Turn : HeldOK(u)'
    BY <1>1, <2>1 DEF HeldOK, AtWork, Sending, Faultless, Owns, At
  <2>3. SendsOK' /\ SentOnceUnlessLapsed'
    BY <1>1, <2>1, Zenon DEF SendsOK, Faultless, Owns, At, SentOnceUnlessLapsed, Senders
  <2> QED
    BY <2>2, <2>3 DEF Answering
<1> QED
  BY <1>2, <1>3, <1>4, <1>5 DEF TurnNext

\* An answer that a turn takes up has not been recorded as delivered.
LEMMA TakenUpUndelivered ==
  ASSUME Remembered, [TurnNext]_allVars, NEW t \in Turn, At(t, "route"), turn'[t].answer # NULL
  PROVE  ~turn[turn'[t].answer].given
<1>1. turn[t].answer = NULL
  BY Zenon DEF Remembered, Phase, At
<1>2. ASSUME NEW u \in Turn, TurnStep(u) \/ Crash(u) PROVE ~turn[turn'[t].answer].given
  <2>1. Does(u)
    BY <1>2, StepDoes
  <2>2. u = t
    BY <1>1, <2>1, Zenon DEF Does, RecordStep, Kept
  <2>3. turn'[t].answer = thread[recent].out /\ ~thread[recent].delivered
    BY <2>1, <2>2, Zenon DEF Does, Taken
  <2> QED
    BY <2>3, Zenon DEF Remembered, TurnTypeOK, ThreadOK
<1>3. CASE Delete \/ Time \/ UNCHANGED allVars
  BY <1>1, <1>3, Zenon DEF Delete, Time, allVars, turnVars
<1> QED
  BY <1>2, <1>3 DEF TurnNext

\* GatewayTurnRunner: for any number of turns, requests, stalls, crashes and deletions,
\* an answer goes out twice only after a lapse of the lease between the renewal and the
\* response.delivered event, and is never taken up once that event is on record.
THEOREM AnswersSentOnce == TurnSpec => AnsweredOnce
<1>1. TurnInit => Answering
  <2> SUFFICES ASSUME TurnInit PROVE Answering
    OBVIOUS
  <2>1. Fenced /\ Remembered
    BY InitRemembered
  <2>2. sends = {} /\ \A u \in Turn : turn[u].pc = "new"
    <3>1. \A u \in Turn : \E i \in Input : turn[u] = [NoTurn EXCEPT !.in = i]
      BY DEF TurnInit
    <3>2. \A i \in Input : [NoTurn EXCEPT !.in = i].pc = "new"
      BY DEF NoTurn
    <3> QED
      BY <3>1, <3>2, Zenon DEF TurnInit
  <2> QED
    BY <2>1, <2>2 DEF Answering, HeldOK, AtWork, Sending, At, SendsOK, SentOnceUnlessLapsed, Senders
<1>2. Answering /\ (Fenced /\ Remembered)' /\ [TurnNext]_allVars => Answering'
  BY NextAnswering
<1>3. Answering => TurnTypeOK /\ SentOnceUnlessLapsed
  BY DEF Answering, Remembered
<1>4. Remembered /\ [TurnNext]_allVars =>
        [\A t \in Turn : At(t, "route") /\ turn'[t].answer # NULL
           => ~turn[turn'[t].answer].given]_allVars
  BY TakenUpUndelivered
<1> QED
  BY <1>1, <1>2, <1>3, <1>4, RememberedHolds, PTL DEF TurnSpec, AnsweredOnce, NoReplayAfterDelivered
=============================================================================
