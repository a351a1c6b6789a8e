------------------------- MODULE AgentRuntimeSteps --------------------------
(***************************************************************************)
(* The inductive invariant of AgentRuntime, and what its steps do to the   *)
(* queues, to the table of instances and to the workers, for any number of *)
(* turns and agents and any limits.                                        *)
(***************************************************************************)
EXTENDS AgentRuntime, TLAPS

\* The turns in a queue, without the marks to stop; and that none is there twice.
Elems(s) == {s[k] : k \in 1..Len(s)} \ {NULL}
Distinct(s) == \A k, l \in 1..Len(s) : s[k] = s[l] /\ s[k] # NULL => k = l

\* A turn that has not come to get_or_create_agent has created no instance.
NotYetCreated(t) ==
  submit[t] \in {"new", "checked", "refused"} =>
    inst[t] = Unborn /\ t \notin hot /\ t # evictor.inst /\ t \notin stopper.insts

\* One that has not come to enqueue is not known to the manager.
NotYetEntered(t) ==
  submit[t] \in {"new", "checked", "refused", "created"} => t \notin traces /\ result[t] = NULL

\* While the manager accepts turns, nothing makes a hot instance's worker stop.
HotGoesOn ==
  /\ stopper.pc # "up" => ~accepting
  /\ stopping => ~accepting
  /\ accepting => \A i \in hot : \A k \in 1..Len(inst[i].queue) : inst[i].queue[k] # NULL

\* A worker has a status for its turn from when the turn ended.
StatusOK(i) == (inst[i].status # NULL) = (inst[i].pc \in {"complete", "finish"})

EvictorOK ==
  /\ (evictor.pc = "rest") = (evictor.inst = NULL)
  /\ evictor.inst \notin hot
  /\ evictor.pc \in {"rest", "drain", "settle", "retire"}
  /\ evictor.pc = "rest" => evictor.held = <<>>
  /\ evictor.pc = "retire" => evictor.held # <<>>

\* The places: which turns each queue holds, which turn each worker has, and which
\* ones the eviction has taken.
queued == [i \in Turn |-> Elems(inst[i].queue)]
carried == [i \in Turn |-> inst[i].turn]
taken == Elems(evictor.held)
finishing == {i \in Turn : inst[i].pc = "finish"}

\* No turn is in two places, or twice in one.
NoRepeats == Distinct(evictor.held) /\ \A i \in Turn : Distinct(inst[i].queue)
Apart ==
  \A i \in Turn :
    /\ carried[i] \notin taken /\ queued[i] \intersect taken = {}
    /\ \A j \in Turn :
         /\ carried[i] \notin queued[j]
         /\ i # j => queued[i] \intersect queued[j] = {} /\ (carried[i] # NULL => carried[i] # carried[j])

\* A turn that is in a place was accepted and is in the table, and has its result
\* only when it is about to leave both.
Entered(t) == submit[t] \in {"returned", "late"} /\ t \in traces
Retiring == IF evictor.pc = "retire" THEN {Head(evictor.held)} ELSE {}

PlacesOK ==
  /\ \A i \in Turn : /\ \A t \in queued[i] : Entered(t) /\ result[t] = NULL
                     /\ carried[i] # NULL => /\ Entered(carried[i])
                                            /\ (result[carried[i]] # NULL) = (i \in finishing)
  /\ \A t \in taken : Entered(t) /\ (result[t] # NULL) = (t \in Retiring)

IInv ==
  /\ RuntimeTypeOK
  /\ IsFiniteSet(hot) /\ HotIsBounded /\ HotIsOrdered
  /\ HotIsServed /\ HotGoesOn
  /\ \A t \in Turn : NotYetCreated(t) /\ NotYetEntered(t)
  /\ \A i \in Turn : StatusOK(i)
  /\ EvictorOK /\ NoRepeats /\ Apart /\ PlacesOK

-----------------------------------------------------------------------------
(* Queues                                                                  *)

\* Queue.put: what is put into a queue is then in it once, if it was not there.
LEMMA Put ==
  ASSUME NEW S, NEW s \in Seq(S), NEW x \in S
  PROVE  /\ Append(s, x) \in Seq(S) /\ Append(s, x) # <<>>
         /\ Elems(Append(s, x)) = Elems(s) \union ({x} \ {NULL})
         /\ Distinct(s) /\ x \notin Elems(s) => Distinct(Append(s, x))
<1> DEFINE q == Append(s, x)
<1>1. /\ q \in Seq(S) /\ Len(q) = Len(s) + 1 /\ Len(s) \in Nat
      /\ q[Len(s) + 1] = x
      /\ \A k \in 1..Len(s) : q[k] = s[k]
  OBVIOUS
<1> HIDE DEF q
<1>2. Elems(q) = Elems(s) \union ({x} \ {NULL})
  <2>1. ASSUME NEW y \in Elems(q) PROVE y \in Elems(s) \union ({x} \ {NULL})
    <3>1. PICK k \in 1..Len(q) : y = q[k] /\ y # NULL
      BY <2>1 DEF Elems
    <3>2. k \in 1..Len(s) \/ k = Len(s) + 1
      BY <1>1
    <3> QED  BY <1>1, <3>1, <3>2 DEF Elems
  <2>2. ASSUME NEW y \in Elems(s) PROVE y \in Elems(q)
    <3>1. PICK k \in 1..Len(s) : y = s[k] /\ y # NULL
      BY <2>2 DEF Elems
    <3>2. k \in 1..Len(q) /\ q[k] = y
      BY <1>1, <3>1
    <3> QED  BY <3>1, <3>2 DEF Elems
  <2>3. x # NULL => x \in Elems(q)
    <3>1. Len(s) + 1 \in 1..Len(q)
      BY <1>1
    <3> QED  BY <1>1, <3>1 DEF Elems
  <2> QED  BY <2>1, <2>2, <2>3
<1>3. ASSUME Distinct(s), x \notin Elems(s) PROVE Distinct(q)
  <2> SUFFICES ASSUME NEW k \in 1..Len(q), NEW l \in 1..Len(q), q[k] = q[l], q[k] # NULL
               PROVE  k = l
    BY DEF Distinct
  <2>1. \A m \in 1..Len(s) : s[m] # x \/ x = NULL
    BY <1>3 DEF Elems
  <2>2. k \in 1..Len(s) \/ k = Len(s) + 1
    BY <1>1
  <2>3. l \in 1..Len(s) \/ l = Len(s) + 1
    BY <1>1
  <2> QED  BY <1>1, <1>3, <2>1, <2>2, <2>3 DEF Distinct
<1> QED  BY <1>1, <1>2, <1>3 DEF q

\* Queue.get: what is taken from a queue is no longer in it.
LEMMA Taken ==
  ASSUME NEW S, NEW s \in Seq(S), s # <<>>, Distinct(s)
  PROVE  /\ Head(s) \in S /\ Tail(s) \in Seq(S)
         /\ Elems(Tail(s)) = Elems(s) \ {Head(s)}
         /\ Head(s) # NULL => Head(s) \in Elems(s)
         /\ Distinct(Tail(s))
         /\ \A k \in 1..Len(Tail(s)) : Tail(s)[k] = s[k + 1] /\ k + 1 \in 1..Len(s)
<1> DEFINE q == Tail(s)
<1>1. /\ q \in Seq(S) /\ Len(s) \in Nat \ {0} /\ Len(q) = Len(s) - 1
      /\ Head(s) = s[1] /\ Head(s) \in S /\ 1 \in 1..Len(s)
      /\ \A k \in 1..Len(q) : q[k] = s[k + 1] /\ k + 1 \in 1..Len(s)
  OBVIOUS
<1> HIDE DEF q
<1>2. Elems(q) = Elems(s) \ {Head(s)}
  <2>1. ASSUME NEW y \in Elems(q) PROVE y \in Elems(s) /\ y # Head(s)
    <3>1. PICK k \in 1..Len(q) : y = q[k] /\ y # NULL
      BY <2>1 DEF Elems
    <3>2. k + 1 \in 1..Len(s) /\ y = s[k + 1] /\ k + 1 # 1
      BY <1>1, <3>1
    <3>3. y # s[1]
      BY <1>1, <3>1, <3>2 DEF Distinct
    <3> QED  BY <1>1, <3>1, <3>2, <3>3, Zenon DEF Elems
  <2>2. ASSUME NEW y \in Elems(s), y # Head(s) PROVE y \in Elems(q)
    <3>1. PICK k \in 1..Len(s) : y = s[k] /\ y # NULL
      BY <2>2 DEF Elems
    <3>2. k - 1 \in 1..Len(q) /\ q[k - 1] = y
      BY <1>1, <2>2, <3>1
    <3> QED  BY <3>1, <3>2 DEF Elems
  <2> QED  BY <2>1, <2>2
<1>3. Distinct(q)
  BY <1>1 DEF Distinct
<1>4. Head(s) # NULL => Head(s) \in Elems(s)
  BY <1>1 DEF Elems
<1> QED  BY <1>1, <1>2, <1>3, <1>4 DEF q

\* An empty queue holds nothing.
LEMMA EmptyQueue == Elems(<<>>) = {} /\ Distinct(<<>>) /\ <<>> \in Seq(Turn)
BY DEF Elems, Distinct

-----------------------------------------------------------------------------
(* The table of hot instances                                              *)

\* An instance that has nothing yet, and one just created.
LEMMA FreshTypes ==
  /\ Unborn = [queue |-> <<>>, stop |-> FALSE, pc |-> "none", turn |-> NULL, status |-> NULL]
  /\ Born = [queue |-> <<>>, stop |-> FALSE, pc |-> "get", turn |-> NULL, status |-> NULL]
<1> DEFINE no == FALSE
<1>1. Unborn = [queue |-> <<>>, stop |-> no, pc |-> "none", turn |-> NULL, status |-> NULL]
  BY Zenon DEF Unborn
<1> HIDE DEF no
<1>2. Born = [queue |-> <<>>, stop |-> no, pc |-> "get", turn |-> NULL, status |-> NULL]
  BY <1>1 DEF Born
<1> QED  BY <1>1, <1>2, Zenon DEF no

\* get_or_create_agent and _evict_over_limit_locked: the agent's instance, which is
\* new just when it had none, ends up in the table or among those evicted, which are
\* idle.
Creates(t, mine, out) ==
  LET all == hot \union {mine}
      born == IF mine = t THEN [inst EXCEPT ![t] = Born] ELSE inst
  IN /\ agentOf[mine] = agentOf[t]
     /\ IF mine = t THEN Hot(agentOf[t]) = {} ELSE mine \in hot
     /\ \A i \in out : i \in all /\ Idle(i)
     /\ hot' = all \ out
     /\ older' = MovedToEnd(mine, all) \intersect (hot' \X hot')
     /\ inst' = [i \in Turn |-> IF i \in out THEN Stopped(born[i]) ELSE born[i]]

\* Whatever get_or_create_agent does is described so.
LEMMA CreateFacts ==
  ASSUME RuntimeAssumption, IInv, NEW t \in Turn, get_or_create_agent(t)
  PROVE  \E mine \in Turn, out \in SUBSET Turn : Creates(t, mine, out)
<1> DEFINE new == Hot(agentOf[t]) = {}
           mine == IF new THEN t ELSE CHOOSE i \in Hot(agentOf[t]) : TRUE
           all == hot \union {mine}
           idle == {i \in all : Idle(i)}
           born == IF new THEN [inst EXCEPT ![t] = Born] ELSE inst
<1>1. /\ submit[t] = "checked" /\ t \notin hot /\ inst[t] = Unborn
      /\ hot \subseteq Turn
  BY DEF IInv, get_or_create_agent, NotYetCreated, RuntimeTypeOK
<1>2. /\ mine \in Turn /\ agentOf[mine] = agentOf[t] /\ new = (mine = t)
      /\ ~new => mine \in hot
  <2>1. CASE new  BY <2>1
  <2>2. CASE ~new
    <3>1. mine \in Hot(agentOf[t])
      BY <2>2
    <3> QED  BY <1>1, <2>2, <3>1 DEF Hot
  <2> QED  BY <2>1, <2>2
<1>3. PICK out \in SUBSET idle :
        /\ hot' = all \ out
        /\ older' = MovedToEnd(mine, all) \intersect (hot' \X hot')
        /\ inst' = [i \in Turn |-> IF i \in out THEN Stopped(born[i]) ELSE born[i]]
  BY DEF get_or_create_agent
<1>4. all \subseteq Turn /\ idle \subseteq all /\ (new => t \in idle)
  <2>1. Idle(t)
    BY <1>1, FreshTypes DEF Idle
  <2>2. new => t \in all
    BY <1>2
  <2> HIDE DEF new, mine
  <2> QED  BY <1>1, <1>2, <2>1, <2>2
<1> HIDE DEF new, mine, idle
<1>5. out \in SUBSET Turn /\ \A i \in out : i \in all /\ Idle(i)
  BY <1>3, <1>4 DEF idle
<1>6. born = IF mine = t THEN [inst EXCEPT ![t] = Born] ELSE inst
  BY <1>2, Zenon
<1>7. IF mine = t THEN Hot(agentOf[t]) = {} ELSE mine \in hot
  BY <1>2 DEF new
<1> DEFINE b == IF mine = t THEN [inst EXCEPT ![t] = Born] ELSE inst
<1> HIDE DEF born, b
<1>8. inst' = [i \in Turn |-> IF i \in out THEN Stopped(b[i]) ELSE b[i]]
  <2>1. b = born
    BY <1>6 DEF b
  <2> QED  BY <1>3, <2>1
<1>9. Creates(t, mine, out)
  BY <1>2, <1>3, <1>5, <1>7, <1>8, Zenon DEF b, Creates
<1> QED  BY <1>2, <1>5, <1>9

\* The order of use: what is left of a strict total order is one, and so is what
\* move_to_end makes of it.
Ordered(S, R) ==
  \A i, j \in S : /\ <<i, i>> \notin R
                  /\ i # j => <<i, j>> \in R \/ <<j, i>> \in R
                  /\ \A k \in S : <<i, j>> \in R /\ <<j, k>> \in R => <<i, k>> \in R

\* Instances that leave the table leave the others in order.
LEMMA AmongOrdered ==
  ASSUME HotIsOrdered, older \subseteq hot \X hot, NEW S, S \subseteq hot
  PROVE  Among(S) \subseteq S \X S /\ Ordered(S, Among(S))
BY Zenon DEF HotIsOrdered, Among, Ordered

\* move_to_end(i): the instance, a new one or one of the table, comes last.
LEMMA MovedOrdered ==
  ASSUME HotIsOrdered, older \subseteq hot \X hot, NEW i, NEW S, S = hot \union {i}
  PROVE  MovedToEnd(i, S) \subseteq S \X S /\ Ordered(S, MovedToEnd(i, S))
<1> DEFINE M == MovedToEnd(i, S)
<1>1. \A j, k : <<j, k>> \in M <=> \/ j \in S \ {i} /\ k \in S \ {i} /\ <<j, k>> \in older
                                   \/ j \in S \ {i} /\ k = i
  BY DEF MovedToEnd, Among
<1>2. M \subseteq S \X S
  <2>1. \A p \in Among(S \ {i}) : p \in S \X S
    BY DEF Among
  <2>2. \A p \in {<<j, i>> : j \in S \ {i}} : p \in S \X S
    OBVIOUS
  <2> QED  BY <2>1, <2>2 DEF MovedToEnd
<1> HIDE DEF M
<1>3. Ordered(S, M)
  <2> SUFFICES ASSUME NEW j \in S, NEW k \in S
               PROVE  /\ <<j, j>> \notin M
                      /\ j # k => <<j, k>> \in M \/ <<k, j>> \in M
                      /\ \A l \in S : <<j, k>> \in M /\ <<k, l>> \in M => <<j, l>> \in M
    BY Zenon DEF Ordered
  <2>1. <<j, j>> \notin M
    BY <1>1 DEF HotIsOrdered
  <2>2. j # k => <<j, k>> \in M \/ <<k, j>> \in M
    BY <1>1, Zenon DEF HotIsOrdered
  <2>3. ASSUME NEW l \in S, <<j, k>> \in M, <<k, l>> \in M PROVE <<j, l>> \in M
    BY <1>1, <2>3, Zenon DEF HotIsOrdered
  <2> QED  BY <2>1, <2>2, <2>3
<1> QED  BY <1>2, <1>3 DEF M

\* _finish_turn: using an agent's instance again keeps the order one.
LEMMA UsedOrdered ==
  ASSUME HotIsOrdered, older \subseteq hot \X hot, NEW a
  PROVE  Used(a) \subseteq hot \X hot /\ Ordered(hot, Used(a))
<1>1. CASE Hot(a) = {}
  BY <1>1, Zenon DEF Used, Ordered, HotIsOrdered
<1>2. CASE Hot(a) # {}
  <2> DEFINE i == CHOOSE j \in Hot(a) : TRUE
  <2>1. i \in hot
    BY <1>2 DEF Hot
  <2>2. Used(a) = MovedToEnd(i, hot)
    BY <1>2 DEF Used
  <2> HIDE DEF i
  <2> QED  BY <2>1, <2>2, MovedOrdered
<1> QED  BY <1>1, <1>2

\* An agent has one hot instance, and they are in order, after every step.
LEMMA NextTable ==
  ASSUME RuntimeAssumption, IInv, [RuntimeNext]_vars
  PROVE  /\ \A i, j \in hot' : agentOf[i] = agentOf[j] => i = j
         /\ HotIsOrdered' /\ (hot \subseteq Turn)' /\ (older \subseteq hot \X hot)'
<1> DEFINE Good == /\ \A i, j \in hot' : agentOf[i] = agentOf[j] => i = j
                   /\ Ordered(hot', older')
                   /\ hot' \subseteq Turn /\ older' \subseteq hot' \X hot'
<1> SUFFICES Good
  BY Zenon DEF HotIsOrdered, Ordered
<1>1. /\ \A i, j \in hot : agentOf[i] = agentOf[j] => i = j
      /\ HotIsOrdered /\ hot \subseteq Turn /\ older \subseteq hot \X hot
  BY DEF IInv, HotIsBounded, RuntimeTypeOK
<1>2. CASE UNCHANGED <<hot, older>>
  <2>1. Ordered(hot, older)
    BY <1>1, Zenon DEF Ordered, HotIsOrdered
  <2> QED  BY <1>1, <1>2, <2>1
<1>3. ASSUME NEW a, UNCHANGED hot, older' = Used(a) PROVE Good
  BY <1>1, <1>3, UsedOrdered
<1>4. ASSUME hot' \subseteq hot, older' = Among(hot') PROVE Good
  BY <1>1, <1>4, AmongOrdered
<1>5. ASSUME NEW t \in Turn, get_or_create_agent(t) PROVE Good
  <2>0. PICK mine \in Turn, out \in SUBSET Turn : Creates(t, mine, out)
    BY <1>5, CreateFacts
  <2>1. /\ agentOf[mine] = agentOf[t]
        /\ IF mine = t THEN Hot(agentOf[t]) = {} ELSE mine \in hot
        /\ hot' = (hot \union {mine}) \ out
        /\ older' = MovedToEnd(mine, hot \union {mine}) \intersect (hot' \X hot')
    BY <2>0, Zenon DEF Creates
  <2> DEFINE all == hot \union {mine}
             R == MovedToEnd(mine, all)
  <2>2. Ordered(all, R)
    BY <1>1, MovedOrdered
  <2>3. \A i, j \in all : agentOf[i] = agentOf[j] => i = j
    BY <1>1, <2>1 DEF Hot
  <2>4. hot' \subseteq all /\ all \subseteq Turn /\ older' = R \intersect (hot' \X hot')
    BY <1>1, <2>1
  <2> HIDE DEF all, R
  <2>5. Ordered(hot', older')
    BY <2>2, <2>4, Zenon DEF Ordered
  <2> QED  BY <2>1, <2>3, <2>4, <2>5
<1>6. CASE shutdown
  <2>1. hot' = {} /\ older' = {}
    BY <1>6 DEF shutdown
  <2> QED  BY <1>1, <2>1 DEF Ordered
<1> HIDE DEF Good
<1>7. ASSUME NEW t \in Turn, SubmitStep(t) \/ cancel_turn(t) PROVE Good
  BY <1>2, <1>5, <1>7 DEF SubmitStep, check, enqueue, cancel_turn
<1>8. ASSUME NEW t \in Turn, WorkerStep(t) PROVE Good
  BY <1>2, <1>3, <1>8 DEF WorkerStep, Get, acquire, execute, _complete_handle, _finish_turn,
     _cancel_shutdown_queue, Works
<1>9. ASSUME NEW t \in Turn, _sweep_once(t) \/ evict(t) PROVE Good
  BY <1>4, <1>9 DEF _sweep_once, evict
<1>10. CASE EvictorStep
  BY <1>2, <1>3, <1>10 DEF EvictorStep, Drain, Settle, Retire
<1>11. CASE kill_switch \/ CancelAll \/ StopWorkers
  BY <1>2, <1>11 DEF kill_switch, CancelAll, StopWorkers
<1>12. CASE UNCHANGED vars
  BY <1>2, <1>12 DEF vars
<1> QED  BY <1>6, <1>7, <1>8, <1>9, <1>10, <1>11, <1>12 DEF RuntimeNext

-----------------------------------------------------------------------------
(* Types                                                                   *)

Instances == [queue : Seq(Turn \union {NULL}), stop : BOOLEAN, pc : PCs,
              turn : Turn \union {NULL}, status : Outcomes \union {NULL}]

\* What one step makes of one instance; the others stay as they are.
Changed(i) == \A j \in Turn \ {i} : inst'[j] = inst[j]

\* _worker_loop: what each step of a worker does with its instance.
LEMMA GetFacts ==
  ASSUME RuntimeAssumption, RuntimeTypeOK, NEW i \in Turn, Get(i)
  PROVE  /\ inst[i].pc = "get" /\ inst[i].turn = NULL
         /\ inst' \in [Turn -> Instances] /\ Changed(i)
         /\ inst'[i].stop = inst[i].stop
         /\ UNCHANGED <<hot, older, cancelled, submit, evictor, manager, asks, traces, result>>
         /\ \/ /\ inst[i].queue = <<>> /\ Told(i)
               /\ inst'[i].queue = inst[i].queue /\ inst'[i].pc = "drain"
               /\ inst'[i].turn = NULL /\ inst'[i].status = inst[i].status
            \/ /\ inst[i].queue # <<>> /\ inst'[i].queue = Tail(inst[i].queue)
               /\ Head(inst[i].queue) = NULL /\ inst'[i].pc = "drain"
               /\ inst'[i].turn = NULL /\ inst'[i].status = inst[i].status
            \/ /\ inst[i].queue # <<>> /\ inst'[i].queue = Tail(inst[i].queue)
               /\ Head(inst[i].queue) # NULL /\ inst'[i].turn = Head(inst[i].queue)
               /\ \/ inst'[i].pc = "complete" /\ inst'[i].status = "cancelled"
                  \/ inst'[i].pc = "limiter" /\ inst'[i].status = inst[i].status
<1> DEFINE old == inst[i]
           q == old.queue
<1>1. /\ inst \in [Turn -> Instances] /\ old \in Instances /\ old.pc = "get" /\ old.turn = NULL
      /\ UNCHANGED <<hot, older, cancelled, submit, evictor, manager, asks, traces, result>>
      /\ q \in Seq(Turn \union {NULL}) /\ NULL \notin cancelled
  BY DEF RuntimeAssumption, RuntimeTypeOK, Instances, Get, At, Works
<1>2. {"drain", "complete", "limiter"} \subseteq PCs /\ "cancelled" \in Outcomes
  BY DEF PCs, Outcomes
<1>3. CASE q = <<>> /\ Told(i) /\ inst' = [inst EXCEPT ![i].pc = "drain"]
  BY <1>1, <1>2, <1>3 DEF Changed, Instances
<1>4. ASSUME q # <<>>,
             inst' = [inst EXCEPT ![i] =
                CASE Head(q) = NULL -> [@ EXCEPT !.queue = Tail(q), !.pc = "drain"]
                  [] Head(q) \in cancelled ->
                       [@ EXCEPT !.queue = Tail(q), !.pc = "complete", !.turn = Head(q), !.status = "cancelled"]
                  [] OTHER -> [@ EXCEPT !.queue = Tail(q), !.pc = "limiter", !.turn = Head(q)]]
      PROVE  \E r \in Instances :
               /\ inst' = [inst EXCEPT ![i] = r] /\ r.stop = old.stop /\ r.queue = Tail(q)
               /\ \/ /\ Head(q) = NULL /\ r.pc = "drain"
                     /\ r.turn = NULL /\ r.status = old.status
                  \/ /\ Head(q) # NULL /\ r.turn = Head(q)
                     /\ \/ r.pc = "complete" /\ r.status = "cancelled"
                        \/ r.pc = "limiter" /\ r.status = old.status
  <2>1. Tail(q) \in Seq(Turn \union {NULL}) /\ Head(q) \in Turn \union {NULL}
    BY <1>1, <1>4
  <2> HIDE DEF q
  <2>2. CASE Head(q) = NULL
    <3> DEFINE r == [old EXCEPT !.queue = Tail(q), !.pc = "drain"]
    <3>1. inst' = [inst EXCEPT ![i] = r]
      BY <1>1, <1>4, <2>2, Zenon
    <3>2. /\ r \in Instances /\ r.stop = old.stop /\ r.queue = Tail(q) /\ r.pc = "drain"
          /\ r.turn = NULL /\ r.status = old.status
      BY <1>1, <1>2, <2>1, Zenon DEF Instances
    <3> HIDE DEF r
    <3> QED  BY <2>2, <3>1, <3>2, Zenon
  <2>3. CASE Head(q) # NULL /\ Head(q) \in cancelled
    <3> DEFINE r == [old EXCEPT !.queue = Tail(q), !.pc = "complete", !.turn = Head(q),
                                !.status = "cancelled"]
    <3>1. inst' = [inst EXCEPT ![i] = r]
      BY <1>4, <2>3
    <3>2. /\ r \in Instances /\ r.stop = old.stop /\ r.queue = Tail(q) /\ r.pc = "complete"
          /\ r.turn = Head(q) /\ r.status = "cancelled"
      BY <1>1, <1>2, <2>1, Zenon DEF Instances
    <3> HIDE DEF r
    <3> QED  BY <2>3, <3>1, <3>2, Zenon
  <2>4. CASE Head(q) # NULL /\ Head(q) \notin cancelled
    <3> DEFINE r == [old EXCEPT !.queue = Tail(q), !.pc = "limiter", !.turn = Head(q)]
    <3>1. inst' = [inst EXCEPT ![i] = r]
      BY <1>4, <2>4, Zenon
    <3>2. /\ r \in Instances /\ r.stop = old.stop /\ r.queue = Tail(q) /\ r.pc = "limiter"
          /\ r.turn = Head(q) /\ r.status = old.status
      BY <1>1, <1>2, <2>1, Zenon DEF Instances
    <3> HIDE DEF r
    <3> QED  BY <2>4, <3>1, <3>2, Zenon
  <2> QED  BY <2>2, <2>3, <2>4
<1>5. CASE q # <<>> /\ \E r \in Instances :
               /\ inst' = [inst EXCEPT ![i] = r] /\ r.stop = old.stop /\ r.queue = Tail(q)
               /\ \/ /\ Head(q) = NULL /\ r.pc = "drain"
                     /\ r.turn = NULL /\ r.status = old.status
                  \/ /\ Head(q) # NULL /\ r.turn = Head(q)
                     /\ \/ r.pc = "complete" /\ r.status = "cancelled"
                        \/ r.pc = "limiter" /\ r.status = old.status
  BY <1>1, <1>5 DEF Changed
<1> QED  BY <1>3, <1>4, <1>5 DEF Get

\* From the limiter to the end of the turn the worker changes what it does and the
\* status, not its queue.
LEMMA WorkFacts ==
  ASSUME RuntimeAssumption, RuntimeTypeOK, NEW i \in Turn,
         acquire(i) \/ execute(i) \/ _complete_handle(i)
  PROVE  /\ inst' \in [Turn -> Instances] /\ Changed(i)
         /\ inst'[i].stop = inst[i].stop /\ inst'[i].queue = inst[i].queue
         /\ inst'[i].turn = inst[i].turn
         /\ \/ inst[i].pc = "limiter" /\ inst'[i].pc = "complete" /\ inst'[i].status = "cancelled"
            \/ inst[i].pc = "limiter" /\ inst'[i].pc = "run" /\ inst'[i].status = inst[i].status
            \/ inst[i].pc = "run" /\ inst'[i].pc = "complete" /\ inst'[i].status = "executed"
            \/ inst[i].pc = "complete" /\ inst'[i].pc = "finish" /\ inst'[i].status = inst[i].status
<1>1. inst \in [Turn -> Instances] /\ inst[i] \in Instances
  BY DEF RuntimeTypeOK, Instances
<1>2. {"run", "complete", "finish"} \subseteq PCs /\ {"executed", "cancelled"} \subseteq Outcomes
  BY DEF PCs, Outcomes
<1>3. CASE acquire(i)
  <2>1. inst[i].pc = "limiter"
    BY <1>3 DEF acquire, At
  <2>2. CASE inst' = [inst EXCEPT ![i].pc = "complete", ![i].status = "cancelled"]
    BY <1>1, <1>2, <2>1, <2>2, Zenon DEF Changed, Instances
  <2>3. CASE inst' = [inst EXCEPT ![i].pc = "run"]
    BY <1>1, <1>2, <2>1, <2>3, Zenon DEF Changed, Instances
  <2> QED  BY <1>3, <2>2, <2>3 DEF acquire, Ends
<1>4. CASE execute(i)
  BY <1>1, <1>2, <1>4, Zenon DEF execute, At, Ends, Changed, Instances
<1>5. CASE _complete_handle(i)
  BY <1>1, <1>2, <1>5, Zenon DEF _complete_handle, At, Changed, Instances
<1> QED  BY <1>3, <1>4, <1>5

\* _finish_turn: the worker puts its turn down.
LEMMA FinishFacts ==
  ASSUME RuntimeAssumption, RuntimeTypeOK, NEW i \in Turn, _finish_turn(i)
  PROVE  /\ inst' \in [Turn -> Instances] /\ Changed(i)
         /\ inst[i].pc = "finish" /\ inst'[i].pc = IF Told(i) THEN "drain" ELSE "get"
         /\ inst'[i].stop = inst[i].stop /\ inst'[i].queue = inst[i].queue
         /\ inst'[i].turn = NULL /\ inst'[i].status = NULL
<1>1. inst \in [Turn -> Instances] /\ inst[i] \in Instances
  BY DEF RuntimeTypeOK, Instances
<1>2. {"get", "drain"} \subseteq PCs
  BY DEF PCs
<1> DEFINE p == IF Told(i) THEN "drain" ELSE "get"
<1>3. p \in PCs
  BY <1>2
<1>4. inst' = [inst EXCEPT ![i].pc = p, ![i].turn = NULL, ![i].status = NULL] /\ inst[i].pc = "finish"
  BY DEF _finish_turn, At
<1> HIDE DEF p
<1>5. /\ inst' \in [Turn -> Instances] /\ Changed(i)
      /\ inst'[i].pc = p /\ inst'[i].stop = inst[i].stop /\ inst'[i].queue = inst[i].queue
      /\ inst'[i].turn = NULL /\ inst'[i].status = NULL
  BY <1>1, <1>3, <1>4, Zenon DEF Changed, Instances
<1> QED  BY <1>4, <1>5 DEF p

\* _cancel_shutdown_queue: a stopped worker takes what is left, and dies.
LEMMA LeftoverFacts ==
  ASSUME RuntimeAssumption, RuntimeTypeOK, NEW i \in Turn, _cancel_shutdown_queue(i)
  PROVE  /\ inst[i].pc = "drain" /\ inst[i].turn = NULL
         /\ inst' \in [Turn -> Instances] /\ Changed(i)
         /\ inst'[i].stop = inst[i].stop
         /\ \/ /\ inst[i].queue = <<>> /\ inst'[i].queue = <<>> /\ inst'[i].pc = "dead"
               /\ inst'[i].turn = NULL /\ inst'[i].status = inst[i].status
            \/ /\ inst[i].queue # <<>> /\ inst'[i].queue = Tail(inst[i].queue)
               /\ Head(inst[i].queue) = NULL /\ inst'[i].pc = "drain"
               /\ inst'[i].turn = NULL /\ inst'[i].status = inst[i].status
            \/ /\ inst[i].queue # <<>> /\ inst'[i].queue = Tail(inst[i].queue)
               /\ Head(inst[i].queue) # NULL /\ inst'[i].turn = Head(inst[i].queue)
               /\ inst'[i].pc = "complete" /\ inst'[i].status = "cancelled"
<1> DEFINE old == inst[i]
           q == old.queue
<1>1. /\ inst \in [Turn -> Instances] /\ old \in Instances /\ old.pc = "drain" /\ old.turn = NULL
      /\ q \in Seq(Turn \union {NULL})
  BY DEF RuntimeTypeOK, Instances, _cancel_shutdown_queue, At
<1>2. {"dead", "complete"} \subseteq PCs /\ "cancelled" \in Outcomes
  BY DEF PCs, Outcomes
<1>3. CASE q = <<>>
  <2>1. inst' = [inst EXCEPT ![i] = [inst[i] EXCEPT !.pc = "dead"]]
    BY <1>3 DEF _cancel_shutdown_queue
  <2> QED  BY <1>1, <1>2, <1>3, <2>1 DEF Changed, Instances
<1>4. CASE q # <<>>
  <2>1. Tail(q) \in Seq(Turn \union {NULL}) /\ Head(q) \in Turn \union {NULL}
    BY <1>1, <1>4
  <2> DEFINE picked == [old EXCEPT !.pc = "complete", !.status = "cancelled", !.queue = Tail(q),
                                  !.turn = Head(q)]
             skipped == [old EXCEPT !.queue = Tail(q)]
  <2>4. inst' = [inst EXCEPT ![i] = IF q = <<>> THEN [old EXCEPT !.pc = "dead"]
                                   ELSE IF Head(q) = NULL THEN skipped ELSE picked]
    BY DEF _cancel_shutdown_queue
  <2> HIDE DEF picked, skipped
  <2>2. CASE Head(q) = NULL
    <3>1. inst' = [inst EXCEPT ![i] = [inst[i] EXCEPT !.queue = Tail(q)]]
      BY <1>4, <2>2, <2>4 DEF skipped
    <3> HIDE DEF q
    <3>2. /\ inst' \in [Turn -> Instances] /\ Changed(i)
          /\ inst'[i].stop = inst[i].stop /\ inst'[i].queue = Tail(q) /\ inst'[i].pc = "drain"
          /\ inst'[i].turn = NULL /\ inst'[i].status = inst[i].status
      BY <1>1, <2>1, <3>1, Zenon DEF Changed, Instances
    <3> QED  BY <1>1, <1>4, <2>2, <3>2 DEF q
  <2>3. CASE Head(q) # NULL
    <3>1. inst' = [inst EXCEPT ![i] = [inst[i] EXCEPT !.pc = "complete", !.status = "cancelled",
                                                      !.queue = Tail(q), !.turn = Head(q)]]
      BY <1>4, <2>3, <2>4 DEF picked
    <3> HIDE DEF q
    <3>2. /\ inst' \in [Turn -> Instances] /\ Changed(i)
          /\ inst'[i].stop = inst[i].stop /\ inst'[i].queue = Tail(q) /\ inst'[i].pc = "complete"
          /\ inst'[i].turn = Head(q) /\ inst'[i].status = "cancelled"
      BY <1>1, <1>2, <2>1, <3>1, Zenon DEF Changed, Instances
    <3> QED  BY <1>1, <1>4, <2>3, <3>2 DEF q
  <2> QED  BY <2>2, <2>3
<1> QED  BY <1>3, <1>4

\* An eviction tells a worker to stop and wakes it; its turn and the turns in its
\* queue stay.
LEMMA StoppedFacts ==
  ASSUME NEW r \in Instances
  PROVE  /\ Stopped(r) \in Instances /\ Stopped(r).queue = Append(r.queue, NULL)
         /\ Stopped(r).pc = r.pc /\ Stopped(r).turn = r.turn /\ Stopped(r).status = r.status
         /\ Elems(Stopped(r).queue) = Elems(r.queue)
         /\ Distinct(r.queue) => Distinct(Stopped(r).queue)
<1>1. r.queue \in Seq(Turn \union {NULL})
  BY DEF Instances
<1>2. /\ Append(r.queue, NULL) \in Seq(Turn \union {NULL})
      /\ Elems(Append(r.queue, NULL)) = Elems(r.queue)
      /\ Distinct(r.queue) => Distinct(Append(r.queue, NULL))
  <2>1. NULL \notin Elems(r.queue)
    BY DEF Elems
  <2>2. /\ Append(r.queue, NULL) \in Seq(Turn \union {NULL})
        /\ Elems(Append(r.queue, NULL)) = Elems(r.queue) \union ({NULL} \ {NULL})
        /\ Distinct(r.queue) /\ NULL \notin Elems(r.queue) => Distinct(Append(r.queue, NULL))
    <3> DEFINE S == Turn \union {NULL}
    <3>1. NULL \in S /\ r.queue \in Seq(S)
      BY <1>1
    <3> HIDE DEF S
    <3>2. /\ Append(r.queue, NULL) \in Seq(S)
          /\ Elems(Append(r.queue, NULL)) = Elems(r.queue) \union ({NULL} \ {NULL})
          /\ Distinct(r.queue) /\ NULL \notin Elems(r.queue) => Distinct(Append(r.queue, NULL))
      BY <3>1, Put
    <3> QED  BY <3>2 DEF S
  <2> QED  BY <2>1, <2>2
<1>3. /\ Stopped(r) \in Instances /\ Stopped(r).queue = Append(r.queue, NULL)
      /\ Stopped(r).pc = r.pc /\ Stopped(r).turn = r.turn /\ Stopped(r).status = r.status
  BY <1>2, Zenon DEF Stopped, Instances
<1> QED  BY <1>2, <1>3, Zenon

\* The steps that create and stop instances leave every turn where it is.
SamePlace(i) ==
  /\ inst'[i] \in Instances
  /\ Elems(inst'[i].queue) = Elems(inst[i].queue)
  /\ Distinct(inst[i].queue) => Distinct(inst'[i].queue)
  /\ inst'[i].turn = inst[i].turn /\ inst'[i].status = inst[i].status
  /\ inst'[i].pc = inst[i].pc \/ (inst[i].pc = "none" /\ inst'[i].pc = "get")

\* An instance that is left alone, or stopped, keeps its turns.
LEMMA StoppedSame ==
  ASSUME NEW i \in Turn, inst[i] \in Instances, inst'[i] = inst[i] \/ inst'[i] = Stopped(inst[i])
  PROVE  SamePlace(i)
<1>1. CASE inst'[i] = inst[i]
  BY <1>1 DEF SamePlace
<1>2. CASE inst'[i] = Stopped(inst[i])
  <2> DEFINE r == inst[i]
  <2>1. /\ Stopped(r) \in Instances /\ Stopped(r).pc = r.pc /\ Stopped(r).turn = r.turn
        /\ Stopped(r).status = r.status /\ Elems(Stopped(r).queue) = Elems(r.queue)
        /\ Distinct(r.queue) => Distinct(Stopped(r).queue)
    BY StoppedFacts
  <2> QED  BY <1>2, <2>1 DEF SamePlace
<1> QED  BY <1>1, <1>2

\* get_or_create_agent: no turn moves, and the instances that stay in the table are
\* as they were or new.
LEMMA CreateSame ==
  ASSUME RuntimeAssumption, IInv, NEW t \in Turn, get_or_create_agent(t)
  PROVE  /\ inst' \in [Turn -> Instances]
         /\ \A i \in Turn : /\ SamePlace(i)
                            /\ i \in hot' => i \in hot \union {t}
                            /\ i \in hot' => inst'[i] = IF i = t THEN Born ELSE inst[i]
                            /\ i # t /\ inst[i] = Unborn /\ i \notin hot => inst'[i] = Unborn
<1>0. PICK mine \in Turn, out \in SUBSET Turn : Creates(t, mine, out)
  BY CreateFacts
<1>1. /\ IF mine = t THEN Hot(agentOf[t]) = {} ELSE mine \in hot
      /\ \A i \in out : i \in hot \union {mine} /\ Idle(i)
      /\ hot' = (hot \union {mine}) \ out
  BY <1>0, Zenon DEF Creates
<1> DEFINE born == IF mine = t THEN [inst EXCEPT ![t] = Born] ELSE inst
<1>2. inst \in [Turn -> Instances] /\ inst[t] = Unborn /\ t \notin hot /\ submit[t] = "checked"
  BY DEF IInv, RuntimeTypeOK, Instances, NotYetCreated, get_or_create_agent
<1>3. Born \in Instances
  BY EmptyQueue, FreshTypes DEF Instances, PCs
<1>4. born \in [Turn -> Instances] /\ \A i \in Turn : born[i] = inst[i] \/ (i = t /\ born[i] = Born)
  BY <1>2, <1>3
<1>5. mine # t => born = inst
  OBVIOUS
<1>6. inst' = [i \in Turn |-> IF i \in out THEN Stopped(born[i]) ELSE born[i]]
  BY <1>0, Zenon DEF Creates
<1>7. mine = t => born[t] = Born
  BY <1>2
<1> HIDE DEF born
<1>8. ASSUME NEW i \in Turn PROVE SamePlace(i)
  <2>1. inst'[i] = born[i] \/ inst'[i] = Stopped(born[i])
    BY <1>6
  <2>2. CASE born[i] = inst[i]
    BY <1>2, <2>1, <2>2, StoppedSame
  <2>3. CASE i = t /\ born[i] = Born
    <3>1. /\ Stopped(Born) \in Instances /\ Stopped(Born).pc = "get" /\ Stopped(Born).turn = NULL
          /\ Stopped(Born).status = NULL /\ Elems(Stopped(Born).queue) = {}
          /\ Distinct(Stopped(Born).queue)
      <4>1. /\ Elems(Born.queue) = {} /\ Distinct(Born.queue)
            /\ Born.pc = "get" /\ Born.turn = NULL /\ Born.status = NULL
        BY EmptyQueue, FreshTypes
      <4>2. /\ Stopped(Born) \in Instances /\ Stopped(Born).pc = Born.pc
            /\ Stopped(Born).turn = Born.turn
            /\ Stopped(Born).status = Born.status /\ Elems(Stopped(Born).queue) = Elems(Born.queue)
            /\ Distinct(Born.queue) => Distinct(Stopped(Born).queue)
        BY <1>3, StoppedFacts
      <4> QED  BY <4>1, <4>2
    <3>2. /\ Elems(Born.queue) = {} /\ Distinct(Born.queue)
          /\ Born.pc = "get" /\ Born.turn = NULL /\ Born.status = NULL
      BY EmptyQueue, FreshTypes
    <3>3. /\ Elems(inst[i].queue) = {}
          /\ inst[i].pc = "none" /\ inst[i].turn = NULL /\ inst[i].status = NULL
      BY <1>2, <2>3, EmptyQueue, FreshTypes
    <3>4. inst'[i] = Born \/ inst'[i] = Stopped(Born)
      BY <2>1, <2>3
    <3> QED  BY <1>3, <3>1, <3>2, <3>3, <3>4 DEF SamePlace
  <2> QED  BY <1>4, <2>2, <2>3
<1>9. inst' \in [Turn -> Instances]
  <2>1. \A i \in Turn : inst'[i] \in Instances
    BY <1>8 DEF SamePlace
  <2> QED  BY <1>6, <2>1
<1>10. ASSUME NEW i \in Turn, i \in hot'
       PROVE  i \in hot \union {t} /\ inst'[i] = IF i = t THEN Born ELSE inst[i]
  <2>1. i \notin out /\ inst'[i] = born[i] /\ i \in hot \union {mine}
    BY <1>1, <1>6, <1>10
  <2> QED  BY <1>1, <1>2, <1>4, <1>7, <2>1
<1>11. ASSUME NEW i \in Turn, i # t, inst[i] = Unborn, i \notin hot PROVE inst'[i] = Unborn
  <2> SUFFICES i \notin out
    BY <1>4, <1>6, <1>11
  <2> QED  BY <1>1, <1>11
<1> QED  BY <1>8, <1>9, <1>10, <1>11

\* Steps that change one queue, and nothing else of any instance.
Requeued(i, q) ==
  /\ inst' \in [Turn -> Instances] /\ Changed(i)
  /\ inst'[i].queue = q /\ inst'[i].stop = inst[i].stop /\ inst'[i].pc = inst[i].pc
  /\ inst'[i].turn = inst[i].turn /\ inst'[i].status = inst[i].status

\* The queue of an instance is replaced by another.
LEMMA RequeueFacts ==
  ASSUME RuntimeTypeOK, NEW i \in Turn, NEW q \in Seq(Turn \union {NULL}),
         inst' = [inst EXCEPT ![i].queue = q]
  PROVE  Requeued(i, q)
<1>1. inst \in [Turn -> Instances]
  BY DEF RuntimeTypeOK, Instances
<1> QED  BY <1>1 DEF Requeued, Changed, Instances

\* submit_turn: the turn is put into the queue of its agent's hot instance, or lost
\* if there is none.
LEMMA EnqueueFacts ==
  ASSUME RuntimeAssumption, RuntimeTypeOK, NEW t \in Turn, enqueue(t)
  PROVE  /\ submit[t] = "created" /\ traces' = traces \union {t}
         /\ \/ submit' = [submit EXCEPT ![t] = "lost"] /\ UNCHANGED inst
            \/ /\ \/ submit' = [submit EXCEPT ![t] = "late"]
                  \/ submit' = [submit EXCEPT ![t] = "returned"]
               /\ \E i \in hot : Requeued(i, Append(inst[i].queue, t))
<1>1. submit[t] = "created" /\ traces' = traces \union {t} /\ hot \subseteq Turn
  BY DEF enqueue, RuntimeTypeOK
<1>2. CASE Hot(agentOf[t]) = {}
  BY <1>1, <1>2 DEF enqueue
<1>3. CASE Hot(agentOf[t]) # {}
  <2> DEFINE i == CHOOSE j \in Hot(agentOf[t]) : TRUE
  <2>1. i \in hot
    BY <1>3 DEF Hot
  <2>2. /\ inst' = [inst EXCEPT ![i].queue = Append(inst[i].queue, t)]
        /\ submit' = [submit EXCEPT ![t] = IF stopping THEN "late" ELSE "returned"]
    BY <1>3 DEF enqueue
  <2> HIDE DEF i
  <2>3. Append(inst[i].queue, t) \in Seq(Turn \union {NULL})
    <3>1. inst[i].queue \in Seq(Turn \union {NULL})
      BY <1>1, <2>1 DEF RuntimeTypeOK
    <3> QED  BY <3>1
  <2>4. Requeued(i, Append(inst[i].queue, t))
    BY <1>1, <2>1, <2>2, <2>3, RequeueFacts, Zenon
  <2> QED  BY <1>1, <2>1, <2>2, <2>4, Zenon
<1> QED  BY <1>2, <1>3

\* An eviction takes the queue's first item, and keeps it if it is a turn.
LEMMA DrainFacts ==
  ASSUME RuntimeAssumption, IInv, Drain
  PROVE  /\ evictor.pc = "drain" /\ evictor.inst \in Turn
         /\ evictor'.inst = evictor.inst
         /\ LET i == evictor.inst
                q == inst[i].queue
            IN \/ /\ q = <<>> /\ UNCHANGED inst
                  /\ evictor' = [evictor EXCEPT !.pc = "settle"]
               \/ /\ q # <<>> /\ Head(q) = NULL /\ Requeued(i, Tail(q)) /\ evictor' = evictor
               \/ /\ q # <<>> /\ Head(q) # NULL /\ Requeued(i, Tail(q)) /\ Head(q) \in Turn
                  /\ evictor' = [evictor EXCEPT !.held = Append(evictor.held, Head(q))]
<1> DEFINE i == evictor.inst
           q == inst[i].queue
<1>1. /\ evictor.pc = "drain" /\ evictor.inst \in Turn
      /\ evictor \in [pc : {"rest", "drain", "settle", "retire"}, inst : Turn \union {NULL},
                      held : Seq(Turn)]
      /\ RuntimeTypeOK
  BY DEF Drain, IInv, EvictorOK, RuntimeTypeOK
<1>2. CASE q = <<>>
  <2>1. UNCHANGED inst /\ evictor' = [evictor EXCEPT !.pc = "settle"]
    BY <1>2 DEF Drain
  <2> QED  BY <1>1, <1>2, <2>1
<1>3. CASE q # <<>>
  <2>1. q \in Seq(Turn \union {NULL})
    BY <1>1 DEF RuntimeTypeOK
  <2>2. /\ inst' = [inst EXCEPT ![i].queue = Tail(q)]
        /\ evictor' = IF Head(q) = NULL THEN evictor
                      ELSE [evictor EXCEPT !.held = Append(evictor.held, Head(q))]
    BY <1>3 DEF Drain
  <2>3. Tail(q) \in Seq(Turn \union {NULL}) /\ Head(q) \in Turn \union {NULL}
    BY <1>3, <2>1
  <2>4. Requeued(i, Tail(q))
    BY <1>1, <2>2, <2>3, RequeueFacts, Zenon
  <2> HIDE DEF q
  <2>5. evictor'.inst = evictor.inst
    BY <1>1, <2>2
  <2> QED  BY <1>1, <1>3, <2>2, <2>3, <2>4, <2>5 DEF q
<1> QED  BY <1>2, <1>3

\* The other steps that stop instances leave every turn where it is.
LEMMA StopSame ==
  ASSUME RuntimeAssumption, IInv,
         \/ \E i \in Turn : _sweep_once(i)
         \/ Settle /\ evictor.held = <<>>
         \/ StopWorkers
  PROVE  /\ inst' \in [Turn -> Instances]
         /\ \A i \in Turn :
              /\ SamePlace(i)
              /\ \/ inst'[i] = inst[i]
                 \/ /\ inst'[i] = Stopped(inst[i])
                    /\ \/ _sweep_once(i)
                       \/ Settle /\ i = evictor.inst
                       \/ StopWorkers /\ i \in stopper.insts
<1>1. inst \in [Turn -> Instances] /\ evictor.inst \in Turn \union {NULL}
  BY DEF IInv, RuntimeTypeOK, Instances
<1>2. /\ DOMAIN inst' = Turn /\ inst' = [i \in Turn |-> inst'[i]]
      /\ \A i \in Turn : \/ inst'[i] = inst[i]
                         \/ /\ inst'[i] = Stopped(inst[i])
                            /\ \/ _sweep_once(i)
                               \/ Settle /\ i = evictor.inst
                               \/ StopWorkers /\ i \in stopper.insts
  <2>1. ASSUME NEW k \in Turn, _sweep_once(k)
        PROVE  inst' = [inst EXCEPT ![k] = Stopped(inst[k])]
    BY <2>1 DEF _sweep_once
  <2>2. CASE \E k \in Turn : _sweep_once(k)
    BY <1>1, <2>1, <2>2
  <2>3. CASE Settle /\ evictor.held = <<>>
    <3>1. inst' = [inst EXCEPT ![evictor.inst] = Stopped(inst[evictor.inst])]
      BY <2>3 DEF Settle
    <3> QED  BY <1>1, <2>3, <3>1, Zenon
  <2>4. CASE StopWorkers
    <3>1. inst' = [i \in Turn |-> IF i \in stopper.insts THEN Stopped(inst[i]) ELSE inst[i]]
      BY <2>4 DEF StopWorkers
    <3> QED  BY <1>1, <2>4, <3>1
  <2> QED  BY <2>2, <2>3, <2>4
<1>3. \A i \in Turn : SamePlace(i)
  BY <1>1, <1>2, StoppedSame
<1>4. \A i \in Turn : inst'[i] \in Instances
  BY <1>3 DEF SamePlace
<1> QED  BY <1>2, <1>3, <1>4

Carries(r) == (r.turn = NULL) = (r.pc \in {"none", "get", "drain", "dead"})

\* Instances stay instances, and carry a turn from the limiter to its end.
LEMMA NextInstances ==
  ASSUME RuntimeAssumption, IInv, [RuntimeNext]_vars
  PROVE  inst' \in [Turn -> Instances] /\ \A i \in Turn : Carries(inst'[i])
<1> DEFINE Good == inst' \in [Turn -> Instances] /\ \A i \in Turn : Carries(inst'[i])
<1> SUFFICES Good
  OBVIOUS
<1>1. /\ RuntimeTypeOK /\ inst \in [Turn -> Instances] /\ \A i \in Turn : Carries(inst[i])
      /\ hot \subseteq Turn /\ NULL \notin Turn
  BY DEF IInv, RuntimeTypeOK, Instances, Carries, RuntimeAssumption
<1>2. CASE UNCHANGED inst
  BY <1>1, <1>2
<1>3. ASSUME inst' \in [Turn -> Instances], NEW i \in Turn, Changed(i), Carries(inst'[i]) PROVE Good
  BY <1>1, <1>3 DEF Changed
<1>4. ASSUME inst' \in [Turn -> Instances], \A i \in Turn : SamePlace(i) PROVE Good
  BY <1>1, <1>4 DEF SamePlace, Carries
<1>5. ASSUME NEW i \in Turn, NEW q, Requeued(i, q) PROVE Good
  BY <1>1, <1>3, <1>5 DEF Requeued, Carries
<1> HIDE DEF Good
<1>6. ASSUME NEW t \in Turn, SubmitStep(t) \/ cancel_turn(t) PROVE Good
  <2>1. CASE enqueue(t)
    BY <1>1, <1>2, <1>5, <2>1, EnqueueFacts
  <2>2. CASE get_or_create_agent(t)
    BY <1>4, <2>2, CreateSame
  <2> QED  BY <1>2, <1>6, <2>1, <2>2 DEF SubmitStep, check, cancel_turn
<1>7. ASSUME NEW i \in Turn, WorkerStep(i) PROVE Good
  <2>1. CASE Get(i)
    <3>1. inst' \in [Turn -> Instances] /\ Changed(i) /\ Carries(inst'[i])
      BY <1>1, <2>1, GetFacts DEF Carries
    <3> QED  BY <1>3, <3>1
  <2>2. CASE acquire(i) \/ execute(i) \/ _complete_handle(i)
    <3>1. inst' \in [Turn -> Instances] /\ Changed(i) /\ Carries(inst'[i])
      BY <1>1, <2>2, WorkFacts DEF Carries
    <3> QED  BY <1>3, <3>1
  <2>3. CASE _finish_turn(i)
    <3>1. inst' \in [Turn -> Instances] /\ Changed(i) /\ Carries(inst'[i])
      BY <1>1, <2>3, FinishFacts DEF Carries
    <3> QED  BY <1>3, <3>1
  <2>4. CASE _cancel_shutdown_queue(i)
    <3>1. inst' \in [Turn -> Instances] /\ Changed(i) /\ Carries(inst'[i])
      BY <1>1, <2>4, LeftoverFacts DEF Carries
    <3> QED  BY <1>3, <3>1
  <2> QED  BY <1>7, <2>1, <2>2, <2>3, <2>4 DEF WorkerStep
<1>8. ASSUME NEW i \in Turn, _sweep_once(i) \/ evict(i) PROVE Good
  <2>1. CASE _sweep_once(i)
    BY <1>4, <2>1, StopSame
  <2> QED  BY <1>2, <1>8, <2>1 DEF evict
<1>9. CASE EvictorStep
  <2>1. CASE Drain
    <3>1. CASE UNCHANGED inst  BY <1>2, <3>1
    <3>2. CASE Requeued(evictor.inst, Tail(inst[evictor.inst].queue))
      BY <1>5, <2>1, <3>2, DrainFacts
    <3> QED  BY <2>1, <3>1, <3>2, DrainFacts
  <2>2. CASE Settle
    <3>1. CASE evictor.held = <<>>
      BY <1>4, <2>2, <3>1, StopSame
    <3>2. CASE evictor.held # <<>>
      BY <1>2, <2>2, <3>2 DEF Settle
    <3> QED  BY <3>1, <3>2
  <2> QED  BY <1>2, <1>9, <2>1, <2>2 DEF EvictorStep, Retire
<1>10. CASE StopWorkers
  BY <1>4, <1>10, StopSame
<1>11. CASE kill_switch \/ CancelAll \/ shutdown
  BY <1>2, <1>11 DEF kill_switch, CancelAll, shutdown
<1>12. CASE UNCHANGED vars
  BY <1>2, <1>12 DEF vars
<1> QED  BY <1>6, <1>7, <1>8, <1>9, <1>10, <1>11, <1>12 DEF RuntimeNext

\* Only an eviction moves the evictor, and only the end of the manager changes what it
\* is about to do.
LEMMA Frames ==
  ASSUME [RuntimeNext]_vars
  PROVE  /\ (\E i \in Turn : evict(i)) \/ EvictorStep \/ UNCHANGED evictor
         /\ kill_switch \/ CancelAll \/ shutdown \/ StopWorkers \/ UNCHANGED manager
<1>1. ASSUME NEW t \in Turn, SubmitStep(t) PROVE UNCHANGED <<evictor, manager>>
  <2>1. CASE get_or_create_agent(t)
    BY <2>1 DEF get_or_create_agent
  <2> QED  BY <1>1, <2>1 DEF SubmitStep, check, enqueue
<1>2. ASSUME NEW t \in Turn, cancel_turn(t) \/ _sweep_once(t) PROVE UNCHANGED <<evictor, manager>>
  BY <1>2 DEF cancel_turn, _sweep_once
<1>3. ASSUME NEW t \in Turn, WorkerStep(t) PROVE UNCHANGED <<evictor, manager>>
  BY <1>3 DEF WorkerStep, Get, acquire, execute, _complete_handle, _finish_turn,
     _cancel_shutdown_queue, Works
<1>4. ASSUME NEW t \in Turn, evict(t) PROVE UNCHANGED manager
  BY <1>4 DEF evict
<1>5. EvictorStep => UNCHANGED manager
  BY DEF EvictorStep, Drain, Settle, Retire
<1>6. kill_switch \/ CancelAll \/ shutdown \/ StopWorkers => UNCHANGED evictor
  BY DEF kill_switch, CancelAll, shutdown, StopWorkers
<1>7. UNCHANGED vars => UNCHANGED <<evictor, manager>>
  BY DEF vars, manager
<1> QED  BY <1>1, <1>2, <1>3, <1>4, <1>5, <1>6, <1>7 DEF RuntimeNext

\* The rest of the manager's state keeps its type.
LEMMA NextType ==
  ASSUME RuntimeAssumption, IInv, [RuntimeNext]_vars
  PROVE  RuntimeTypeOK'
<1>1. /\ traces \subseteq Turn /\ cancelled \subseteq Turn
      /\ result \in [Turn -> Outcomes \union {NULL}]
      /\ submit \in [Turn -> {"new", "checked", "created", "returned", "late", "lost", "refused"}]
      /\ evictor \in [pc : {"rest", "drain", "settle", "retire"}, inst : Turn \union {NULL},
                      held : Seq(Turn)]
      /\ accepting \in BOOLEAN /\ stopping \in BOOLEAN /\ closed \in BOOLEAN
      /\ asks \in 0..MaxAsk /\ MaxAsk \in Nat
      /\ stopper \in [pc : {"up", "killing", "killed", "down", "over"}, traces : SUBSET Turn,
                      insts : SUBSET Turn]
      /\ hot \subseteq Turn /\ inst \in [Turn -> Instances]
      /\ evictor.pc = "retire" => evictor.held # <<>>
  BY DEF IInv, RuntimeTypeOK, RuntimeAssumption, EvictorOK, Instances
<1>2. asks' \in 0..MaxAsk
  <2>1. Asks \/ UNCHANGED asks
    BY Zenon DEF RuntimeNext, SubmitStep, check, get_or_create_agent, enqueue, cancel_turn, WorkerStep,
           Get, acquire, execute, _complete_handle, _finish_turn, _cancel_shutdown_queue, Works,
           _sweep_once, evict, EvictorStep, Drain, Settle, Retire, kill_switch, CancelAll, shutdown,
           StopWorkers, vars
  <2> QED  BY <1>1, <2>1 DEF Asks
<1>3. /\ submit' \in [Turn -> {"new", "checked", "created", "returned", "late", "lost", "refused"}]
      /\ traces' \subseteq Turn /\ cancelled' \subseteq Turn
      /\ result' \in [Turn -> Outcomes \union {NULL}]
  <2> DEFINE Good == /\ submit' \in [Turn -> {"new", "checked", "created", "returned", "late",
                                              "lost", "refused"}]
                     /\ traces' \subseteq Turn /\ cancelled' \subseteq Turn
                     /\ result' \in [Turn -> Outcomes \union {NULL}]
  <2> SUFFICES Good
    OBVIOUS
  <2>1. ASSUME NEW t \in Turn, SubmitStep(t) \/ cancel_turn(t) PROVE Good
    BY <1>1, <2>1 DEF SubmitStep, check, get_or_create_agent, enqueue, cancel_turn
  <2>2. ASSUME NEW i \in Turn, WorkerStep(i) PROVE Good
    <3>1. inst[i].status \in Outcomes \union {NULL}
      BY <1>1 DEF Instances
    <3>2. CASE _complete_handle(i)
      BY <1>1, <3>1, <3>2, Zenon DEF _complete_handle, Works
    <3>3. CASE ~_complete_handle(i)
      <4>1. UNCHANGED <<submit, cancelled, result>> /\ traces' \subseteq traces
        BY <2>2, <3>3 DEF WorkerStep, Get, acquire, execute, _finish_turn, _cancel_shutdown_queue, Works
      <4> QED  BY <1>1, <4>1
    <3> QED  BY <3>2, <3>3
  <2>3. ASSUME NEW i \in Turn, _sweep_once(i) \/ evict(i) PROVE Good
    BY <1>1, <2>3 DEF _sweep_once, evict
  <2>4. CASE Settle
    <3>1. CASE evictor.held = <<>>
      BY <1>1, <2>4, <3>1 DEF Settle
    <3>2. CASE evictor.held # <<>>
      <4>1. Head(evictor.held) \in Turn /\ "evicted" \in Outcomes
        BY <1>1, <3>2 DEF Outcomes
      <4> QED  BY <1>1, <2>4, <3>2, <4>1 DEF Settle
    <3> QED  BY <3>1, <3>2
  <2>5. CASE Drain \/ Retire
    BY <1>1, <2>5 DEF Drain, Retire
  <2>6. CASE kill_switch \/ CancelAll \/ shutdown \/ StopWorkers
    BY <1>1, <2>6 DEF kill_switch, CancelAll, shutdown, StopWorkers
  <2>7. CASE UNCHANGED vars
    BY <1>1, <2>7 DEF vars
  <2> HIDE DEF Good
  <2> QED  BY <2>1, <2>2, <2>3, <2>4, <2>5, <2>6, <2>7 DEF RuntimeNext, EvictorStep
<1>4. evictor' \in [pc : {"rest", "drain", "settle", "retire"}, inst : Turn \union {NULL},
                    held : Seq(Turn)]
  <2> DEFINE Good == evictor' \in [pc : {"rest", "drain", "settle", "retire"},
                                   inst : Turn \union {NULL}, held : Seq(Turn)]
  <2> SUFFICES Good
    OBVIOUS
  <2>1. ASSUME NEW i \in Turn, evict(i) PROVE Good
    BY <2>1 DEF evict
  <2>2. CASE Drain
    <3>1. CASE evictor' = [evictor EXCEPT !.pc = "settle"] \/ evictor' = evictor
      BY <1>1, <3>1
    <3>2. ASSUME NEW t \in Turn, evictor' = [evictor EXCEPT !.held = Append(evictor.held, t)]
          PROVE  Good
      <4>1. Append(evictor.held, t) \in Seq(Turn)
        BY <1>1
      <4> QED  BY <1>1, <3>2, <4>1, Zenon
    <3> QED  BY <2>2, <3>1, <3>2, DrainFacts
  <2>3. CASE Settle
    BY <1>1, <2>3 DEF Settle, Resting
  <2>4. CASE Retire
    <3>1. Tail(evictor.held) \in Seq(Turn)
      BY <1>1, <2>4 DEF Retire
    <3> QED  BY <1>1, <2>4, <3>1, Zenon DEF Retire
  <2>5. CASE UNCHANGED evictor
    BY <1>1, <2>5
  <2> HIDE DEF Good
  <2> QED  BY <2>1, <2>2, <2>3, <2>4, <2>5, Frames DEF EvictorStep
<1>5. /\ accepting' \in BOOLEAN /\ stopping' \in BOOLEAN /\ closed' \in BOOLEAN
      /\ stopper' \in [pc : {"up", "killing", "killed", "down", "over"}, traces : SUBSET Turn,
                       insts : SUBSET Turn]
  <2>1. CASE kill_switch \/ CancelAll
    <3>1. CASE kill_switch
      BY <1>1, <3>1, Zenon DEF kill_switch
    <3>2. CASE CancelAll
      BY <1>1, <3>2 DEF CancelAll
    <3> QED  BY <2>1, <3>1, <3>2
  <2>2. CASE shutdown
    <3>1. /\ accepting' = FALSE /\ stopping' = TRUE /\ UNCHANGED closed
          /\ stopper' = [pc |-> "down", traces |-> traces, insts |-> hot]
      BY <2>2 DEF shutdown
    <3> QED  BY <1>1, <3>1, Zenon
  <2>3. CASE StopWorkers
    BY <1>1, <2>3 DEF StopWorkers
  <2>4. CASE UNCHANGED manager
    BY <1>1, <2>4 DEF manager
  <2> QED  BY <2>1, <2>2, <2>3, <2>4, Frames
<1>6. (hot \subseteq Turn)' /\ (older \subseteq hot \X hot)'
  BY NextTable
<1>7. inst' \in [Turn -> Instances] /\ \A i \in Turn : Carries(inst'[i])
  BY NextInstances
<1> QED  BY <1>2, <1>3, <1>4, <1>5, <1>6, <1>7 DEF RuntimeTypeOK, Instances, Carries

-----------------------------------------------------------------------------
(* Which instances exist, and which of them are served                     *)

Early == {"new", "checked", "refused"}

\* A worker that takes a step has been created.
LEMMA WorkerChanges ==
  ASSUME RuntimeAssumption, RuntimeTypeOK, NEW i \in Turn, WorkerStep(i)
  PROVE  /\ inst[i].pc # "none" /\ Changed(i)
         /\ UNCHANGED <<hot, cancelled, submit, evictor, manager, asks>>
<1>1. inst[i].pc # "none" /\ UNCHANGED <<hot, cancelled, submit, evictor, manager, asks>>
  BY DEF WorkerStep, Get, acquire, execute, _complete_handle, _finish_turn, _cancel_shutdown_queue,
         Works, At
<1>2. Changed(i)
  BY GetFacts, WorkFacts, FinishFacts, LeftoverFacts, Zenon DEF WorkerStep
<1> QED  BY <1>1, <1>2

\* Submission goes forward only.
LEMMA EarlyWas ==
  ASSUME IInv, [RuntimeNext]_vars, NEW t \in Turn, submit'[t] \in Early
  PROVE  submit[t] \in Early /\ ~get_or_create_agent(t) /\ ~enqueue(t)
<1>1. submit \in [Turn -> {"new", "checked", "created", "returned", "late", "lost", "refused"}]
  BY DEF IInv, RuntimeTypeOK
<1>2. CASE UNCHANGED submit
  <2>1. submit[t] \in Early
    BY <1>2
  <2>2. get_or_create_agent(t) => submit' = [submit EXCEPT ![t] = "created"]
    BY Zenon DEF get_or_create_agent
  <2>3. enqueue(t) => submit[t] = "created"
    BY DEF enqueue
  <2> QED  BY <1>1, <1>2, <2>1, <2>2, <2>3 DEF Early
<1>3. ASSUME NEW u \in Turn, SubmitStep(u)
      PROVE  submit[t] \in Early /\ ~get_or_create_agent(t) /\ ~enqueue(t)
  <2>1. /\ get_or_create_agent(t) => submit'[t] = "created"
        /\ enqueue(t) => submit'[t] \in {"returned", "late", "lost"}
    <3>1. get_or_create_agent(t) => submit' = [submit EXCEPT ![t] = "created"]
      BY DEF get_or_create_agent
    <3>2. enqueue(t) => \/ submit' = [submit EXCEPT ![t] = "lost"]
                        \/ submit' = [submit EXCEPT ![t] = IF stopping THEN "late" ELSE "returned"]
      BY DEF enqueue
    <3> QED  BY <1>1, <3>1, <3>2
  <2>2. \/ u = t \/ submit'[t] = submit[t]
    BY <1>1, <1>3 DEF SubmitStep, check, get_or_create_agent, enqueue
  <2>3. u = t => check(t)
    BY <1>3, <2>1 DEF SubmitStep, Early
  <2>4. check(t) => submit[t] = "new"
    BY DEF check
  <2> QED  BY <2>1, <2>2, <2>3, <2>4 DEF Early
<1>4. UNCHANGED submit \/ \E u \in Turn : SubmitStep(u)
  <2>1. ASSUME NEW u \in Turn, WorkerStep(u) PROVE UNCHANGED submit
    BY <2>1 DEF WorkerStep, Get, acquire, execute, _complete_handle, _finish_turn,
       _cancel_shutdown_queue, Works
  <2>2. ASSUME NEW u \in Turn, cancel_turn(u) \/ _sweep_once(u) \/ evict(u) PROVE UNCHANGED submit
    BY <2>2 DEF cancel_turn, _sweep_once, evict
  <2>3. EvictorStep \/ kill_switch \/ CancelAll \/ shutdown \/ StopWorkers \/ UNCHANGED vars
          => UNCHANGED submit
    BY DEF EvictorStep, Drain, Settle, Retire, kill_switch, CancelAll, shutdown, StopWorkers, vars
  <2> QED  BY <2>1, <2>2, <2>3 DEF RuntimeNext
<1> QED  BY <1>2, <1>3, <1>4

\* No step gives a turn that has not come to get_or_create_agent an instance.
LEMMA NextNotYetCreated ==
  ASSUME RuntimeAssumption, IInv, [RuntimeNext]_vars, NEW t \in Turn
  PROVE  NotYetCreated(t)'
<1> DEFINE Good == inst'[t] = Unborn /\ t \notin hot' /\ t # evictor'.inst /\ t \notin stopper'.insts
<1> SUFFICES ASSUME submit'[t] \in Early PROVE Good
  BY DEF NotYetCreated, Early
<1>1. /\ inst[t] = Unborn /\ t \notin hot /\ t # evictor.inst /\ t \notin stopper.insts
      /\ ~get_or_create_agent(t) /\ ~enqueue(t) /\ RuntimeTypeOK
  BY EarlyWas, Zenon DEF IInv, NotYetCreated, Early
<1>2. inst[t].pc = "none" /\ NULL \notin Turn
  BY <1>1, FreshTypes DEF RuntimeAssumption
<1>3. CASE UNCHANGED <<inst, hot, evictor, stopper>>
  BY <1>1, <1>3
<1>4. ASSUME NEW u \in Turn, SubmitStep(u) \/ cancel_turn(u) PROVE Good
  <2>1. CASE get_or_create_agent(u)
    <3>1. u # t /\ UNCHANGED <<evictor, stopper>>
      <4>1. u # t
        BY <1>1, <2>1
      <4> QED  BY <2>1, <4>1 DEF get_or_create_agent, manager
    <3>2. t \notin hot' /\ inst'[t] = Unborn
      BY <1>1, <2>1, <3>1, CreateSame
    <3> QED  BY <1>1, <3>1, <3>2
  <2>2. CASE enqueue(u)
    <3>1. UNCHANGED <<hot, evictor, stopper>>
      BY <2>2 DEF enqueue, manager
    <3>2. UNCHANGED inst \/ \E i \in hot : Changed(i)
      BY <1>1, <2>2, EnqueueFacts DEF Requeued
    <3> QED  BY <1>1, <3>1, <3>2 DEF Changed
  <2> QED  BY <1>3, <1>4, <2>1, <2>2 DEF SubmitStep, check, cancel_turn, manager
<1>5. ASSUME NEW u \in Turn, WorkerStep(u) PROVE Good
  <2>1. u # t /\ Changed(u) /\ UNCHANGED <<hot, evictor, stopper>>
    BY <1>1, <1>2, <1>5, WorkerChanges DEF manager
  <2> QED  BY <1>1, <2>1 DEF Changed
<1>6. ASSUME NEW u \in Turn, _sweep_once(u) \/ evict(u) PROVE Good
  <2>1. CASE _sweep_once(u)
    <3>1. /\ u \in hot /\ hot' = hot \ {u} /\ inst' = [inst EXCEPT ![u] = Stopped(inst[u])]
          /\ UNCHANGED <<evictor, stopper>>
      BY <2>1 DEF _sweep_once, manager
    <3> QED  BY <1>1, <3>1
  <2>2. CASE evict(u)
    <3>1. /\ u \in hot /\ hot' = hot \ {u} /\ evictor'.inst = u /\ UNCHANGED <<inst, stopper>>
      BY <2>2 DEF evict, manager
    <3> QED  BY <1>1, <3>1
  <2> QED  BY <1>6, <2>1, <2>2
<1>7. CASE EvictorStep
  <2>1. CASE Drain
    <3>1. /\ evictor.inst \in Turn /\ evictor'.inst = evictor.inst
          /\ UNCHANGED inst \/ Changed(evictor.inst)
      BY <2>1, DrainFacts DEF Requeued
    <3>2. UNCHANGED <<hot, stopper>>
      BY <2>1 DEF Drain, manager
    <3> QED  BY <1>1, <3>1, <3>2 DEF Changed
  <2>2. CASE Settle
    <3>1. UNCHANGED <<hot, stopper>> /\ (evictor'.inst = evictor.inst \/ evictor'.inst = NULL)
      BY <1>1, <2>2 DEF Settle, Resting, manager, RuntimeTypeOK
    <3>2. inst'[t] = inst[t]
      <4>1. UNCHANGED inst \/ inst' = [inst EXCEPT ![evictor.inst] = Stopped(inst[evictor.inst])]
        BY <2>2 DEF Settle
      <4> QED  BY <1>1, <4>1 DEF RuntimeTypeOK
    <3> QED  BY <1>1, <1>2, <3>1, <3>2
  <2>3. CASE Retire
    BY <1>1, <2>3 DEF Retire, manager, RuntimeTypeOK
  <2> QED  BY <1>7, <2>1, <2>2, <2>3 DEF EvictorStep
<1>8. CASE kill_switch \/ CancelAll
  <2>1. UNCHANGED <<inst, hot, evictor>> /\ stopper'.insts = stopper.insts
    BY <1>1, <1>8, Zenon DEF kill_switch, CancelAll, RuntimeTypeOK
  <2> QED  BY <1>1, <2>1
<1>9. CASE shutdown
  <2>1. hot' = {} /\ stopper'.insts = hot /\ UNCHANGED <<inst, evictor>>
    BY <1>9 DEF shutdown
  <2> QED  BY <1>1, <2>1
<1>10. CASE StopWorkers
  <2>1. inst'[t] = inst[t] /\ UNCHANGED <<hot, evictor>> /\ stopper'.insts = {}
    BY <1>1, <1>10 DEF StopWorkers
  <2> QED  BY <1>1, <2>1
<1>11. CASE UNCHANGED vars
  BY <1>3, <1>11 DEF vars
<1> HIDE DEF Good
<1> QED  BY <1>4, <1>5, <1>6, <1>7, <1>8, <1>9, <1>10, <1>11 DEF RuntimeNext

\* The table only grows by the instance that get_or_create_agent creates.
LEMMA HotWas ==
  ASSUME RuntimeAssumption, IInv, [RuntimeNext]_vars, NEW i \in Turn, i \in hot'
  PROVE  i \in hot \/ (get_or_create_agent(i) /\ inst'[i] = Born)
<1> DEFINE Good == i \in hot \/ (get_or_create_agent(i) /\ inst'[i] = Born)
<1> SUFFICES Good
  OBVIOUS
<1>1. CASE hot' \subseteq hot
  BY <1>1
<1>2. ASSUME NEW u \in Turn, SubmitStep(u) \/ cancel_turn(u) PROVE Good
  <2>1. CASE get_or_create_agent(u)
    BY <2>1, CreateSame
  <2> QED  BY <1>1, <1>2, <2>1 DEF SubmitStep, check, enqueue, cancel_turn
<1>3. ASSUME NEW u \in Turn, WorkerStep(u) PROVE Good
  BY <1>1, <1>3, WorkerChanges DEF IInv
<1>4. ASSUME NEW u \in Turn, _sweep_once(u) \/ evict(u) PROVE Good
  BY <1>1, <1>4 DEF _sweep_once, evict
<1>5. CASE EvictorStep
  BY <1>1, <1>5 DEF EvictorStep, Drain, Settle, Retire
<1>6. CASE kill_switch \/ CancelAll \/ shutdown \/ StopWorkers \/ UNCHANGED vars
  BY <1>1, <1>6 DEF kill_switch, CancelAll, shutdown, StopWorkers, vars
<1> HIDE DEF Good
<1> QED  BY <1>2, <1>3, <1>4, <1>5, <1>6 DEF RuntimeNext

\* An eviction holds turns only while it goes on, of an instance that left the table.
LEMMA NextEvictorOK ==
  ASSUME RuntimeAssumption, IInv, [RuntimeNext]_vars
  PROVE  EvictorOK'
<1>1. /\ evictor \in [pc : {"rest", "drain", "settle", "retire"}, inst : Turn \union {NULL},
                      held : Seq(Turn)]
      /\ (evictor.pc = "rest") = (evictor.inst = NULL) /\ evictor.inst \notin hot
      /\ evictor.pc = "rest" => evictor.held = <<>>
      /\ evictor.pc = "retire" => evictor.held # <<>>
      /\ hot \subseteq Turn /\ NULL \notin Turn
  BY DEF IInv, RuntimeTypeOK, EvictorOK, RuntimeAssumption
<1>2. evictor.inst \notin hot'
  <2> SUFFICES ASSUME evictor.inst \in hot' PROVE FALSE
    OBVIOUS
  <2>1. evictor.inst \in Turn
    BY NextTable
  <2>2. get_or_create_agent(evictor.inst)
    BY <1>1, <2>1, HotWas
  <2>3. submit[evictor.inst] = "checked"
    BY <2>2 DEF get_or_create_agent
  <2> QED  BY <2>1, <2>3 DEF IInv, NotYetCreated
<1>3. CASE UNCHANGED evictor
  BY <1>1, <1>2, <1>3 DEF EvictorOK
<1>4. ASSUME NEW i \in Turn, evict(i) PROVE EvictorOK'
  <2>1. hot' = hot \ {i} /\ evictor' = [pc |-> "drain", inst |-> i, held |-> <<>>]
    BY <1>4 DEF evict
  <2> QED  BY <1>1, <2>1 DEF EvictorOK
<1>5. CASE Drain
  <2>1. /\ evictor.pc = "drain" /\ evictor'.inst = evictor.inst
        /\ evictor'.pc \in {"drain", "settle"}
    BY <1>1, <1>5, DrainFacts
  <2> QED  BY <1>1, <1>2, <2>1 DEF EvictorOK
<1>6. CASE Settle
  <2>1. CASE evictor.held = <<>>
    <3>1. evictor'.pc = "rest" /\ evictor'.inst = NULL /\ evictor'.held = <<>> /\ hot' = hot
      BY <1>6, <2>1 DEF Settle, Resting
    <3> QED  BY <1>1, <3>1 DEF EvictorOK
  <2>2. CASE evictor.held # <<>>
    <3>1. evictor.pc = "settle" /\ evictor' = [evictor EXCEPT !.pc = "retire"]
      BY <1>6, <2>2 DEF Settle
    <3> QED  BY <1>1, <1>2, <2>2, <3>1 DEF EvictorOK
  <2> QED  BY <2>1, <2>2
<1>7. CASE Retire
  <2>1. evictor.pc = "retire" /\ evictor' = [evictor EXCEPT !.pc = "settle", !.held = Tail(evictor.held)]
    BY <1>7 DEF Retire
  <2>2. evictor'.pc = "settle" /\ evictor'.inst = evictor.inst
    BY <1>1, <2>1
  <2> QED  BY <1>1, <1>2, <2>1, <2>2 DEF EvictorOK
<1> QED  BY <1>3, <1>4, <1>5, <1>6, <1>7, Frames DEF EvictorStep

\* An instance whose worker will look into its queue.
Serves(r) ==
  ~r.stop /\ r.pc \notin {"none", "drain", "dead"} /\ \A k \in 1..Len(r.queue) : r.queue[k] # NULL

\* While turns are accepted, an instance that is in the table serves its queue: those
\* that are stopped have left it.
LEMMA NextServed ==
  ASSUME RuntimeAssumption, IInv, [RuntimeNext]_vars
  PROVE  HotIsServed' /\ HotGoesOn'
<1>1. /\ (stopper.pc # "up" => ~accepting) /\ (stopping => ~accepting)
      /\ accepting => \A i \in hot : Serves(inst[i])
      /\ RuntimeTypeOK /\ hot \subseteq Turn /\ NULL \notin Turn
      /\ evictor.inst \notin hot /\ evictor.inst \in Turn \union {NULL}
      /\ inst \in [Turn -> Instances]
  BY Zenon DEF IInv, HotIsServed, HotGoesOn, Serves, RuntimeTypeOK, EvictorOK, RuntimeAssumption, Instances
<1>2. /\ accepting' => accepting
      /\ (stopper'.pc # "up" => ~accepting') /\ (stopping' => ~accepting')
  <2>1. CASE UNCHANGED manager
    BY <1>1, <2>1 DEF manager
  <2>2. CASE kill_switch
    BY <1>1, <2>2 DEF kill_switch, RuntimeTypeOK
  <2>3. CASE CancelAll
    BY <1>1, <2>3 DEF CancelAll, RuntimeTypeOK
  <2>4. CASE shutdown \/ StopWorkers
    BY <1>1, <2>4 DEF shutdown, StopWorkers
  <2> QED  BY <2>1, <2>2, <2>3, <2>4, Frames
<1>3. ASSUME accepting', NEW i \in hot' PROVE Serves(inst'[i])
  <2>1. accepting /\ ~stopping /\ stopper.pc = "up" /\ i \in Turn
    BY <1>1, <1>2, <1>3, NextTable
  <2>2. CASE inst'[i] = Born
    BY <2>2, FreshTypes DEF Serves
  <2>3. CASE i \in hot
    <3> DEFINE Good == Serves(inst'[i])
    <3> SUFFICES Good
      OBVIOUS
    <3>1. Serves(inst[i]) /\ i # evictor.inst
      BY <1>1, <2>1, <2>3
    <3>2. CASE inst'[i] = inst[i]
      BY <3>1, <3>2
    <3>3. inst[i].queue \in Seq(Turn \union {NULL})
      BY <1>1, <2>1 DEF Instances
    <3>4. ASSUME NEW u \in Turn, SubmitStep(u) \/ cancel_turn(u) PROVE Good
      <4>1. CASE get_or_create_agent(u)
        <5>1. inst'[i] = Born \/ inst'[i] = inst[i]
          BY <1>3, <2>1, <4>1, CreateSame
        <5> QED  BY <2>2, <3>2, <5>1
      <4>2. CASE enqueue(u)
        <5>1. CASE UNCHANGED inst
          BY <3>2, <5>1
        <5>2. ASSUME NEW j \in hot, Requeued(j, Append(inst[j].queue, u)) PROVE Good
          <6>1. CASE j # i
            BY <2>1, <3>2, <5>2, <6>1 DEF Requeued, Changed
          <6>2. CASE j = i
            <7> DEFINE q == inst[i].queue
            <7>1. /\ inst'[i].queue = Append(q, u) /\ inst'[i].stop = inst[i].stop
                  /\ inst'[i].pc = inst[i].pc
              BY <5>2, <6>2 DEF Requeued
            <7>2. \A k \in 1..Len(Append(q, u)) : Append(q, u)[k] # NULL
              BY <1>1, <3>1, <3>3 DEF Serves
            <7> QED  BY <3>1, <7>1, <7>2 DEF Serves
          <6> QED  BY <6>1, <6>2
        <5> QED  BY <1>1, <4>2, <5>1, <5>2, EnqueueFacts
      <4> QED  BY <3>2, <3>4, <4>1, <4>2 DEF SubmitStep, check, cancel_turn
    <3>5. ASSUME NEW u \in Turn, WorkerStep(u) PROVE Good
      <4>1. CASE u # i
        BY <1>1, <2>1, <3>2, <3>5, <4>1, WorkerChanges DEF Changed
      <4>2. CASE u = i
        <5>1. ~Told(i)
          BY <2>1, <3>1 DEF Told, Serves
        <5>2. CASE Get(i)
          <6> DEFINE q == inst[i].queue
          <6>1. q # <<>> => \A k \in 1..Len(Tail(q)) : Tail(q)[k] # NULL
            BY <3>1, <3>3 DEF Serves
          <6>2. q # <<>> => Head(q) # NULL
            BY <3>1, <3>3 DEF Serves
          <6>3. /\ inst'[i].stop = inst[i].stop /\ inst'[i].queue = Tail(q) /\ q # <<>>
                /\ inst'[i].pc \in {"complete", "limiter"}
            <7>1. \/ q = <<>> /\ Told(i)
                  \/ q # <<>> /\ Head(q) = NULL
                  \/ /\ inst'[i].stop = inst[i].stop /\ inst'[i].queue = Tail(q) /\ q # <<>>
                     /\ inst'[i].pc \in {"complete", "limiter"}
              BY <1>1, <2>1, <5>2, GetFacts, Zenon
            <7> QED  BY <5>1, <6>2, <7>1
          <6> QED  BY <3>1, <6>1, <6>3 DEF Serves
        <5>3. CASE acquire(i) \/ execute(i) \/ _complete_handle(i)
          <6>1. /\ inst'[i].stop = inst[i].stop /\ inst'[i].queue = inst[i].queue
                /\ inst'[i].pc \in {"complete", "run", "finish"}
            BY <1>1, <2>1, <5>3, WorkFacts
          <6> QED  BY <3>1, <6>1 DEF Serves
        <5>4. CASE _finish_turn(i)
          <6>1. /\ inst'[i].stop = inst[i].stop /\ inst'[i].queue = inst[i].queue
                /\ inst'[i].pc = "get"
            BY <1>1, <2>1, <5>1, <5>4, FinishFacts
          <6> QED  BY <3>1, <6>1 DEF Serves
        <5>5. CASE _cancel_shutdown_queue(i)
          BY <3>1, <5>5 DEF Serves, _cancel_shutdown_queue, At
        <5> QED  BY <3>5, <4>2, <5>2, <5>3, <5>4, <5>5 DEF WorkerStep
      <4> QED  BY <4>1, <4>2
    <3>6. ASSUME NEW u \in Turn, _sweep_once(u) PROVE Good
      <4>1. hot' = hot \ {u} /\ inst' = [inst EXCEPT ![u] = Stopped(inst[u])]
        BY <3>6 DEF _sweep_once
      <4> QED  BY <1>1, <1>3, <2>1, <3>2, <4>1
    <3>7. CASE EvictorStep
      <4>1. CASE Drain
        BY <2>1, <3>1, <3>2, <4>1, DrainFacts DEF Requeued, Changed
      <4>2. CASE Settle
        <5>1. UNCHANGED inst \/ inst' = [inst EXCEPT ![evictor.inst] = Stopped(inst[evictor.inst])]
          BY <4>2 DEF Settle
        <5> QED  BY <1>1, <2>1, <3>1, <3>2, <5>1
      <4> QED  BY <3>2, <3>7, <4>1, <4>2 DEF EvictorStep, Retire
    <3>8. CASE kill_switch \/ CancelAll \/ shutdown
      BY <3>2, <3>8 DEF kill_switch, CancelAll, shutdown
    <3>9. CASE StopWorkers
      BY <2>1, <3>9 DEF StopWorkers
    <3>10. CASE UNCHANGED vars
      BY <3>2, <3>10 DEF vars
    <3>11. ASSUME NEW u \in Turn, evict(u) PROVE Good
      BY <3>2, <3>11 DEF evict
    <3> HIDE DEF Good
    <3> QED  BY <3>4, <3>5, <3>6, <3>7, <3>8, <3>9, <3>10, <3>11 DEF RuntimeNext
  <2> QED  BY <1>3, <2>1, <2>2, <2>3, HotWas
<1> QED  BY <1>2, <1>3 DEF HotIsServed, HotGoesOn, Serves

=============================================================================
