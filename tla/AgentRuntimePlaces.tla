------------------------- MODULE AgentRuntimePlaces -------------------------
(***************************************************************************)
(* Where turns are in AgentRuntime, for any number of turns and agents and *)
(* any limits.                                                             *)
(*                                                                         *)
(* A turn is in one place at a time: in one queue, in the hands of one     *)
(* worker, or among those an eviction has taken.  In that place it has     *)
(* been accepted, is in the table of active turns and has no result yet,   *)
(* except just before it is taken off the table.  Every step keeps this,   *)
(* and so every step is one of TurnService.  AgentRuntimeProofs concludes. *)
(***************************************************************************)
EXTENDS AgentRuntimeSteps

-----------------------------------------------------------------------------
(* Where the turns are                                                     *)

PlaceInv ==
  /\ \A i \in Turn : StatusOK(i)
  /\ NoRepeats /\ Apart /\ PlacesOK
  /\ \A t \in Turn : NotYetEntered(t)

\* What a step may do to the submissions without entering a turn.
Forward ==
  \A t \in Turn : \/ submit'[t] = submit[t]
                  \/ submit[t] \in Early /\ submit'[t] \in Early \union {"created"}

\* The places hold turns, and no marks to stop.
LEMMA PlacesHoldTurns ==
  ASSUME RuntimeAssumption, RuntimeTypeOK
  PROVE  /\ queued \in [Turn -> SUBSET Turn] /\ carried \in [Turn -> Turn \union {NULL}]
         /\ taken \subseteq Turn /\ finishing \subseteq Turn /\ NULL \notin Turn
         /\ \A i \in Turn : (carried[i] = NULL) = (inst[i].pc \in {"none", "get", "drain", "dead"})
<1>1. ASSUME NEW s \in Seq(Turn \union {NULL}) PROVE Elems(s) \subseteq Turn
  BY DEF Elems
<1>2. ASSUME NEW s \in Seq(Turn) PROVE Elems(s) \subseteq Turn
  BY DEF Elems
<1>3. \A i \in Turn : inst[i].queue \in Seq(Turn \union {NULL}) /\ inst[i].turn \in Turn \union {NULL}
  BY DEF RuntimeTypeOK
<1>4. \A i \in Turn : Elems(inst[i].queue) \subseteq Turn
  BY <1>1, <1>3
<1>5. queued \in [Turn -> SUBSET Turn]
  BY <1>4 DEF queued
<1>6. evictor.held \in Seq(Turn)
  BY DEF RuntimeTypeOK
<1>7. taken \subseteq Turn
  BY <1>2, <1>6 DEF taken
<1> QED  BY <1>3, <1>5, <1>7 DEF carried, finishing, RuntimeAssumption, RuntimeTypeOK

\* Instances that stay as they are keep their turns.
LEMMA SameMeans ==
  ASSUME \A i \in Turn : SamePlace(i)
  PROVE  /\ queued' = queued /\ carried' = carried /\ finishing' = finishing
         /\ \A i \in Turn : StatusOK(i) => StatusOK(i)'
         /\ \A i \in Turn : Distinct(inst[i].queue) => Distinct(inst'[i].queue)
<1>1. \A i \in Turn : Elems(inst'[i].queue) = Elems(inst[i].queue)
  BY Zenon DEF SamePlace
<1>2. queued' = queued
  BY <1>1, Zenon DEF queued
<1>3. carried' = carried
  BY DEF SamePlace, carried
<1>4. finishing' = finishing
  BY DEF SamePlace, finishing
<1>5. \A i \in Turn : StatusOK(i) => StatusOK(i)'
  BY DEF SamePlace, StatusOK
<1>6. \A i \in Turn : Distinct(inst[i].queue) => Distinct(inst'[i].queue)
  BY Zenon DEF SamePlace
<1> QED  BY <1>2, <1>3, <1>4, <1>5, <1>6

\* Steps that leave every turn where it is, and the table and the results alone.
LEMMA PlacesSame ==
  ASSUME RuntimeAssumption, IInv, \A i \in Turn : SamePlace(i),
         evictor'.held = evictor.held, (evictor'.pc = "retire") = (evictor.pc = "retire"),
         UNCHANGED <<traces, result>>, Forward
  PROVE  PlaceInv'
<1>1. /\ \A i \in Turn : StatusOK(i)
      /\ NoRepeats /\ Apart /\ PlacesOK
      /\ \A t \in Turn : NotYetEntered(t)
      /\ queued \in [Turn -> SUBSET Turn] /\ carried \in [Turn -> Turn \union {NULL}]
      /\ taken \subseteq Turn
  BY PlacesHoldTurns DEF IInv
<1>2. /\ queued' = queued /\ carried' = carried /\ finishing' = finishing
      /\ \A i \in Turn : StatusOK(i)'
      /\ \A i \in Turn : Distinct(inst'[i].queue)
  <2>1. /\ queued' = queued /\ carried' = carried /\ finishing' = finishing
        /\ \A i \in Turn : StatusOK(i) => StatusOK(i)'
        /\ \A i \in Turn : Distinct(inst[i].queue) => Distinct(inst'[i].queue)
    BY SameMeans
  <2> QED  BY <1>1, <2>1, Zenon DEF NoRepeats
<1>3. taken' = taken /\ Retiring' = Retiring
  BY DEF taken, Retiring
<1>4. \A t \in Turn : Entered(t) => Entered(t)'
  BY DEF Forward, Entered, Early
<1>5. \A t \in Turn : NotYetEntered(t)'
  BY <1>1 DEF Forward, NotYetEntered, Early
<1>6. NoRepeats'
  BY <1>1, <1>2, Zenon DEF NoRepeats
<1>7. Apart'
  BY <1>1, <1>2, <1>3, Zenon DEF Apart
<1>8. PlacesOK'
  <2>1. ASSUME NEW i \in Turn
        PROVE  /\ \A t \in queued'[i] : submit'[t] \in {"returned", "late"} /\ t \in traces' /\ result'[t] = NULL
               /\ carried'[i] # NULL =>
                    /\ submit'[carried'[i]] \in {"returned", "late"} /\ carried'[i] \in traces'
                    /\ (result'[carried'[i]] # NULL) = (i \in finishing')
    BY <1>1, <1>2, <1>4 DEF PlacesOK, Entered
  <2>2. \A t \in taken' : /\ submit'[t] \in {"returned", "late"} /\ t \in traces'
                          /\ (result'[t] # NULL) = (t \in Retiring')
    BY <1>1, <1>3, <1>4, Zenon DEF PlacesOK, Entered
  <2> QED  BY <2>1, <2>2 DEF PlacesOK, Entered
<1> QED  BY <1>2, <1>5, <1>6, <1>7, <1>8 DEF PlaceInv

\* What holds before every step, in one place.
Before ==
  /\ \A i \in Turn : StatusOK(i)
  /\ NoRepeats /\ Apart /\ PlacesOK
  /\ \A t \in Turn : NotYetEntered(t)
  /\ queued \in [Turn -> SUBSET Turn] /\ carried \in [Turn -> Turn \union {NULL}]
  /\ taken \subseteq Turn /\ finishing \subseteq Turn /\ NULL \notin Turn
  /\ \A i \in Turn : (carried[i] = NULL) = (inst[i].pc \in {"none", "get", "drain", "dead"})
  /\ inst \in [Turn -> Instances]
  /\ result \in [Turn -> Outcomes \union {NULL}]
  /\ submit \in [Turn -> {"new", "checked", "created", "returned", "late", "lost", "refused"}]
  /\ evictor \in [pc : {"rest", "drain", "settle", "retire"}, inst : Turn \union {NULL},
                  held : Seq(Turn)]
  /\ NULL \notin Outcomes

\* It follows from the invariant; None is no status.
LEMMA HaveBefore ==
  ASSUME RuntimeAssumption, IInv
  PROVE  Before
<1>1. NULL \notin Outcomes
  BY DEF RuntimeAssumption, Outcomes
<1> QED  BY <1>1, PlacesHoldTurns, Zenon DEF IInv, RuntimeTypeOK, Before, Instances

\* A step that changes instance i only changes what i has.
LEMMA OneChanged ==
  ASSUME Before, NEW i \in Turn, inst' \in [Turn -> Instances], Changed(i)
  PROVE  /\ queued' = [queued EXCEPT ![i] = Elems(inst'[i].queue)]
         /\ carried' = [carried EXCEPT ![i] = inst'[i].turn]
         /\ finishing' = IF inst'[i].pc = "finish" THEN finishing \union {i} ELSE finishing \ {i}
         /\ \A j \in Turn \ {i} : StatusOK(j)' /\ Distinct(inst'[j].queue)
<1>1. queued' = [queued EXCEPT ![i] = Elems(inst'[i].queue)]
  BY Zenon DEF Before, Changed, queued
<1>2. carried' = [carried EXCEPT ![i] = inst'[i].turn]
  BY Zenon DEF Before, Changed, carried
<1>3. finishing' = IF inst'[i].pc = "finish" THEN finishing \union {i} ELSE finishing \ {i}
  BY DEF Changed, finishing
<1>4. \A j \in Turn \ {i} : StatusOK(j)' /\ Distinct(inst'[j].queue)
  BY DEF Before, Changed, StatusOK, NoRepeats
<1> QED  BY <1>1, <1>2, <1>3, <1>4

\* submit_turn: a turn is entered once, into one queue.
LEMMA EnqueuePlaces ==
  ASSUME RuntimeAssumption, IInv, NEW t \in Turn, enqueue(t)
  PROVE  PlaceInv'
<1>1. Before /\ RuntimeTypeOK /\ hot \subseteq Turn
  BY HaveBefore, Zenon DEF IInv, RuntimeTypeOK
<1>2. /\ submit[t] = "created" /\ traces' = traces \union {t} /\ UNCHANGED <<result, evictor>>
  BY DEF enqueue
<1>3. taken' = taken /\ Retiring' = Retiring /\ evictor' = evictor
  BY <1>2 DEF taken, Retiring
<1>4. t \notin traces /\ result[t] = NULL /\ t # NULL
  BY <1>1, <1>2 DEF Before, NotYetEntered
<1>5. /\ \A i \in Turn : t \notin queued[i] /\ carried[i] # t
      /\ t \notin taken
  BY <1>1, <1>4 DEF Before, PlacesOK, Entered
<1>6. CASE submit' = [submit EXCEPT ![t] = "lost"] /\ UNCHANGED inst
  <2>1. /\ queued' = queued /\ carried' = carried /\ finishing' = finishing /\ NoRepeats'
        /\ \A i \in Turn : StatusOK(i)'
    BY <1>1, <1>3, <1>6 DEF queued, carried, finishing, NoRepeats, StatusOK, Before
  <2>2. Apart'
    BY <1>1, <1>3, <2>1, Zenon DEF Apart, Before
  <2>3. \A u \in Turn : NotYetEntered(u)'
    BY <1>1, <1>2, <1>6 DEF Before, NotYetEntered
  <2>4. \A u \in Turn : Entered(u) => Entered(u)'
    BY <1>1, <1>2, <1>6 DEF Before, Entered
  <2>5. PlacesOK'
    <3>1. ASSUME NEW i \in Turn
          PROVE  /\ \A u \in queued'[i] : submit'[u] \in {"returned", "late"} /\ u \in traces' /\ result'[u] = NULL
                 /\ carried'[i] # NULL =>
                      /\ submit'[carried'[i]] \in {"returned", "late"} /\ carried'[i] \in traces'
                      /\ (result'[carried'[i]] # NULL) = (i \in finishing')
      BY <1>1, <1>2, <2>1, <2>4 DEF Before, PlacesOK, Entered
    <3>2. \A u \in taken' : /\ submit'[u] \in {"returned", "late"} /\ u \in traces'
                            /\ (result'[u] # NULL) = (u \in Retiring')
      BY <1>1, <1>2, <1>3, <2>4 DEF Before, PlacesOK, Entered
    <3> QED  BY <3>1, <3>2 DEF PlacesOK, Entered
  <2> QED  BY <2>1, <2>2, <2>3, <2>5 DEF PlaceInv
<1>7. ASSUME NEW i \in hot, Requeued(i, Append(inst[i].queue, t)),
             \/ submit' = [submit EXCEPT ![t] = "late"]
             \/ submit' = [submit EXCEPT ![t] = "returned"]
      PROVE  PlaceInv'
  <2>0. i \in Turn
    BY <1>1
  <2>1. /\ Elems(Append(inst[i].queue, t)) = queued[i] \union {t}
        /\ Distinct(Append(inst[i].queue, t))
    <3> DEFINE q == inst[i].queue
               S == Turn \union {NULL}
    <3>1. q \in Seq(S) /\ Distinct(q) /\ t \notin Elems(q) /\ queued[i] = Elems(q) /\ t \in S
      BY <1>1, <1>5, <2>0 DEF Before, NoRepeats, queued, Instances
    <3> HIDE DEF q, S
    <3>2. /\ Elems(Append(q, t)) = Elems(q) \union ({t} \ {NULL})
          /\ Distinct(q) /\ t \notin Elems(q) => Distinct(Append(q, t))
      BY <3>1, Put
    <3>3. {t} \ {NULL} = {t}
      BY <1>4
    <3> QED  BY <3>1, <3>2, <3>3 DEF q
  <2>2. /\ queued' = [queued EXCEPT ![i] = queued[i] \union {t}]
        /\ carried' = [carried EXCEPT ![i] = inst[i].turn]
        /\ finishing' = finishing
        /\ \A j \in Turn : StatusOK(j)' /\ Distinct(inst'[j].queue)
    <3>1. /\ inst' \in [Turn -> Instances] /\ Changed(i) /\ inst'[i].queue = Append(inst[i].queue, t)
          /\ inst'[i].turn = inst[i].turn /\ inst'[i].pc = inst[i].pc /\ inst'[i].status = inst[i].status
      BY <1>7 DEF Requeued
    <3>2. /\ queued' = [queued EXCEPT ![i] = Elems(inst'[i].queue)]
          /\ carried' = [carried EXCEPT ![i] = inst'[i].turn]
          /\ finishing' = IF inst'[i].pc = "finish" THEN finishing \union {i} ELSE finishing \ {i}
          /\ \A j \in Turn \ {i} : StatusOK(j)' /\ Distinct(inst'[j].queue)
      BY <1>1, <2>0, <3>1, OneChanged, Zenon
    <3>3. finishing' = finishing
      BY <2>0, <3>1, <3>2 DEF finishing
    <3>4. StatusOK(i)'
      BY <1>1, <2>0, <3>1 DEF Before, StatusOK
    <3>5. Distinct(inst'[i].queue)
      BY <2>1, <3>1, Zenon
    <3> QED  BY <2>1, <3>1, <3>2, <3>3, <3>4, <3>5, Zenon
  <2>3. carried' = carried
    BY <1>1, <2>0, <2>2, Zenon DEF Before, carried
  <2>4. NoRepeats'
    BY <1>1, <1>3, <2>2 DEF NoRepeats, Before
  <2>5. Apart'
    <3>1. ASSUME NEW j \in Turn
          PROVE  /\ carried'[j] \notin taken' /\ queued'[j] \intersect taken' = {}
                 /\ \A k \in Turn :
                      /\ carried'[j] \notin queued'[k]
                      /\ j # k => /\ queued'[j] \intersect queued'[k] = {}
                                  /\ carried'[j] # NULL => carried'[j] # carried'[k]
      BY <1>1, <1>3, <1>5, <2>0, <2>2, <2>3 DEF Apart, Before
    <3> QED  BY <3>1, Zenon DEF Apart
  <2>6. \A u \in Turn : NotYetEntered(u)'
    BY <1>1, <1>2, <1>7 DEF Before, NotYetEntered
  <2>7. /\ \A u \in Turn : Entered(u) => Entered(u)'
        /\ submit'[t] \in {"returned", "late"} /\ t \in traces'
    BY <1>1, <1>2, <1>7 DEF Before, Entered
  <2>8. PlacesOK'
    <3>1. ASSUME NEW j \in Turn
          PROVE  /\ \A u \in queued'[j] : submit'[u] \in {"returned", "late"} /\ u \in traces' /\ result'[u] = NULL
                 /\ carried'[j] # NULL =>
                      /\ submit'[carried'[j]] \in {"returned", "late"} /\ carried'[j] \in traces'
                      /\ (result'[carried'[j]] # NULL) = (j \in finishing')
      BY <1>1, <1>2, <1>4, <2>0, <2>2, <2>3, <2>7 DEF Before, PlacesOK, Entered
    <3>2. \A u \in taken' : /\ submit'[u] \in {"returned", "late"} /\ u \in traces'
                            /\ (result'[u] # NULL) = (u \in Retiring')
      BY <1>1, <1>2, <1>3, <2>7 DEF Before, PlacesOK, Entered
    <3> QED  BY <3>1, <3>2 DEF PlacesOK, Entered
  <2> QED  BY <2>2, <2>4, <2>5, <2>6, <2>8 DEF PlaceInv
<1> QED  BY <1>1, <1>6, <1>7, EnqueueFacts

\* The conclusion of the lemmas below, from its parts.
LEMMA PlaceParts ==
  ASSUME Before, NEW i \in Turn, StatusOK(i)', Distinct(inst'[i].queue), Distinct(evictor'.held),
         \A j \in Turn \ {i} : StatusOK(j)' /\ Distinct(inst'[j].queue),
         Apart', PlacesOK', \A t \in Turn : NotYetEntered(t)'
  PROVE  PlaceInv'
BY DEF PlaceInv, NoRepeats

\* A worker that has no turn finds that it is to stop, or a mark that says so, or takes
\* the turn at the head of its queue, which may have been cancelled.
Picked(i) ==
  \/ /\ inst'[i].queue = inst[i].queue /\ inst'[i].pc \in {"drain", "dead"}
     /\ inst'[i].turn = NULL /\ inst'[i].status = inst[i].status
  \/ /\ inst[i].queue # <<>> /\ inst'[i].queue = Tail(inst[i].queue)
     /\ Head(inst[i].queue) = NULL /\ inst'[i].pc = "drain"
     /\ inst'[i].turn = NULL /\ inst'[i].status = inst[i].status
  \/ /\ inst[i].queue # <<>> /\ inst'[i].queue = Tail(inst[i].queue)
     /\ Head(inst[i].queue) # NULL /\ inst'[i].turn = Head(inst[i].queue)
     /\ \/ inst'[i].pc = "complete" /\ inst'[i].status = "cancelled"
        \/ inst'[i].pc = "limiter" /\ inst'[i].status = inst[i].status

\* A turn that goes from a queue into the hands of its worker is still in one place.
LEMMA PickApart ==
  ASSUME Before, NEW i \in Turn, NEW h \in queued[i], taken' = taken,
         queued'[i] = queued[i] \ {h}, carried'[i] = h,
         \A j \in Turn \ {i} : queued'[j] = queued[j] /\ carried'[j] = carried[j]
  PROVE  Apart'
<1>1. /\ h # NULL /\ h \notin taken
      /\ \A k \in Turn : /\ carried[k] \notin taken /\ queued[k] \intersect taken = {}
                         /\ h # carried[k] /\ (k # i => h \notin queued[k])
                         /\ \A l \in Turn : carried[k] \notin queued[l]
  BY DEF Apart, Before
<1>2. \A k \in Turn : queued'[k] \subseteq queued[k] /\ h \notin queued'[k]
  BY <1>1, Zenon
<1> SUFFICES ASSUME NEW j \in Turn
             PROVE  /\ carried'[j] \notin taken' /\ queued'[j] \intersect taken' = {}
                    /\ \A k \in Turn :
                         /\ carried'[j] \notin queued'[k]
                         /\ j # k => /\ queued'[j] \intersect queued'[k] = {}
                                     /\ carried'[j] # NULL => carried'[j] # carried'[k]
  BY Zenon DEF Apart
<1>3. carried'[j] \notin taken' /\ queued'[j] \intersect taken' = {}
  BY <1>1, <1>2
<1>4. ASSUME NEW k \in Turn PROVE carried'[j] \notin queued'[k]
  BY <1>1, <1>2
<1>5. ASSUME NEW k \in Turn, j # k PROVE queued'[j] \intersect queued'[k] = {}
  BY <1>2, <1>5, Zenon DEF Apart, Before
<1>6. ASSUME NEW k \in Turn, j # k, carried'[j] # NULL PROVE carried'[j] # carried'[k]
  <2>1. CASE j # i /\ k # i
    BY <1>6, <2>1 DEF Apart, Before
  <2>2. CASE j = i /\ k # i
    BY <1>1, <1>6, <2>2, Zenon
  <2>3. CASE j # i /\ k = i
    BY <1>1, <1>6, <2>3, Zenon
  <2> QED  BY <1>6, <2>1, <2>2, <2>3, Zenon
<1> QED  BY <1>3, <1>4, <1>5, <1>6, Zenon

\* _worker_loop: the worker takes the turn at the head of its queue into its hands.
LEMMA PickPlaces ==
  ASSUME RuntimeAssumption, IInv, NEW i \in Turn, UNCHANGED <<submit, evictor, traces, result>>,
         inst[i].turn = NULL, inst[i].pc \in {"get", "drain"},
         inst' \in [Turn -> Instances], Changed(i),
         Picked(i)
  PROVE  PlaceInv'
<1> DEFINE q == inst[i].queue
<1>1. Before /\ "cancelled" \in Outcomes /\ inst[i].status = NULL
  BY HaveBefore, Zenon DEF Outcomes, Before, StatusOK
<1>2. taken' = taken /\ Retiring' = Retiring /\ evictor' = evictor /\ Distinct(evictor'.held)
  BY <1>1, Zenon DEF taken, Retiring, Before, NoRepeats
<1>3. carried[i] = NULL /\ i \notin finishing
  BY Zenon DEF carried, finishing
<1>4. finishing' = finishing
  <2>1. inst'[i].pc # "finish"
    BY Zenon DEF Picked
  <2>2. finishing' = IF inst'[i].pc = "finish" THEN finishing \union {i} ELSE finishing \ {i}
    BY <1>1, OneChanged, Zenon
  <2> QED  BY <1>3, <2>1, <2>2, Zenon
<1>5. /\ queued' = [queued EXCEPT ![i] = Elems(inst'[i].queue)]
      /\ carried' = [carried EXCEPT ![i] = inst'[i].turn]
      /\ \A j \in Turn \ {i} : StatusOK(j)' /\ Distinct(inst'[j].queue)
  BY <1>1, OneChanged, Zenon
<1>6. StatusOK(i)'
  BY <1>1 DEF StatusOK, Before, Picked
<1>7. \A u \in Turn : NotYetEntered(u)'
  BY <1>1, Zenon DEF Before, NotYetEntered
<1>8. \A u \in Turn : Entered(u) => submit'[u] \in {"returned", "late"} /\ u \in traces'
  BY DEF Entered
<1>9. q \in Seq(Turn \union {NULL}) /\ Distinct(q) /\ queued[i] = Elems(q) /\ NULL \notin Elems(q)
  BY <1>1 DEF Before, Instances, NoRepeats, queued, Elems
<1>10. /\ Distinct(inst'[i].queue)
       /\ \/ queued'[i] = queued[i] /\ carried'[i] = NULL
          \/ \E h \in queued[i] : queued'[i] = queued[i] \ {h} /\ carried'[i] = h
  <2>1. /\ queued'[i] = Elems(inst'[i].queue) /\ carried'[i] = inst'[i].turn
    BY <1>1, <1>5, Zenon DEF Before
  <2>2. CASE inst'[i].queue = q /\ inst'[i].turn = NULL
    BY <1>9, <2>1, <2>2, Zenon
  <2>3. CASE /\ q # <<>> /\ inst'[i].queue = Tail(q)
             /\ \/ Head(q) = NULL /\ inst'[i].turn = NULL
                \/ Head(q) # NULL /\ inst'[i].turn = Head(q)
    <3>1. /\ Elems(Tail(q)) = Elems(q) \ {Head(q)}
          /\ Head(q) # NULL => Head(q) \in Elems(q)
          /\ Distinct(Tail(q))
      <4> DEFINE S == Turn \union {NULL}
      <4>1. q \in Seq(S)
        BY <1>9, Zenon
      <4> HIDE DEF S
      <4> QED  BY <1>9, <2>3, <4>1, Taken, Zenon
    <3>2. queued'[i] = queued[i] \ {Head(q)} /\ Distinct(inst'[i].queue)
      BY <1>9, <2>1, <2>3, <3>1, Zenon
    <3>3. CASE Head(q) = NULL /\ inst'[i].turn = NULL
      <4>1. queued'[i] = queued[i]
        BY <1>9, <3>2, <3>3, Zenon
      <4> QED  BY <2>1, <3>2, <3>3, <4>1, Zenon
    <3>4. CASE Head(q) # NULL /\ inst'[i].turn = Head(q)
      BY <1>9, <2>1, <3>1, <3>2, <3>4, Zenon
    <3> QED  BY <2>3, <3>3, <3>4, Zenon
  <2> QED  BY <2>2, <2>3, Zenon DEF Picked
<1> HIDE DEF q
<1>11. /\ \A j \in Turn \ {i} : queued'[j] = queued[j] /\ carried'[j] = carried[j]
       /\ queued' \in [Turn -> SUBSET Turn]
  <2>1. queued'[i] \subseteq Turn
    BY <1>1, <1>10, Zenon DEF Before
  <2> QED  BY <1>1, <1>5, <2>1, Zenon DEF Before
<1>12. Apart'
  <2>1. CASE queued'[i] = queued[i] /\ carried'[i] = NULL
    <3>1. \A j \in Turn : queued'[j] = queued[j] /\ carried'[j] = carried[j]
      BY <1>3, <1>11, <2>1, Zenon
    <3> QED  BY <1>1, <1>2, <3>1 DEF Apart, Before
  <2>2. ASSUME NEW h \in queued[i], queued'[i] = queued[i] \ {h}, carried'[i] = h PROVE Apart'
    BY <1>1, <1>2, <1>11, <2>2, PickApart, Zenon
  <2> QED  BY <1>10, <2>1, <2>2, Zenon
<1>13. PlacesOK'
  <2>1. ASSUME NEW j \in Turn
        PROVE  /\ \A u \in queued'[j] : submit'[u] \in {"returned", "late"} /\ u \in traces' /\ result'[u] = NULL
               /\ carried'[j] # NULL =>
                    /\ submit'[carried'[j]] \in {"returned", "late"} /\ carried'[j] \in traces'
                    /\ (result'[carried'[j]] # NULL) = (j \in finishing')
    <3>1. CASE j # i
      BY <1>1, <1>4, <1>8, <1>11, <3>1 DEF Before, PlacesOK
    <3>2. CASE j = i
      BY <1>1, <1>3, <1>4, <1>8, <1>10, <3>2 DEF Before, PlacesOK
    <3> QED  BY <3>1, <3>2
  <2>2. \A u \in taken' : /\ submit'[u] \in {"returned", "late"} /\ u \in traces'
                          /\ (result'[u] # NULL) = (u \in Retiring')
    BY <1>1, <1>2, <1>8, Zenon DEF Before, PlacesOK
  <2> QED  BY <2>1, <2>2 DEF PlacesOK, Entered
<1> QED  BY <1>1, <1>2, <1>5, <1>6, <1>7, <1>10, <1>12, <1>13, PlaceParts, Zenon

\* A worker that goes on with its turn keeps it in its hands.
LEMMA KeepFacts ==
  ASSUME RuntimeAssumption, IInv, NEW i \in Turn,
         acquire(i) \/ execute(i) \/ _complete_handle(i)
  PROVE  /\ Before /\ UNCHANGED <<submit, evictor, traces>>
         /\ queued' = queued /\ carried' = carried /\ taken' = taken /\ Retiring' = Retiring
         /\ carried[i] \in Turn /\ carried[i] = inst[i].turn
         /\ i \notin finishing
         /\ finishing' = IF _complete_handle(i) THEN finishing \union {i} ELSE finishing
         /\ \A j \in Turn : StatusOK(j)' /\ Distinct(inst'[j].queue)
         /\ Distinct(evictor'.held)
<1>1. Before /\ RuntimeTypeOK
  BY HaveBefore DEF IInv
<1>2. UNCHANGED <<submit, evictor, traces>>
  BY DEF acquire, execute, _complete_handle, Works
<1>3. taken' = taken /\ Retiring' = Retiring /\ Distinct(evictor'.held)
  BY <1>1, <1>2 DEF taken, Retiring, Before, NoRepeats
<1>4. /\ inst' \in [Turn -> Instances] /\ Changed(i)
      /\ inst'[i].queue = inst[i].queue /\ inst'[i].turn = inst[i].turn
      /\ inst[i].pc \in {"limiter", "run", "complete"}
      /\ (inst'[i].pc = "finish") = (inst[i].pc = "complete")
      /\ \/ inst'[i].pc = "complete" /\ inst'[i].status \in {"cancelled", "executed"}
         \/ inst[i].pc = "limiter" /\ inst'[i].pc = "run" /\ inst'[i].status = inst[i].status
         \/ inst[i].pc = "complete" /\ inst'[i].pc = "finish" /\ inst'[i].status = inst[i].status
  BY <1>1, WorkFacts
<1>5. /\ queued' = [queued EXCEPT ![i] = Elems(inst'[i].queue)]
      /\ carried' = [carried EXCEPT ![i] = inst'[i].turn]
      /\ finishing' = IF inst'[i].pc = "finish" THEN finishing \union {i} ELSE finishing \ {i}
      /\ \A j \in Turn \ {i} : StatusOK(j)' /\ Distinct(inst'[j].queue)
  BY <1>1, <1>4, OneChanged, Zenon
<1>6. queued[i] = Elems(inst[i].queue) /\ carried[i] = inst[i].turn /\ i \notin finishing
  BY <1>4, Zenon DEF queued, carried, finishing
<1>7. queued' = queued /\ carried' = carried
  <2>1. queued' = [queued EXCEPT ![i] = queued[i]]
    BY <1>4, <1>5, <1>6
  <2>2. carried' = [carried EXCEPT ![i] = carried[i]]
    BY <1>4, <1>5, <1>6
  <2> QED  BY <1>1, <2>1, <2>2 DEF Before
<1>8. (inst[i].pc = "complete") = _complete_handle(i)
  BY Zenon DEF acquire, execute, _complete_handle, At
<1>9. finishing' = IF _complete_handle(i) THEN finishing \union {i} ELSE finishing
  BY <1>4, <1>5, <1>6, <1>8, Zenon
<1>10. StatusOK(i)'
  BY <1>1, <1>4 DEF StatusOK, Before, Outcomes
<1>11. Distinct(inst'[i].queue)
  BY <1>1, <1>4 DEF Before, NoRepeats
<1>12. carried[i] \in Turn
  BY <1>1, <1>4, <1>6 DEF Before
<1> QED  BY <1>1, <1>2, <1>3, <1>5, <1>6, <1>7, <1>9, <1>10, <1>11, <1>12, Zenon

\* acquire, the executor and _complete_handle: the result is set last, once.
LEMMA KeepPlaces ==
  ASSUME RuntimeAssumption, IInv, NEW i \in Turn,
         acquire(i) \/ execute(i) \/ _complete_handle(i)
  PROVE  PlaceInv'
<1>1. /\ Before /\ UNCHANGED <<submit, evictor, traces>>
      /\ queued' = queued /\ carried' = carried /\ taken' = taken /\ Retiring' = Retiring
      /\ carried[i] \in Turn /\ carried[i] = inst[i].turn
      /\ i \notin finishing
      /\ finishing' = IF _complete_handle(i) THEN finishing \union {i} ELSE finishing
      /\ \A j \in Turn : StatusOK(j)' /\ Distinct(inst'[j].queue)
      /\ Distinct(evictor'.held)
  BY KeepFacts, Zenon
<1>2. Apart'
  BY <1>1, Zenon DEF Apart, Before
<1>3. \A u \in Turn : Entered(u) => submit'[u] \in {"returned", "late"} /\ u \in traces'
  BY <1>1, Zenon DEF Entered
<1>4. /\ \A u \in Turn \ {carried[i]} : result'[u] = result[u]
      /\ IF _complete_handle(i) THEN result'[carried[i]] # NULL ELSE result' = result
  <2>1. CASE _complete_handle(i)
    <3>1. result' = [result EXCEPT ![carried[i]] = inst[i].status] /\ inst[i].pc = "complete"
      BY <1>1, <2>1 DEF _complete_handle, At
    <3>2. inst[i].status # NULL
      BY <1>1, <3>1 DEF Before, StatusOK
    <3> QED  BY <1>1, <2>1, <3>1, <3>2 DEF Before
  <2>2. CASE ~_complete_handle(i)
    BY <2>2 DEF acquire, execute
  <2> QED  BY <2>1, <2>2
<1>5. Entered(carried[i])
  BY <1>1 DEF Before, PlacesOK
<1>6. \A u \in Turn : NotYetEntered(u)'
  <2>1. \A u \in Turn : submit[u] \in {"new", "checked", "refused", "created"} => u # carried[i]
    BY <1>5 DEF Entered
  <2> QED  BY <1>1, <1>4, <2>1 DEF Before, NotYetEntered
<1>7. PlacesOK'
  <2>1. ASSUME NEW j \in Turn, NEW u \in queued'[j]
        PROVE  submit'[u] \in {"returned", "late"} /\ u \in traces' /\ result'[u] = NULL
    <3>1. u \in queued[j] /\ u \in Turn /\ u # carried[i]
      BY <1>1, <2>1 DEF Before, Apart
    <3> QED  BY <1>1, <1>3, <1>4, <3>1 DEF Before, PlacesOK
  <2>2. ASSUME NEW j \in Turn, carried'[j] # NULL
        PROVE  /\ submit'[carried'[j]] \in {"returned", "late"} /\ carried'[j] \in traces'
               /\ (result'[carried'[j]] # NULL) = (j \in finishing')
    <3>1. /\ carried'[j] = carried[j] /\ carried[j] \in Turn /\ Entered(carried[j])
          /\ (result[carried[j]] # NULL) = (j \in finishing)
      BY <1>1, <2>2 DEF Before, PlacesOK
    <3>2. CASE j = i
      BY <1>1, <1>3, <1>4, <3>1, <3>2, Zenon
    <3>3. CASE j # i
      <4>1. carried[j] # carried[i]
        BY <1>1, <3>1, <3>3 DEF Before, Apart
      <4> QED  BY <1>1, <1>3, <1>4, <3>1, <3>3, <4>1
    <3> QED  BY <3>2, <3>3, Zenon
  <2>3. ASSUME NEW u \in taken'
        PROVE  /\ submit'[u] \in {"returned", "late"} /\ u \in traces'
               /\ (result'[u] # NULL) = (u \in Retiring')
    <3>1. u \in taken /\ u \in Turn /\ u # carried[i]
      BY <1>1, <2>3 DEF Before, Apart
    <3> QED  BY <1>1, <1>3, <1>4, <3>1 DEF Before, PlacesOK
  <2> QED  BY <2>1, <2>2, <2>3, Zenon DEF PlacesOK, Entered
<1> QED  BY <1>1, <1>2, <1>6, <1>7, Zenon DEF PlaceInv, NoRepeats

\* _finish_turn: the turn leaves the worker's hands and the table in one step.
LEMMA FinishPlaces ==
  ASSUME RuntimeAssumption, IInv, NEW i \in Turn, _finish_turn(i)
  PROVE  PlaceInv'
<1>1. Before /\ RuntimeTypeOK
  BY HaveBefore DEF IInv
<1>2. UNCHANGED <<submit, evictor, result>> /\ traces' = traces \ {inst[i].turn}
  BY DEF _finish_turn
<1>3. taken' = taken /\ Retiring' = Retiring /\ Distinct(evictor'.held)
  BY <1>1, <1>2 DEF taken, Retiring, Before, NoRepeats
<1>4. /\ inst' \in [Turn -> Instances] /\ Changed(i) /\ inst[i].pc = "finish"
      /\ inst'[i].queue = inst[i].queue /\ inst'[i].turn = NULL /\ inst'[i].status = NULL
      /\ inst'[i].pc \in {"drain", "get"}
  BY <1>1, FinishFacts
<1>5. /\ queued' = [queued EXCEPT ![i] = Elems(inst'[i].queue)]
      /\ carried' = [carried EXCEPT ![i] = inst'[i].turn]
      /\ finishing' = IF inst'[i].pc = "finish" THEN finishing \union {i} ELSE finishing \ {i}
      /\ \A j \in Turn \ {i} : StatusOK(j)' /\ Distinct(inst'[j].queue)
  BY <1>1, <1>4, OneChanged, Zenon
<1>6. queued[i] = Elems(inst[i].queue) /\ carried[i] = inst[i].turn /\ i \in finishing
  BY <1>4 DEF queued, carried, finishing
<1>7. /\ queued' = queued /\ carried' = [carried EXCEPT ![i] = NULL] /\ finishing' = finishing \ {i}
  <2>1. queued' = [queued EXCEPT ![i] = queued[i]]
    BY <1>4, <1>5, <1>6
  <2> QED  BY <1>1, <1>4, <1>5, <2>1 DEF Before
<1>8. StatusOK(i)' /\ Distinct(inst'[i].queue)
  BY <1>1, <1>4 DEF StatusOK, Before, NoRepeats
<1>9. Apart'
  <2>1. ASSUME NEW j \in Turn
        PROVE  /\ carried'[j] \notin taken' /\ queued'[j] \intersect taken' = {}
               /\ \A k \in Turn :
                    /\ carried'[j] \notin queued'[k]
                    /\ j # k => /\ queued'[j] \intersect queued'[k] = {}
                                /\ carried'[j] # NULL => carried'[j] # carried'[k]
    BY <1>1, <1>3, <1>7 DEF Apart, Before
  <2> QED  BY <2>1 DEF Apart
<1>10. \A u \in Turn : NotYetEntered(u)'
  BY <1>1, <1>2 DEF Before, NotYetEntered
<1>11. PlacesOK'
  <2>1. ASSUME NEW j \in Turn, NEW u \in queued'[j]
        PROVE  submit'[u] \in {"returned", "late"} /\ u \in traces' /\ result'[u] = NULL
    <3>1. u \in queued[j] /\ u # carried[i]
      BY <1>1, <1>7, <2>1 DEF Before, Apart
    <3> QED  BY <1>1, <1>2, <1>6, <3>1 DEF Before, PlacesOK, Entered
  <2>2. ASSUME NEW j \in Turn, carried'[j] # NULL
        PROVE  /\ submit'[carried'[j]] \in {"returned", "late"} /\ carried'[j] \in traces'
               /\ (result'[carried'[j]] # NULL) = (j \in finishing')
    <3>1. j # i /\ carried'[j] = carried[j]
      BY <1>1, <1>7, <2>2 DEF Before
    <3>2. carried[j] # carried[i]
      BY <1>1, <2>2, <3>1 DEF Before, Apart
    <3> QED  BY <1>1, <1>2, <1>6, <1>7, <2>2, <3>1, <3>2 DEF Before, PlacesOK, Entered
  <2>3. ASSUME NEW u \in taken'
        PROVE  /\ submit'[u] \in {"returned", "late"} /\ u \in traces'
               /\ (result'[u] # NULL) = (u \in Retiring')
    <3>1. u \in taken /\ u # carried[i]
      BY <1>1, <1>3, <2>3 DEF Before, Apart
    <3> QED  BY <1>1, <1>2, <1>3, <1>6, <3>1 DEF Before, PlacesOK, Entered
  <2> QED  BY <2>1, <2>2, <2>3 DEF PlacesOK, Entered
<1> QED  BY <1>1, <1>3, <1>5, <1>8, <1>9, <1>10, <1>11, PlaceParts, Zenon

\* _evict_agent: a queued turn passes from the queue to the eviction.
LEMMA DrainPlaces ==
  ASSUME RuntimeAssumption, IInv, Drain
  PROVE  PlaceInv'
<1>0. PICK i \in Turn : i = evictor.inst
  BY DrainFacts
<1> DEFINE q == inst[i].queue
<1>1. Before /\ RuntimeTypeOK
  BY HaveBefore DEF IInv
<1>2. UNCHANGED <<submit, traces, result>> /\ evictor.pc = "drain"
  BY DEF Drain
<1>3. Forward
  BY <1>2 DEF Forward
<1>4. i \in Turn /\ inst[i] \in Instances
  BY <1>1 DEF Before
<1>5. CASE UNCHANGED inst /\ evictor' = [evictor EXCEPT !.pc = "settle"]
  <2>1. \A j \in Turn : SamePlace(j)
    BY <1>1, <1>5 DEF SamePlace, Before
  <2>2. evictor'.held = evictor.held /\ evictor'.pc = "settle"
    BY <1>1, <1>5 DEF Before
  <2> QED  BY <1>2, <1>3, <2>1, <2>2, PlacesSame
<1>6. CASE q # <<>> /\ Requeued(i, Tail(q)) /\ ((Head(q) = NULL /\ evictor' = evictor) \/
             (Head(q) # NULL /\ evictor' = [evictor EXCEPT !.held = Append(evictor.held, Head(q))]))
  <2>1. q \in Seq(Turn \union {NULL}) /\ Distinct(q) /\ queued[i] = Elems(q)
    BY <1>1, <1>4, Zenon DEF Before, Instances, NoRepeats, queued
  <2>2. /\ Elems(Tail(q)) = Elems(q) \ {Head(q)} /\ Distinct(Tail(q))
        /\ Head(q) # NULL => Head(q) \in Elems(q)
    <3> DEFINE S == Turn \union {NULL}
    <3>1. q \in Seq(S) /\ q # <<>>
      BY <1>6, <2>1
    <3> HIDE DEF S
    <3> QED  BY <2>1, <3>1, Taken, Zenon
  <2>3. /\ inst' \in [Turn -> Instances] /\ Changed(i) /\ inst'[i].queue = Tail(q)
        /\ inst'[i].turn = inst[i].turn /\ inst'[i].pc = inst[i].pc /\ inst'[i].status = inst[i].status
    BY <1>6 DEF Requeued
  <2>4. CASE Head(q) = NULL /\ evictor' = evictor
    <3>1. Elems(Tail(q)) = Elems(q)
      BY <2>2, <2>4 DEF Elems
    <3>2. SamePlace(i)
      BY <1>4, <2>2, <2>3, <3>1 DEF SamePlace
    <3>3. \A j \in Turn \ {i} : SamePlace(j)
      BY <1>1, <2>3 DEF SamePlace, Changed, Before
    <3> QED  BY <1>2, <1>3, <2>4, <3>2, <3>3, PlacesSame, Zenon
  <2>5. CASE Head(q) # NULL /\ evictor' = [evictor EXCEPT !.held = Append(evictor.held, Head(q))]
    <3> DEFINE h == Head(q)
    <3>1. /\ h \in queued[i] /\ h \in Turn /\ Elems(Tail(q)) = queued[i] \ {h}
      BY <1>1, <1>4, <2>1, <2>2, <2>5 DEF Before
    <3> HIDE DEF h
    <3>2. h \notin taken /\ h # NULL
      BY <1>1, <1>4, <3>1 DEF Before, Apart
    <3>3. evictor'.held = Append(evictor.held, h) /\ evictor'.pc = "drain"
      BY <1>1, <1>2, <2>5 DEF Before, h
    <3>4. taken' = taken \union {h} /\ Distinct(evictor'.held) /\ Retiring = {} /\ Retiring' = {}
      <4>1. evictor.held \in Seq(Turn) /\ Distinct(evictor.held) /\ taken = Elems(evictor.held)
        BY <1>1 DEF Before, NoRepeats, taken
      <4>2. /\ Elems(Append(evictor.held, h)) = Elems(evictor.held) \union ({h} \ {NULL})
            /\ Distinct(Append(evictor.held, h))
        BY <3>1, <3>2, <4>1, Put
      <4>3. {h} \ {NULL} = {h}
        BY <3>2
      <4>4. taken' = Elems(Append(evictor.held, h))
        BY <3>3 DEF taken
      <4> QED  BY <1>2, <3>3, <4>1, <4>2, <4>3, <4>4, Zenon DEF Retiring
    <3>5. /\ queued' = [queued EXCEPT ![i] = Elems(inst'[i].queue)]
          /\ carried' = [carried EXCEPT ![i] = inst'[i].turn]
          /\ finishing' = IF inst'[i].pc = "finish" THEN finishing \union {i} ELSE finishing \ {i}
          /\ \A j \in Turn \ {i} : StatusOK(j)' /\ Distinct(inst'[j].queue)
      BY <1>1, <1>4, <2>3, OneChanged, Zenon
    <3>6. carried' = carried /\ finishing' = finishing
      <4>1. carried[i] = inst[i].turn /\ (i \in finishing) = (inst[i].pc = "finish")
        BY <1>4 DEF carried, finishing
      <4>2. carried' = [carried EXCEPT ![i] = carried[i]]
        BY <2>3, <3>5, <4>1
      <4> QED  BY <1>1, <2>3, <3>5, <4>1, <4>2 DEF Before
    <3>7. queued' = [queued EXCEPT ![i] = queued[i] \ {h}]
      BY <2>3, <3>1, <3>5, Zenon
    <3>8. StatusOK(i)' /\ Distinct(inst'[i].queue)
      BY <1>1, <1>4, <2>2, <2>3 DEF StatusOK, Before
    <3>9. Apart'
      <4>1. ASSUME NEW j \in Turn
            PROVE  /\ carried'[j] \notin taken' /\ queued'[j] \intersect taken' = {}
                   /\ \A k \in Turn :
                        /\ carried'[j] \notin queued'[k]
                        /\ j # k => /\ queued'[j] \intersect queued'[k] = {}
                                    /\ carried'[j] # NULL => carried'[j] # carried'[k]
        BY <1>1, <1>4, <3>1, <3>4, <3>6, <3>7 DEF Apart, Before
      <4> QED  BY <4>1, Zenon DEF Apart
    <3>10. \A u \in Turn : NotYetEntered(u)'
      BY <1>1, <1>2 DEF Before, NotYetEntered
    <3>11. PlacesOK'
      <4>1. ASSUME NEW j \in Turn
            PROVE  /\ \A u \in queued'[j] : submit'[u] \in {"returned", "late"} /\ u \in traces' /\ result'[u] = NULL
                   /\ carried'[j] # NULL =>
                        /\ submit'[carried'[j]] \in {"returned", "late"} /\ carried'[j] \in traces'
                        /\ (result'[carried'[j]] # NULL) = (j \in finishing')
        BY <1>1, <1>2, <1>4, <3>6, <3>7 DEF Before, PlacesOK, Entered
      <4>2. \A u \in taken' : /\ submit'[u] \in {"returned", "late"} /\ u \in traces'
                              /\ (result'[u] # NULL) = (u \in Retiring')
        BY <1>1, <1>2, <1>4, <3>1, <3>4 DEF Before, PlacesOK, Entered
      <4> QED  BY <4>1, <4>2, Zenon DEF PlacesOK, Entered
    <3> QED  BY <1>1, <1>4, <3>4, <3>5, <3>8, <3>9, <3>10, <3>11, PlaceParts, Zenon
  <2> QED  BY <1>6, <2>4, <2>5
<1> QED  BY <1>0, <1>5, <1>6, DrainFacts

\* _evict_agent then fails a turn it has taken, and takes it off the table.
LEMMA SettlePlaces ==
  ASSUME RuntimeAssumption, IInv, (Settle /\ evictor.held # <<>>) \/ Retire
  PROVE  PlaceInv'
<1> DEFINE h == Head(evictor.held)
<1>1. Before /\ (evictor.pc = "retire" => evictor.held # <<>>)
  BY HaveBefore, Zenon DEF IInv, EvictorOK
<1>2. evictor.held # <<>> /\ UNCHANGED <<inst, submit>>
  BY <1>1 DEF Settle, Retire
<1>3. /\ evictor.held \in Seq(Turn) /\ Distinct(evictor.held) /\ taken = Elems(evictor.held)
      /\ h \in Turn /\ h \in taken /\ h # NULL
      /\ Elems(Tail(evictor.held)) = taken \ {h} /\ Distinct(Tail(evictor.held))
  <2>1. evictor.held \in Seq(Turn) /\ Distinct(evictor.held) /\ taken = Elems(evictor.held)
    BY <1>1 DEF Before, NoRepeats, taken
  <2>2. /\ h \in Turn /\ Elems(Tail(evictor.held)) = Elems(evictor.held) \ {h}
        /\ h # NULL => h \in Elems(evictor.held)
        /\ Distinct(Tail(evictor.held))
    BY <1>2, <2>1, Taken, Zenon
  <2> QED  BY <1>1, <2>1, <2>2 DEF Before
<1>4. /\ queued' = queued /\ carried' = carried /\ finishing' = finishing
      /\ \A i \in Turn : StatusOK(i)' /\ Distinct(inst'[i].queue)
  BY <1>1, <1>2, Zenon DEF queued, carried, finishing, Before, StatusOK, NoRepeats
<1>5. \A j \in Turn : h \notin queued[j] /\ carried[j] # h
  BY <1>1, <1>3 DEF Before, Apart
<1>6. Entered(h)
  BY <1>1, <1>3 DEF Before, PlacesOK
<1>7. \/ /\ taken' = taken /\ Distinct(evictor'.held) /\ Retiring = {} /\ Retiring' = {h}
         /\ traces' = traces /\ result' = [result EXCEPT ![h] = "evicted"]
      \/ /\ taken' = taken \ {h} /\ Distinct(evictor'.held) /\ Retiring = {h} /\ Retiring' = {}
         /\ traces' = traces \ {h} /\ result' = result
  <2>1. CASE Settle
    <3>1. /\ evictor.pc = "settle" /\ evictor' = [evictor EXCEPT !.pc = "retire"]
          /\ traces' = traces /\ result' = [result EXCEPT ![h] = "evicted"]
      BY <1>2, <2>1 DEF Settle
    <3>2. evictor'.pc = "retire" /\ evictor'.held = evictor.held
      BY <1>1, <3>1 DEF Before
    <3> QED  BY <1>3, <3>1, <3>2 DEF taken, Retiring
  <2>2. CASE Retire
    <3>1. /\ evictor.pc = "retire"
          /\ evictor' = [evictor EXCEPT !.pc = "settle", !.held = Tail(evictor.held)]
          /\ traces' = traces \ {h} /\ result' = result
      BY <2>2 DEF Retire
    <3>2. evictor'.pc = "settle" /\ evictor'.held = Tail(evictor.held)
      BY <1>1, <3>1 DEF Before
    <3>3. taken' = Elems(Tail(evictor.held))
      BY <3>2 DEF taken
    <3> QED  BY <1>3, <3>1, <3>2, <3>3 DEF Retiring
  <2> QED  BY <2>1, <2>2, Zenon
<1> HIDE DEF h
<1>8. Distinct(evictor'.held) /\ taken' \subseteq taken
  BY <1>7
<1>9. Apart'
  BY <1>1, <1>4, <1>8, Zenon DEF Apart, Before
<1>10. \A u \in Turn : NotYetEntered(u)'
  BY <1>1, <1>2, <1>6, <1>7 DEF Before, NotYetEntered, Entered
<1>11. PlacesOK'
  <2>1. ASSUME NEW j \in Turn
        PROVE  /\ \A u \in queued'[j] : submit'[u] \in {"returned", "late"} /\ u \in traces' /\ result'[u] = NULL
               /\ carried'[j] # NULL =>
                    /\ submit'[carried'[j]] \in {"returned", "late"} /\ carried'[j] \in traces'
                    /\ (result'[carried'[j]] # NULL) = (j \in finishing')
    BY <1>1, <1>2, <1>4, <1>5, <1>7 DEF Before, PlacesOK, Entered
  <2>2. ASSUME NEW u \in taken'
        PROVE  /\ submit'[u] \in {"returned", "late"} /\ u \in traces'
               /\ (result'[u] # NULL) = (u \in Retiring')
    <3>1. u \in taken /\ u \in Turn
      BY <1>1, <1>8, <2>2 DEF Before
    <3>2. "evicted" # NULL
      BY <1>1 DEF Before, Outcomes
    <3> QED  BY <1>1, <1>2, <1>7, <2>2, <3>1, <3>2 DEF Before, PlacesOK, Entered
  <2> QED  BY <2>1, <2>2, Zenon DEF PlacesOK, Entered
<1> QED  BY <1>4, <1>8, <1>9, <1>10, <1>11, Zenon DEF PlaceInv, NoRepeats

\* Every step keeps each turn in one place.
LEMMA NextPlaces ==
  ASSUME RuntimeAssumption, IInv, [RuntimeNext]_vars
  PROVE  PlaceInv'
<1> DEFINE Good == PlaceInv'
<1> SUFFICES Good
  OBVIOUS
<1>1. Before /\ RuntimeTypeOK
  BY HaveBefore DEF IInv
<1>2. UNCHANGED inst => \A i \in Turn : SamePlace(i)
  BY <1>1 DEF Before, SamePlace
<1>3. UNCHANGED submit => Forward
  BY DEF Forward
<1>4. ASSUME \A i \in Turn : SamePlace(i), Forward, UNCHANGED <<traces, result, evictor>> PROVE Good
  BY <1>4, PlacesSame
<1>5. ASSUME NEW t \in Turn, SubmitStep(t) PROVE Good
  <2>1. CASE check(t)
    <3>1. /\ submit[t] = "new" /\ submit' = [submit EXCEPT ![t] = IF accepting THEN "checked" ELSE "refused"]
          /\ UNCHANGED <<inst, traces, result, evictor>>
      BY <2>1 DEF check
    <3>2. Forward
      BY <1>1, <3>1 DEF Before, Forward, Early
    <3> QED  BY <1>2, <1>4, <3>1, <3>2
  <2>2. CASE get_or_create_agent(t)
    <3>1. /\ submit[t] = "checked" /\ submit' = [submit EXCEPT ![t] = "created"]
          /\ UNCHANGED <<traces, result, evictor>>
      BY <2>2, Zenon DEF get_or_create_agent
    <3>2. Forward
      BY <1>1, <3>1 DEF Before, Forward, Early
    <3>3. \A i \in Turn : SamePlace(i)
      BY <2>2, CreateSame
    <3> QED  BY <1>4, <3>1, <3>2, <3>3
  <2> QED  BY <1>5, <2>1, <2>2, EnqueuePlaces DEF SubmitStep
<1>6. ASSUME NEW i \in Turn, WorkerStep(i) PROVE Good
  <2>1. CASE Get(i)
    <3>1. UNCHANGED <<submit, evictor, traces, result>>
      BY <2>1 DEF Get, Works
    <3>2. /\ inst[i].pc \in {"get", "drain"} /\ inst[i].turn = NULL
          /\ inst' \in [Turn -> Instances] /\ Changed(i)
      BY <1>1, <2>1, GetFacts, Zenon
    <3>3. Picked(i)
      BY <1>1, <2>1, GetFacts, Zenon DEF Picked
    <3> QED  BY <3>1, <3>2, <3>3, PickPlaces, Zenon
  <2>2. CASE acquire(i) \/ execute(i) \/ _complete_handle(i)
    BY <2>2, KeepPlaces
  <2>3. CASE _finish_turn(i)
    BY <2>3, FinishPlaces
  <2>4. CASE _cancel_shutdown_queue(i)
    <3>1. UNCHANGED <<submit, evictor, traces, result>>
      BY <2>4 DEF _cancel_shutdown_queue, Works
    <3>2. /\ inst[i].pc \in {"get", "drain"} /\ inst[i].turn = NULL
          /\ inst' \in [Turn -> Instances] /\ Changed(i)
      BY <1>1, <2>4, LeftoverFacts
    <3>3. Picked(i)
      BY <1>1, <2>4, LeftoverFacts, Zenon DEF Picked
    <3> QED  BY <3>1, <3>2, <3>3, PickPlaces, Zenon
  <2> QED  BY <1>6, <2>1, <2>2, <2>3, <2>4 DEF WorkerStep
<1>7. ASSUME NEW i \in Turn, cancel_turn(i) \/ _sweep_once(i) \/ evict(i) PROVE Good
  <2>1. CASE cancel_turn(i)
    BY <1>2, <1>3, <1>4, <2>1 DEF cancel_turn
  <2>2. CASE _sweep_once(i)
    <3>1. UNCHANGED <<traces, result, submit, evictor>>
      BY <2>2 DEF _sweep_once
    <3>2. \A j \in Turn : SamePlace(j)
      BY <2>2, StopSame, Zenon
    <3> QED  BY <1>3, <1>4, <3>1, <3>2
  <2>3. CASE evict(i)
    <3>1. /\ UNCHANGED <<inst, traces, result, submit>> /\ evictor = Resting
          /\ evictor' = [pc |-> "drain", inst |-> i, held |-> <<>>]
      BY <2>3 DEF evict
    <3>2. evictor.held = evictor'.held /\ evictor.pc # "retire" /\ evictor'.pc # "retire"
      BY <3>1 DEF Resting
    <3> QED  BY <1>2, <1>3, <3>1, <3>2, PlacesSame, Zenon
  <2> QED  BY <1>7, <2>1, <2>2, <2>3
<1>8. CASE EvictorStep
  <2>1. CASE Settle /\ evictor.held = <<>>
    <3>1. UNCHANGED <<traces, result, submit>> /\ evictor' = Resting /\ evictor.pc = "settle"
      BY <2>1 DEF Settle
    <3>2. evictor'.held = evictor.held /\ evictor'.pc # "retire"
      BY <2>1, <3>1 DEF Resting
    <3>3. \A j \in Turn : SamePlace(j)
      BY <2>1, StopSame
    <3> QED  BY <1>3, <3>1, <3>2, <3>3, PlacesSame
  <2> QED  BY <1>8, <2>1, DrainPlaces, SettlePlaces, Zenon DEF EvictorStep
<1>9. CASE StopWorkers
  <2>1. UNCHANGED <<traces, result, submit, evictor>>
    BY <1>9, Zenon DEF StopWorkers
  <2>2. \A j \in Turn : SamePlace(j)
    BY <1>9, StopSame, Zenon
  <2> QED  BY <1>3, <1>4, <2>1, <2>2
<1>10. CASE kill_switch \/ CancelAll \/ shutdown \/ UNCHANGED vars
  BY <1>2, <1>3, <1>4, <1>10 DEF kill_switch, CancelAll, shutdown, vars
<1> HIDE DEF Good
<1> QED  BY <1>5, <1>6, <1>7, <1>8, <1>9, <1>10 DEF RuntimeNext

-----------------------------------------------------------------------------
(* The manager implements TurnService                                      *)

\* The instances that execute their turn, or have executed it.
executing == {i \in Turn : inst[i].pc = "run" \/ inst[i].status = "executed"}
Runs(t) == \E i \in executing : carried[i] = t

\* What stage says of a turn.
LEMMA StageIs ==
  /\ \A t \in Turn :
       stage[t] = IF result[t] # NULL THEN "ended" ELSE IF Runs(t) THEN "running"
                  ELSE IF submit[t] \in {"returned", "late"} THEN "accepted" ELSE "unknown"
  /\ DOMAIN stage = Turn /\ stage = [t \in Turn |-> stage[t]]
<1>1. ASSUME NEW t \in Turn
      PROVE  Runs(t) = \E i \in Turn : inst[i].turn = t /\ (At(i, "run") \/ inst[i].status = "executed")
  BY DEF Runs, executing, carried, At
<1> QED  BY <1>1, Zenon DEF stage

\* And what it says after a step.
LEMMA StageWillBe ==
  /\ \A t \in Turn :
       stage'[t] = IF result'[t] # NULL THEN "ended" ELSE IF Runs(t)' THEN "running"
                   ELSE IF submit'[t] \in {"returned", "late"} THEN "accepted" ELSE "unknown"
  /\ DOMAIN stage' = Turn /\ stage' = [t \in Turn |-> stage'[t]]
<1>1. ASSUME NEW t \in Turn
      PROVE  Runs(t)' = \E i \in Turn : inst'[i].turn = t /\ (At(i, "run")' \/ inst'[i].status = "executed")
  BY DEF Runs, executing, carried, At
<1> QED  BY <1>1, Zenon DEF stage

\* A step after which each turn has the stage it had.
LEMMA StageSame ==
  ASSUME \A t \in Turn : /\ (result'[t] = NULL) = (result[t] = NULL)
                         /\ result[t] = NULL => Runs(t)' = Runs(t)
                         /\ (submit'[t] \in {"returned", "late"}) = (submit[t] \in {"returned", "late"})
  PROVE  stage' = stage
<1>1. \A t \in Turn : stage'[t] = stage[t]
  BY StageIs, StageWillBe
<1> QED  BY <1>1, StageIs, StageWillBe

\* The stage of one turn changes, the others' stay.
LEMMA StageOf ==
  ASSUME NEW t \in Turn, NEW v, stage'[t] = v,
         \A u \in Turn \ {t} :
            /\ (result'[u] = NULL) = (result[u] = NULL)
            /\ result[u] = NULL => Runs(u)' = Runs(u)
            /\ (submit'[u] \in {"returned", "late"}) = (submit[u] \in {"returned", "late"})
  PROVE  stage' = [stage EXCEPT ![t] = v]
<1>1. \A u \in Turn \ {t} : stage'[u] = stage[u]
  BY StageIs, StageWillBe
<1> QED  BY <1>1, StageIs, StageWillBe

\* Which turns are executed changes only with what an instance carries and does.
LEMMA RunsOne ==
  ASSUME Before, NEW i \in Turn, inst' \in [Turn -> Instances], Changed(i)
  PROVE  \A t \in Turn :
           /\ carried[i] # t /\ carried'[i] # t => Runs(t)' = Runs(t)
           /\ carried[i] = t => (Runs(t) <=> i \in executing)
           /\ carried'[i] = t /\ (\A j \in Turn \ {i} : carried[j] # t) =>
                (Runs(t)' <=> i \in executing')
           /\ carried'[i] # t /\ (\A j \in Turn \ {i} : carried[j] # t) => ~Runs(t)'
<1>1. \A j \in Turn \ {i} : carried'[j] = carried[j] /\ (j \in executing') = (j \in executing)
  BY DEF Changed, carried, executing
<1>2. executing \subseteq Turn /\ executing' \subseteq Turn
  BY DEF executing
<1>3. \A j \in Turn : i # j /\ carried[i] # NULL => carried[i] # carried[j]
  BY DEF Before, Apart
<1> SUFFICES ASSUME NEW t \in Turn
             PROVE  /\ carried[i] # t /\ carried'[i] # t => Runs(t)' = Runs(t)
                    /\ carried[i] = t => (Runs(t) <=> i \in executing)
                    /\ carried'[i] = t /\ (\A j \in Turn \ {i} : carried[j] # t) =>
                         (Runs(t)' <=> i \in executing')
                    /\ carried'[i] # t /\ (\A j \in Turn \ {i} : carried[j] # t) => ~Runs(t)'
  BY Zenon
<1>4. NULL # t
  BY DEF Before
<1>5. carried[i] # t /\ carried'[i] # t => Runs(t)' = Runs(t)
  BY <1>1, <1>2 DEF Runs
<1>6. ASSUME carried[i] = t PROVE Runs(t) <=> i \in executing
  <2>1. i \in executing => Runs(t)
    BY <1>6 DEF Runs
  <2>2. ASSUME Runs(t) PROVE i \in executing
    <3>1. PICK j \in executing : carried[j] = t
      BY <2>2 DEF Runs
    <3>2. j = i
      BY <1>2, <1>3, <1>4, <1>6, <3>1
    <3> QED  BY <3>1, <3>2
  <2> QED  BY <2>1, <2>2
<1>7. ASSUME carried'[i] = t, \A j \in Turn \ {i} : carried[j] # t
      PROVE  Runs(t)' <=> i \in executing'
  <2>1. i \in executing' => Runs(t)'
    BY <1>7 DEF Runs
  <2>2. ASSUME Runs(t)' PROVE i \in executing'
    <3>1. PICK j \in executing' : carried'[j] = t
      BY <2>2 DEF Runs
    <3>2. j = i
      BY <1>1, <1>2, <1>7, <3>1
    <3> QED  BY <3>1, <3>2
  <2> QED  BY <2>1, <2>2
<1>8. carried'[i] # t /\ (\A j \in Turn \ {i} : carried[j] # t) => ~Runs(t)'
  BY <1>1, <1>2 DEF Runs
<1> QED  BY <1>5, <1>6, <1>7, <1>8, Zenon

\* A step that leaves every turn where it is, is none of the service.
LEMMA SameStutters ==
  ASSUME \A i \in Turn : SamePlace(i), Forward, UNCHANGED <<traces, result>>
  PROVE  UNCHANGED Service!service
<1>1. carried' = carried
  BY SameMeans, Zenon
<1>2. executing' = executing
  BY DEF SamePlace, executing
<1>3. \A t \in Turn : Runs(t)' = Runs(t)
  BY <1>1, <1>2 DEF Runs
<1>4. \A t \in Turn : (submit'[t] \in {"returned", "late"}) = (submit[t] \in {"returned", "late"})
  BY DEF Forward, Early
<1>5. stage' = stage
  BY <1>3, <1>4, StageSame, Zenon
<1> QED  BY <1>5 DEF Service!service

\* submit_turn: the turn is accepted, or lost after it was entered in the table.
LEMMA EnqueueRefines ==
  ASSUME RuntimeAssumption, IInv, NEW t \in Turn, enqueue(t)
  PROVE  Service!accept(t) \/ Service!lose(t)
<1>1. Before /\ RuntimeTypeOK /\ hot \subseteq Turn
  BY HaveBefore, Zenon DEF IInv, RuntimeTypeOK
<1>2. submit[t] = "created" /\ traces' = traces \union {t} /\ result' = result
  BY DEF enqueue
<1>3. t \notin traces /\ result[t] = NULL
  BY <1>1, <1>2 DEF Before, NotYetEntered
<1>4. \A i \in Turn : carried[i] # t
  BY <1>1, <1>3 DEF Before, PlacesOK, Entered
<1>5. ~Runs(t) /\ stage[t] = "unknown"
  <2>1. ~Runs(t)
    BY <1>4, Zenon DEF Runs, executing
  <2> QED  BY <1>2, <1>3, <2>1, StageIs
<1>6. carried' = carried /\ executing' = executing
  <2>1. CASE UNCHANGED inst
    BY <2>1 DEF carried, executing
  <2>2. ASSUME NEW i \in hot, Requeued(i, Append(inst[i].queue, t))
        PROVE  carried' = carried /\ executing' = executing
    BY <1>1, <2>2, Zenon DEF Requeued, Changed, carried, executing
  <2> QED  BY <1>1, <2>1, <2>2, EnqueueFacts
<1>7. \A u \in Turn : Runs(u)' = Runs(u)
  BY <1>6 DEF Runs
<1>8. CASE submit' = [submit EXCEPT ![t] = "lost"]
  <2>1. \A u \in Turn : (submit'[u] \in {"returned", "late"}) = (submit[u] \in {"returned", "late"})
    BY <1>1, <1>2, <1>8 DEF Before
  <2>2. stage' = stage
    BY <1>2, <1>7, <2>1, StageSame
  <2> QED  BY <1>2, <1>3, <1>5, <2>2, Zenon DEF Service!lose
<1>9. CASE \/ submit' = [submit EXCEPT ![t] = "late"]
           \/ submit' = [submit EXCEPT ![t] = "returned"]
  <2>1. /\ submit'[t] \in {"returned", "late"}
        /\ \A u \in Turn \ {t} : submit'[u] = submit[u]
    BY <1>1, <1>9 DEF Before
  <2>2. ~Runs(t)'
    BY <1>5, <1>7
  <2>3. stage'[t] = "accepted"
    BY <1>2, <1>3, <2>1, <2>2, StageWillBe, Zenon
  <2>4. stage' = [stage EXCEPT ![t] = "accepted"]
    BY <1>2, <1>7, <2>1, <2>3, StageOf, Zenon
  <2> QED  BY <1>2, <1>3, <1>5, <2>4, Zenon DEF Service!accept
<1> QED  BY <1>1, <1>8, <1>9, EnqueueFacts, Zenon

\* _worker_loop: taking a turn from the queue is no step of the service.
LEMMA PickStutters ==
  ASSUME RuntimeAssumption, IInv, NEW i \in Turn, UNCHANGED <<submit, traces, result>>,
         inst[i].turn = NULL, inst[i].pc \in {"get", "drain"},
         inst' \in [Turn -> Instances], Changed(i),
         Picked(i)
  PROVE  UNCHANGED Service!service
<1>1. Before /\ inst[i].status = NULL
  BY HaveBefore, Zenon DEF Before, StatusOK
<1>2. /\ i \notin executing /\ i \notin executing' /\ carried[i] = NULL /\ carried'[i] = inst'[i].turn
  BY <1>1, Zenon DEF executing, carried, Before, Outcomes, Picked
<1>3. ASSUME NEW t \in Turn PROVE Runs(t)' = Runs(t)
  <2>1. CASE carried'[i] # t
    <3>1. carried[i] # t
      BY <1>2 DEF RuntimeAssumption
    <3> QED  BY <1>1, <2>1, <3>1, RunsOne, Zenon
  <2>2. CASE carried'[i] = t
    <3>1. inst[i].queue # <<>> /\ t = Head(inst[i].queue) /\ t # NULL
      BY <1>2, <2>2, Zenon DEF RuntimeAssumption, Picked
    <3>2. t \in queued[i]
      <4> DEFINE q == inst[i].queue
                 S == Turn \union {NULL}
      <4>1. q \in Seq(S) /\ q # <<>> /\ Distinct(q) /\ Head(q) # NULL /\ queued[i] = Elems(q)
        BY <1>1, <3>1, Zenon DEF Before, Instances, NoRepeats, queued
      <4>2. Head(q) = t
        BY <3>1, Zenon
      <4> HIDE DEF q, S
      <4> QED  BY <4>1, <4>2, Taken
    <3>3. \A j \in Turn : carried[j] # t
      <4>1. Apart
        BY <1>1, Zenon DEF Before
      <4> QED  BY <3>2, <4>1, Zenon DEF Apart
    <3>4. ~Runs(t)
      BY <3>3 DEF Runs, executing
    <3>5. Runs(t)' <=> i \in executing'
      BY <1>1, <2>2, <3>3, RunsOne, Zenon
    <3>6. Runs(t) \in BOOLEAN /\ Runs(t)' \in BOOLEAN
      BY DEF Runs
    <3> QED  BY <1>2, <3>4, <3>5, <3>6, Zenon
  <2> QED  BY <2>1, <2>2
<1>4. stage' = stage
  BY <1>3, StageSame, Zenon
<1> QED  BY <1>4 DEF Service!service

\* _ConcurrencyLimiter.acquire and the executor: the turn starts to run when the
\* limiter lets it; neither its cancellation nor its end is a step of the service yet.
LEMMA RunRefines ==
  ASSUME RuntimeAssumption, IInv, NEW i \in Turn, acquire(i) \/ execute(i)
  PROVE  Service!execute(carried[i]) \/ UNCHANGED Service!service
<1> DEFINE t == carried[i]
<1>1. /\ Before /\ UNCHANGED <<submit, traces>> /\ carried' = carried /\ t \in Turn /\ i \notin finishing
  BY KeepFacts, Zenon
<1>2. UNCHANGED result
  BY DEF acquire, execute
<1>3. /\ inst' \in [Turn -> Instances] /\ Changed(i)
      /\ \/ inst[i].pc = "limiter" /\ inst'[i].pc = "complete" /\ inst'[i].status = "cancelled"
         \/ inst[i].pc = "limiter" /\ inst'[i].pc = "run" /\ inst'[i].status = inst[i].status
         \/ inst[i].pc = "run" /\ inst'[i].pc = "complete" /\ inst'[i].status = "executed"
  <2>1. At(i, "limiter") \/ At(i, "run")
    BY Zenon DEF acquire, execute
  <2>2. inst[i].pc # "complete"
    BY <2>1 DEF At
  <2> QED  BY <2>2, WorkFacts, Zenon DEF IInv
<1>4. \A u \in Turn : /\ u # t => Runs(u)' = Runs(u)
                      /\ u = t => (Runs(u) <=> i \in executing) /\ (Runs(u)' <=> i \in executing')
  <2>1. t # NULL
    BY <1>1 DEF RuntimeAssumption
  <2>2. \A j \in Turn \ {i} : carried[j] # t
    BY <1>1, <2>1, Zenon DEF Before, Apart
  <2>3. carried'[i] = t
    BY <1>1
  <2>4. ASSUME NEW u \in Turn, u # t PROVE Runs(u)' = Runs(u)
    BY <1>1, <1>3, <2>3, <2>4, RunsOne, Zenon
  <2>5. ASSUME NEW u \in Turn, u = t PROVE Runs(u) <=> i \in executing
    BY <1>1, <1>3, <2>5, RunsOne, Zenon
  <2>6. ASSUME NEW u \in Turn, u = t PROVE Runs(u)' <=> i \in executing'
    BY <1>1, <1>3, <2>2, <2>3, <2>6, RunsOne, Zenon
  <2> QED  BY <2>4, <2>5, <2>6, Zenon
<1>5. \A u \in Turn : Runs(u) \in BOOLEAN /\ Runs(u)' \in BOOLEAN
  BY DEF Runs
<1>6. CASE inst[i].pc = "limiter" /\ inst'[i].pc = "run"
  <2>1. i \notin executing /\ i \in executing'
    BY <1>1, <1>6, Zenon DEF executing, Before, StatusOK, Outcomes
  <2>2. result[t] = NULL /\ Entered(t)
    BY <1>1 DEF Before, PlacesOK
  <2>3. ~Runs(t) /\ Runs(t)'
    BY <1>1, <1>4, <2>1, Zenon
  <2>4. stage[t] = "accepted" /\ stage'[t] = "running"
    BY <1>1, <1>2, <2>2, <2>3, StageIs, StageWillBe, Zenon DEF Entered
  <2>5. stage' = [stage EXCEPT ![t] = "running"]
    BY <1>1, <1>2, <1>4, <2>4, StageOf
  <2> QED  BY <1>1, <1>2, <2>2, <2>4, <2>5 DEF Service!execute, Entered
<1>7. CASE inst'[i].pc = "complete"
  <2>1. (i \in executing') <=> (i \in executing)
    BY <1>1, <1>3, <1>7 DEF executing, Before, StatusOK, Outcomes
  <2>2. \A u \in Turn : Runs(u)' = Runs(u)
    BY <1>1, <1>4, <1>5, <2>1
  <2>3. stage' = stage
    BY <1>1, <1>2, <2>2, StageSame
  <2> QED  BY <1>1, <1>2, <2>3, Zenon DEF Service!service
<1> QED  BY <1>3, <1>6, <1>7, Zenon

\* _complete_handle: a turn that ran ends as executed, another as cancelled.
LEMMA CompleteRefines ==
  ASSUME RuntimeAssumption, IInv, NEW i \in Turn, _complete_handle(i)
  PROVE  Service!settle(carried[i], inst[i].status) /\ carried[i] \in Turn /\ inst[i].status \in Outcomes
<1> DEFINE t == carried[i]
           s == inst[i].status
<1>1. /\ Before /\ UNCHANGED <<submit, traces>> /\ carried' = carried /\ t \in Turn /\ i \notin finishing
      /\ t = inst[i].turn
  BY KeepFacts, Zenon
<1>2. inst[i].pc = "complete" /\ result' = [result EXCEPT ![t] = s]
  BY <1>1 DEF _complete_handle, At
<1>3. inst' \in [Turn -> Instances] /\ Changed(i)
  BY WorkFacts, Zenon DEF IInv
<1>4. s \in Outcomes /\ s # NULL
  BY <1>1, <1>2 DEF Before, StatusOK, Instances
<1>5. \A u \in Turn \ {t} : Runs(u)' = Runs(u) /\ result'[u] = result[u]
  <2>1. \A u \in Turn \ {t} : Runs(u)' = Runs(u)
    BY <1>1, <1>3, RunsOne, Zenon
  <2>2. \A u \in Turn \ {t} : result'[u] = result[u]
    BY <1>1, <1>2, Zenon DEF Before
  <2> QED  BY <2>1, <2>2, Zenon
<1>6. result[t] = NULL /\ Entered(t)
  BY <1>1, Zenon DEF Before, PlacesOK
<1>7. stage'[t] = "ended"
  BY <1>1, <1>2, <1>4, StageWillBe, Zenon DEF Before
<1>8. stage' = [stage EXCEPT ![t] = "ended"]
  BY <1>1, <1>5, <1>7, StageOf, Zenon
<1>9. \/ stage[t] = "accepted" /\ s \in {"evicted", "cancelled"}
      \/ stage[t] = "running" /\ s = "executed"
  <2>1. Runs(t) <=> i \in executing
    BY <1>1, <1>3, RunsOne, Zenon
  <2>2. (i \in executing) <=> (s = "executed")
    BY <1>2 DEF executing
  <2> QED  BY <1>1, <1>4, <1>6, <2>1, <2>2, StageIs, Zenon DEF Entered, Outcomes
<1> QED  BY <1>1, <1>2, <1>4, <1>6, <1>8, <1>9, Zenon DEF Service!settle, Entered

\* _finish_turn: the turn, which has its result, leaves the table.
LEMMA FinishRefines ==
  ASSUME RuntimeAssumption, IInv, NEW i \in Turn, _finish_turn(i)
  PROVE  Service!retire(carried[i]) /\ carried[i] \in Turn
<1> DEFINE t == carried[i]
<1>1. Before /\ RuntimeTypeOK
  BY HaveBefore DEF IInv
<1>2. /\ UNCHANGED <<submit, result>> /\ traces' = traces \ {t}
      /\ inst[i].pc = "finish"
  BY DEF _finish_turn, carried, At
<1>3. /\ inst' \in [Turn -> Instances] /\ Changed(i) /\ carried'[i] = NULL
  BY <1>1, FinishFacts DEF carried
<1>4. t # NULL /\ t \in Turn
  BY <1>1, <1>2, Zenon DEF Before
<1>5. Entered(t) /\ result[t] # NULL
  <2>1. i \in finishing
    BY <1>2 DEF finishing
  <2> QED  BY <1>1, <1>4, <2>1, Zenon DEF Before, PlacesOK
<1>6. \A u \in Turn : u # t => Runs(u)' = Runs(u)
  <2>1. \A u \in Turn : u # NULL
    BY DEF RuntimeAssumption
  <2> QED  BY <1>1, <1>3, <2>1, RunsOne, Zenon
<1>7. stage' = stage /\ stage[t] = "ended"
  BY <1>2, <1>4, <1>5, <1>6, StageSame, StageIs
<1> QED  BY <1>2, <1>4, <1>5, <1>7, Zenon DEF Service!retire, Entered

\* evict: taking a turn from the queue is no step, failing it gives it its result, and
\* then it leaves the table.
LEMMA EvictionRefines ==
  ASSUME RuntimeAssumption, IInv, EvictorStep
  PROVE  \/ UNCHANGED Service!service
         \/ \E t \in Turn : Service!settle(t, "evicted") \/ Service!retire(t)
<1> DEFINE h == Head(evictor.held)
           Good == \/ UNCHANGED Service!service
                   \/ \E t \in Turn : Service!settle(t, "evicted") \/ Service!retire(t)
<1> SUFFICES Good
  OBVIOUS
<1>1. Before /\ (evictor.pc = "retire" => evictor.held # <<>>)
  BY HaveBefore DEF IInv, EvictorOK
<1>2. UNCHANGED submit
  BY DEF EvictorStep, Drain, Settle, Retire
<1>3. Forward
  BY <1>2 DEF Forward
<1>4. CASE Drain
  <2>1. UNCHANGED <<traces, result>>
    BY <1>4 DEF Drain
  <2>2. PICK i \in Turn : i = evictor.inst
    BY <1>4, DrainFacts
  <2>3. carried' = carried /\ executing' = executing
    <3>1. CASE UNCHANGED inst
      BY <3>1, Zenon DEF carried, executing
    <3>2. CASE Requeued(i, Tail(inst[i].queue))
      BY <1>1, <3>2 DEF Requeued, Changed, carried, executing
    <3> QED  BY <1>4, <2>2, <3>1, <3>2, DrainFacts, Zenon
  <2>4. \A t \in Turn : Runs(t)' = Runs(t)
    BY <2>3 DEF Runs
  <2>5. stage' = stage
    BY <1>2, <2>1, <2>4, StageSame
  <2> QED  BY <2>1, <2>5 DEF Service!service
<1>5. CASE Settle /\ evictor.held = <<>>
  <2>1. UNCHANGED <<traces, result>>
    BY <1>5 DEF Settle
  <2>2. \A j \in Turn : SamePlace(j)
    BY <1>5, StopSame
  <2> QED  BY <1>3, <2>1, <2>2, SameStutters
<1>6. CASE (Settle /\ evictor.held # <<>>) \/ Retire
  <2>1. evictor.held # <<>> /\ UNCHANGED inst
    BY <1>1, <1>6 DEF Settle, Retire
  <2>2. h \in Turn /\ h \in taken
    <3>1. evictor.held \in Seq(Turn) /\ Distinct(evictor.held)
      BY <1>1 DEF Before, NoRepeats
    <3>2. h \in Turn /\ (h # NULL => h \in Elems(evictor.held))
      BY <2>1, <3>1, Taken, Zenon
    <3> QED  BY <3>2, Zenon DEF RuntimeAssumption, taken
  <2>3. Entered(h) /\ ~Runs(h) /\ \A u \in Turn : Runs(u)' = Runs(u)
    <3>1. Entered(h) /\ \A j \in Turn : carried[j] # h
      BY <1>1, <2>2, Zenon DEF Before, PlacesOK, Apart
    <3>2. ~Runs(h)
      BY <3>1, Zenon DEF Runs, executing
    <3>3. carried' = carried /\ executing' = executing
      BY <2>1 DEF carried, executing
    <3>4. \A u \in Turn : Runs(u)' = Runs(u)
      BY <3>3 DEF Runs
    <3> QED  BY <3>1, <3>2, <3>4
  <2>4. CASE Settle
    <3>1. evictor.pc = "settle" /\ result' = [result EXCEPT ![h] = "evicted"] /\ UNCHANGED traces
      BY <2>1, <2>4, Zenon DEF Settle
    <3>2. result[h] = NULL
      BY <1>1, <2>2, <3>1 DEF Before, PlacesOK, Retiring
    <3>3. stage[h] = "accepted"
      BY <2>2, <2>3, <3>2, StageIs, Zenon DEF Entered
    <3>4. result'[h] # NULL
      BY <1>1, <2>2, <3>1 DEF Before, Outcomes
    <3>5. stage'[h] = "ended"
      BY <2>2, <3>4, StageWillBe, Zenon
    <3>6. \A u \in Turn \ {h} : result'[u] = result[u]
      BY <1>1, <3>1 DEF Before
    <3>7. stage' = [stage EXCEPT ![h] = "ended"]
      BY <1>2, <2>2, <2>3, <3>5, <3>6, StageOf, Zenon
    <3>8. Service!settle(h, "evicted")
      BY <2>3, <3>1, <3>3, <3>7, Zenon DEF Service!settle, Entered
    <3> QED  BY <2>2, <3>8
  <2>5. CASE Retire
    <3>1. evictor.pc = "retire" /\ traces' = traces \ {h} /\ UNCHANGED result
      BY <2>5, Zenon DEF Retire
    <3>2. result[h] # NULL
      BY <1>1, <2>2, <3>1, Zenon DEF Before, PlacesOK, Retiring
    <3>3. stage[h] = "ended" /\ stage' = stage
      BY <1>2, <2>2, <2>3, <3>1, <3>2, StageIs, StageSame, Zenon
    <3>4. Service!retire(h)
      BY <2>3, <3>1, <3>3, Zenon DEF Service!retire, Entered
    <3> QED  BY <2>2, <3>4
  <2> QED  BY <1>6, <2>4, <2>5
<1> HIDE DEF Good
<1> QED  BY <1>4, <1>5, <1>6 DEF EvictorStep

\* Every step of the manager is one of the service or none.
LEMMA NextRefines ==
  ASSUME RuntimeAssumption, IInv, [RuntimeNext]_vars
  PROVE  [Service!ServiceNext]_(Service!service)
<1> DEFINE Good == Service!ServiceNext \/ UNCHANGED Service!service
<1> SUFFICES Good
  OBVIOUS
<1>1. Before
  BY HaveBefore
<1>2. UNCHANGED inst => \A i \in Turn : SamePlace(i)
  BY <1>1 DEF Before, SamePlace
<1>3. UNCHANGED submit => Forward
  BY DEF Forward
<1>4. ASSUME \A i \in Turn : SamePlace(i), Forward, UNCHANGED <<traces, result>> PROVE Good
  BY <1>4, SameStutters
<1>5. ASSUME NEW t \in Turn, SubmitStep(t) PROVE Good
  <2>1. CASE check(t)
    <3>1. /\ submit[t] = "new" /\ submit' = [submit EXCEPT ![t] = IF accepting THEN "checked" ELSE "refused"]
          /\ UNCHANGED <<inst, traces, result>>
      BY <2>1, Zenon DEF check
    <3>2. Forward
      BY <1>1, <3>1 DEF Before, Forward, Early
    <3> QED  BY <1>2, <1>4, <3>1, <3>2, Zenon
  <2>2. CASE get_or_create_agent(t)
    <3>1. /\ submit[t] = "checked" /\ submit' = [submit EXCEPT ![t] = "created"]
          /\ UNCHANGED <<traces, result>>
      BY <2>2, Zenon DEF get_or_create_agent
    <3>2. Forward
      BY <1>1, <3>1, Zenon DEF Before, Forward, Early
    <3>3. \A i \in Turn : SamePlace(i)
      BY <2>2, CreateSame
    <3> QED  BY <1>4, <3>1, <3>2, <3>3, Zenon
  <2>3. CASE enqueue(t)
    BY <2>3, EnqueueRefines DEF Service!ServiceNext
  <2> QED  BY <1>5, <2>1, <2>2, <2>3 DEF SubmitStep
<1>6. ASSUME NEW i \in Turn, WorkerStep(i) PROVE Good
  <2>1. CASE Get(i)
    <3>1. UNCHANGED <<submit, traces, result>>
      BY <2>1 DEF Get, Works
    <3>2. RuntimeTypeOK
      BY DEF IInv
    <3>3. /\ inst[i].pc \in {"get", "drain"} /\ inst[i].turn = NULL
          /\ inst' \in [Turn -> Instances] /\ Changed(i)
      BY <2>1, <3>2, GetFacts, Zenon
    <3>4. Picked(i)
      BY <2>1, <3>2, GetFacts, Zenon DEF Picked
    <3> QED  BY <3>1, <3>3, <3>4, PickStutters, Zenon
  <2>2. CASE acquire(i) \/ execute(i)
    BY <2>2, RunRefines, KeepFacts, Zenon DEF Service!ServiceNext
  <2>3. CASE _complete_handle(i)
    BY <2>3, CompleteRefines, Zenon DEF Service!ServiceNext, Outcomes
  <2>4. CASE _finish_turn(i)
    BY <2>4, FinishRefines, Zenon DEF Service!ServiceNext
  <2>5. CASE _cancel_shutdown_queue(i)
    <3>1. UNCHANGED <<submit, traces, result>>
      BY <2>5 DEF _cancel_shutdown_queue, Works
    <3>2. RuntimeTypeOK
      BY DEF IInv
    <3>3. /\ inst[i].pc \in {"get", "drain"} /\ inst[i].turn = NULL
          /\ inst' \in [Turn -> Instances] /\ Changed(i)
      BY <2>5, <3>2, LeftoverFacts, Zenon
    <3>4. Picked(i)
      BY <2>5, <3>2, LeftoverFacts, Zenon DEF Picked
    <3> QED  BY <3>1, <3>3, <3>4, PickStutters, Zenon
  <2> QED  BY <1>6, <2>1, <2>2, <2>3, <2>4, <2>5, Zenon DEF WorkerStep
<1>7. ASSUME NEW i \in Turn, cancel_turn(i) \/ _sweep_once(i) \/ evict(i) PROVE Good
  <2>1. CASE cancel_turn(i) \/ evict(i)
    BY <1>2, <1>3, <1>4, <2>1, Zenon DEF cancel_turn, evict
  <2>2. CASE _sweep_once(i)
    <3>1. UNCHANGED <<traces, result, submit>>
      BY <2>2, Zenon DEF _sweep_once
    <3>2. \A j \in Turn : SamePlace(j)
      BY <2>2, StopSame
    <3> QED  BY <1>3, <1>4, <3>1, <3>2
  <2> QED  BY <1>7, <2>1, <2>2, Zenon
<1>8. CASE EvictorStep
  BY <1>8, EvictionRefines DEF Service!ServiceNext
<1>9. CASE StopWorkers
  <2>1. UNCHANGED <<traces, result, submit>>
    BY <1>9, Zenon DEF StopWorkers
  <2>2. \A j \in Turn : SamePlace(j)
    BY <1>9, StopSame
  <2> QED  BY <1>3, <1>4, <2>1, <2>2, Zenon
<1>10. CASE kill_switch \/ CancelAll \/ shutdown \/ UNCHANGED vars
  BY <1>2, <1>3, <1>4, <1>10 DEF kill_switch, CancelAll, shutdown, vars
<1> HIDE DEF Good
<1> QED  BY <1>5, <1>6, <1>7, <1>8, <1>9, <1>10 DEF RuntimeNext
=============================================================================
