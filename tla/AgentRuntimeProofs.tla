------------------------- MODULE AgentRuntimeProofs -------------------------
(***************************************************************************)
(* Theorems about AgentRuntime, for any number of turns and agents and any *)
(* limits: the instances in the manager's table stay within their limit,   *)
(* in one order of use and served, and the manager implements TurnService. *)
(* Here the instances are counted; AgentRuntimePlaces says where turns are. *)
(***************************************************************************)
EXTENDS AgentRuntimePlaces, FiniteSetTheorems

-----------------------------------------------------------------------------
(* The limit                                                               *)

\* A set within a limit that one more has joined is within it again when, if it was too
\* large, at least one has left.
LEMMA WithinAgain ==
  ASSUME NEW S, IsFiniteSet(S), NEW m, NEW N \in Nat, Cardinality(S) <= N, NEW out,
         Cardinality(S \union {m}) > N => out \intersect (S \union {m}) # {}
  PROVE  /\ IsFiniteSet((S \union {m}) \ out)
         /\ Cardinality((S \union {m}) \ out) <= N
<1> DEFINE all == S \union {m}
           rest == all \ out
<1>1. IsFiniteSet(all) /\ Cardinality(all) <= Cardinality(S) + 1
  <2>1. /\ IsFiniteSet(all)
        /\ Cardinality(all) = IF m \in S THEN Cardinality(S) ELSE Cardinality(S) + 1
    BY FS_AddElement, Zenon
  <2>2. Cardinality(S) \in Nat
    BY FS_CardinalityType, Zenon
  <2> HIDE DEF all
  <2> QED  BY <2>1, <2>2
<1>2. rest \subseteq all /\ (Cardinality(all) > N => out \intersect all # {})
  OBVIOUS
<1> SUFFICES IsFiniteSet(rest) /\ Cardinality(rest) <= N
  BY Zenon
<1> HIDE DEF all, rest
<1>3. IsFiniteSet(rest) /\ Cardinality(rest) <= Cardinality(all)
  BY <1>1, <1>2, FS_Subset, Zenon
<1>4. Cardinality(rest) \in Nat /\ Cardinality(all) \in Nat /\ Cardinality(S) \in Nat
  BY <1>1, <1>3, FS_CardinalityType, Zenon
<1>5. CASE Cardinality(all) > N
  <2>1. PICK x \in all : x \in out
    BY <1>2, <1>5
  <2>2. IsFiniteSet(all \ {x}) /\ Cardinality(all \ {x}) = Cardinality(all) - 1
    <3>1. /\ IsFiniteSet(all \ {x})
          /\ Cardinality(all \ {x}) = IF x \in all THEN Cardinality(all) - 1 ELSE Cardinality(all)
      BY <1>1, FS_RemoveElement, Zenon
    <3> QED  BY <2>1, <3>1, Zenon
  <2>3. rest \subseteq all \ {x}
    BY <2>1 DEF rest
  <2>4. Cardinality(rest) <= Cardinality(all \ {x})
    BY <2>2, <2>3, FS_Subset, Zenon
  <2> QED  BY <1>1, <1>3, <1>4, <2>2, <2>4
<1> QED  BY <1>3, <1>4, <1>5

\* _evict_over_limit_locked: after get_or_create_agent the table is within its limit
\* again, for there is at most one instance too many, and a new one is idle itself.
LEMMA CreateWithinLimit ==
  ASSUME RuntimeAssumption, IInv, NEW t \in Turn, get_or_create_agent(t)
  PROVE  IsFiniteSet(hot') /\ Cardinality(hot') <= MaxHot
<1> DEFINE new == Hot(agentOf[t]) = {}
           mine == IF new THEN t ELSE CHOOSE i \in Hot(agentOf[t]) : TRUE
           all == hot \union {mine}
           idle == {i \in all : Idle(i)}
           over == IF Cardinality(all) > MaxHot THEN Cardinality(all) - MaxHot ELSE 0
<1>1. /\ submit[t] = "checked" /\ inst[t] = Unborn
      /\ IsFiniteSet(hot) /\ Cardinality(hot) <= MaxHot
      /\ MaxHot \in Nat \ {0}
  BY Zenon DEF IInv, get_or_create_agent, NotYetCreated, HotIsBounded, RuntimeAssumption
<1>2. IF new THEN mine = t ELSE mine \in hot
  BY DEF Hot
<1>3. PICK out \in SUBSET idle :
        /\ Cardinality(out) = over \/ (Cardinality(out) < over /\ out = idle)
        /\ hot' = all \ out
  BY DEF get_or_create_agent
<1>4. idle \subseteq all /\ (new => t \in idle)
  <2>1. Idle(t)
    BY <1>1, FreshTypes DEF Idle
  <2>2. new => t \in all
    BY <1>2
  <2> HIDE DEF new, mine
  <2> QED  BY <2>1, <2>2
<1> HIDE DEF new, mine, idle
<1>5. ASSUME Cardinality(all) > MaxHot PROVE out \intersect all # {}
  <2>1. Cardinality(hot) \in Nat /\ IsFiniteSet(all) /\ Cardinality(all) \in Nat
    BY <1>1, FS_CardinalityType, FS_AddElement, Zenon
  <2>2. mine \notin hot
    <3> SUFFICES ASSUME mine \in hot PROVE FALSE
      BY Zenon
    <3>1. all = hot
      OBVIOUS
    <3> QED  BY <1>1, <1>5, <2>1, <3>1
  <2>3. idle # {}
    BY <1>2, <1>4, <2>2
  <2>4. over # 0
    BY <1>1, <1>5, <2>1
  <2>5. Cardinality({}) = 0
    BY FS_EmptySet, Zenon
  <2> HIDE DEF all, over
  <2>6. out # {}
    BY <1>3, <2>3, <2>4, <2>5, Zenon
  <2> QED  BY <1>3, <1>4, <2>6
<1>6. MaxHot \in Nat
  BY <1>1
<1> HIDE DEF over
<1> QED  BY <1>1, <1>3, <1>5, <1>6, WithinAgain, Zenon

\* The table of instances is within its limit after every step.
LEMMA NextHot ==
  ASSUME RuntimeAssumption, IInv, [RuntimeNext]_vars
  PROVE  IsFiniteSet(hot)' /\ HotIsBounded' /\ HotIsOrdered'
<1> DEFINE Good == IsFiniteSet(hot') /\ Cardinality(hot') <= MaxHot
<1> SUFFICES Good
  BY NextTable DEF HotIsBounded
<1>1. /\ IsFiniteSet(hot) /\ Cardinality(hot) <= MaxHot /\ MaxHot \in Nat
  BY DEF IInv, HotIsBounded, RuntimeAssumption
<1>2. CASE hot' \subseteq hot
  BY <1>1, <1>2, FS_Subset, FS_CardinalityType
<1>3. ASSUME NEW t \in Turn, get_or_create_agent(t) PROVE Good
  BY <1>3, CreateWithinLimit
<1> HIDE DEF Good
<1>4. ASSUME NEW t \in Turn, SubmitStep(t) \/ cancel_turn(t) PROVE Good
  <2>1. CASE get_or_create_agent(t)
    BY <1>3, <2>1, Zenon
  <2>2. CASE check(t) \/ enqueue(t) \/ cancel_turn(t)
    <3>1. hot' = hot
      BY <2>2, Zenon DEF check, enqueue, cancel_turn
    <3> QED  BY <1>2, <3>1
  <2> QED  BY <1>4, <2>1, <2>2, Zenon DEF SubmitStep
<1>5. ASSUME NEW t \in Turn, WorkerStep(t) PROVE Good
  BY <1>2, <1>5 DEF WorkerStep, Get, acquire, execute, _complete_handle, _finish_turn,
     _cancel_shutdown_queue, Works
<1>6. ASSUME NEW t \in Turn, _sweep_once(t) \/ evict(t) PROVE Good
  BY <1>2, <1>6 DEF _sweep_once, evict
<1>7. CASE EvictorStep
  BY <1>2, <1>7 DEF EvictorStep, Drain, Settle, Retire
<1>8. CASE kill_switch \/ CancelAll \/ shutdown \/ StopWorkers \/ UNCHANGED vars
  BY <1>2, <1>8 DEF kill_switch, CancelAll, shutdown, StopWorkers, vars
<1> QED  BY <1>4, <1>5, <1>6, <1>7, <1>8 DEF RuntimeNext

-----------------------------------------------------------------------------
(* The invariant                                                           *)

\* A manager that has just been made has no instances and no turns.
LEMMA InitIInv ==
  ASSUME RuntimeAssumption, RuntimeInit
  PROVE  IInv
<1>1. /\ hot = {} /\ older = {} /\ inst = [i \in Turn |-> Unborn]
      /\ traces = {} /\ cancelled = {} /\ result = [t \in Turn |-> NULL]
      /\ submit = [t \in Turn |-> "new"] /\ evictor = Resting
      /\ accepting = TRUE /\ stopping = FALSE /\ closed = FALSE
      /\ stopper = [pc |-> "up", traces |-> {}, insts |-> {}] /\ asks = 0
  BY DEF RuntimeInit
<1>2. NULL \notin Turn /\ MaxAsk \in Nat /\ MaxHot \in Nat
  BY DEF RuntimeAssumption
<1>3. /\ Unborn.queue = <<>> /\ Unborn.pc = "none" /\ Unborn.turn = NULL /\ Unborn.status = NULL
      /\ Unborn \in Instances
  BY EmptyQueue, FreshTypes DEF Instances, PCs
<1>4. evictor.pc = "rest" /\ evictor.inst = NULL /\ evictor.held = <<>>
  BY <1>1 DEF Resting
<1>5. RuntimeTypeOK
  <2>1. /\ inst \in [Turn -> Instances]
        /\ \A i \in Turn : (inst[i].turn = NULL) = (inst[i].pc \in {"none", "get", "drain", "dead"})
    BY <1>1, <1>3
  <2>2. evictor \in [pc : {"rest", "drain", "settle", "retire"}, inst : Turn \union {NULL},
                     held : Seq(Turn)]
    BY <1>1, EmptyQueue DEF Resting
  <2>3. stopper \in [pc : {"up", "killing", "killed", "down", "over"}, traces : SUBSET Turn,
                     insts : SUBSET Turn]
    BY <1>1
  <2>4. /\ hot \subseteq Turn /\ older \subseteq hot \X hot /\ traces \subseteq Turn
        /\ cancelled \subseteq Turn /\ result \in [Turn -> Outcomes \union {NULL}]
        /\ submit \in [Turn -> {"new", "checked", "created", "returned", "late", "lost", "refused"}]
    BY <1>1
  <2>5. asks \in 0..MaxAsk
    BY <1>1, <1>2
  <2>6. accepting \in BOOLEAN /\ stopping \in BOOLEAN /\ closed \in BOOLEAN
    BY <1>1, Zenon
  <2> QED  BY <2>1, <2>2, <2>3, <2>4, <2>5, <2>6 DEF RuntimeTypeOK, Instances
<1>6. IsFiniteSet(hot) /\ HotIsBounded /\ HotIsOrdered
  BY <1>1, <1>2, FS_EmptySet DEF HotIsBounded, HotIsOrdered
<1>7. HotIsServed /\ HotGoesOn
  BY <1>1 DEF HotIsServed, HotGoesOn
<1>8. \A t \in Turn : NotYetCreated(t) /\ NotYetEntered(t)
  BY <1>1, <1>2, <1>4 DEF NotYetCreated, NotYetEntered
<1>9. \A i \in Turn : StatusOK(i)
  BY <1>1, <1>3 DEF StatusOK
<1>10. EvictorOK
  BY <1>1, <1>4 DEF EvictorOK
<1>11. taken = {} /\ \A i \in Turn : queued[i] = {} /\ carried[i] = NULL /\ Distinct(inst[i].queue)
  BY <1>1, <1>3, <1>4, EmptyQueue DEF taken, queued, carried
<1>12. NoRepeats
  BY <1>4, <1>11, EmptyQueue DEF NoRepeats
<1>13. Apart /\ PlacesOK
  BY <1>11 DEF Apart, PlacesOK
<1> QED  BY <1>5, <1>6, <1>7, <1>8, <1>9, <1>10, <1>12, <1>13 DEF IInv

\* Every step of the manager keeps the invariant.
LEMMA NextIInv ==
  ASSUME RuntimeAssumption, IInv, [RuntimeNext]_vars
  PROVE  IInv'
<1>1. RuntimeTypeOK'
  BY NextType
<1>2. IsFiniteSet(hot)' /\ HotIsBounded' /\ HotIsOrdered'
  BY NextHot
<1>3. HotIsServed' /\ HotGoesOn'
  BY NextServed
<1>4. \A t \in Turn : NotYetCreated(t)'
  BY NextNotYetCreated
<1>5. EvictorOK'
  BY NextEvictorOK
<1>6. /\ \A i \in Turn : StatusOK(i)'
      /\ NoRepeats' /\ Apart' /\ PlacesOK'
      /\ \A t \in Turn : NotYetEntered(t)'
  BY NextPlaces DEF PlaceInv
<1> QED  BY <1>1, <1>2, <1>3, <1>4, <1>5, <1>6 DEF IInv

-----------------------------------------------------------------------------
(* Theorems                                                                *)

\* AgentRuntimeManager, for any number of turns, agents and hot instances: in every
\* state the table of instances is bounded, ordered and served, and each turn that was
\* accepted is in one place at most: a queue, a worker's hands or an eviction's.
THEOREM PlacesAreKept == RuntimeSpec => []IInv
<1>1. RuntimeInit => IInv
  BY InitIInv, RuntimeAssumption
<1>2. IInv /\ [RuntimeNext]_vars => IInv'
  BY NextIInv, RuntimeAssumption
<1> QED  BY <1>1, <1>2, PTL DEF RuntimeSpec

\* AgentRuntimeManager as a whole: the table of instances is bounded, ordered and
\* served in every state, and its steps are those of TurnService: an accepted turn is
\* executed at most once, gets one result, and leaves the table after it, although its
\* worker, an eviction and a shutdown may all be emptying the same queue.
THEOREM ManagerIsServiceHolds == RuntimeSpec => ManagerIsService
<1>1. RuntimeInit => IInv /\ Service!ServiceInit
  <2>1. ASSUME RuntimeInit PROVE Service!ServiceInit
    <3>1. /\ result = [t \in Turn |-> NULL] /\ traces = {} /\ submit = [t \in Turn |-> "new"]
          /\ inst = [i \in Turn |-> Unborn]
      BY <2>1 DEF RuntimeInit
    <3>2. Unborn.pc = "none" /\ Unborn.turn = NULL /\ Unborn.status = NULL
      BY FreshTypes
    <3>3. \A t \in Turn : ~Runs(t)
      <4>1. \A i \in Turn : carried[i] = NULL
        BY <3>1, <3>2 DEF carried
      <4>2. \A i \in executing : i \in Turn
        BY DEF executing
      <4> QED  BY <4>1, <4>2, RuntimeAssumption DEF Runs, RuntimeAssumption
    <3>4. \A t \in Turn : stage[t] = "unknown"
      BY <3>1, <3>3, StageIs
    <3>5. stage = [t \in Turn |-> "unknown"]
      BY <3>4, StageIs
    <3> QED  BY <3>1, <3>5 DEF Service!ServiceInit
  <2> QED  BY <2>1, InitIInv, RuntimeAssumption
<1>2. IInv /\ [RuntimeNext]_vars => IInv' /\ [Service!ServiceNext]_(Service!service)
  BY NextIInv, NextRefines, RuntimeAssumption
<1>3. IInv => RuntimeTypeOK /\ HotIsBounded /\ HotIsOrdered /\ HotIsServed
  BY DEF IInv
<1> QED
  BY <1>1, <1>2, <1>3, PTL DEF RuntimeSpec, ManagerIsService, ImplementsService, Service!ServiceSpec

=============================================================================
