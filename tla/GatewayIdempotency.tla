------------------------- MODULE GatewayIdempotency -------------------------
(***************************************************************************)
(* Repeated calls under one idempotency key                                *)
(* (GatewayService._handle_message_with_idempotency over IdempotencyStore).*)
(* A call returns the stored answer if there is one, waits for the task of *)
(* the key if there is one in this process, and else runs the turn itself. *)
(*                                                                         *)
(* A process has several event loops: each turn of the runtime API and     *)
(* each streaming worker brings its own.  A loop runs one call until it    *)
(* awaits; the loops of one process share the _inflight map, and all       *)
(* processes share the store.  A task belongs to its loop, and awaiting it *)
(* in another one raises.  A task and its answer are named after the call  *)
(* that started it.                                                        *)
(***************************************************************************)
EXTENDS Naturals, FiniteSets

CONSTANTS Call,      \* calls with this key
          Loop,      \* event loops
          loopOf,    \* the loop each call runs in
          Process,
          processOf, \* the process of each loop
          NULL,
          MaxCrash   \* bound: crashes

IdempotencyAssumption ==
  /\ loopOf \in [Call -> Loop]
  /\ processOf \in [Loop -> Process]
  /\ NULL \notin Call
  /\ MaxCrash \in Nat

VARIABLES record,    \* the idempotency_keys row: status and cached response
          inflight,  \* _inflight of each process
          running,   \* the call a loop is running, NULL if it is idle
          caller,    \* pc of each call, the task it awaits, what it returned
          task,      \* the task each call started
          excused,   \* history: a finished turn was not recorded
          raced,     \* history: an entry of _inflight was replaced by another loop
          crashes

vars == <<record, inflight, running, caller, task, excused, raced, crashes>>

PCs == {"new", "peek", "reserve", "reget", "repeek", "start", "own", "await", "done"}

IdemTypeOK ==
  /\ record \in [status : {"none", "in_progress", "failed"}, answer : {NULL}]
                  \union [status : {"completed"}, answer : Call]
  /\ inflight \in [Process -> Call \union {NULL}]
  /\ running \in [Loop -> Call \union {NULL}]
  /\ caller \in [Call -> [pc : PCs, on : Call \union {NULL}, got : Call \union {NULL}]]
  /\ task \in [Call -> {"none", "running", "ok", "raised", "cancelled"}]
  /\ excused \in BOOLEAN /\ raced \in BOOLEAN
  /\ crashes \in 0..MaxCrash

IdemInit ==
  /\ record = [status |-> "none", answer |-> NULL]
  /\ inflight = [p \in Process |-> NULL]
  /\ running = [l \in Loop |-> NULL]
  /\ caller = [c \in Call |-> [pc |-> "new", on |-> NULL, got |-> NULL]]
  /\ task = [c \in Call |-> "none"]
  /\ excused = FALSE /\ raced = FALSE
  /\ crashes = 0

Proc(c) == processOf[loopOf[c]]
At(c, pc) == caller[c].pc = pc

\* The loop is free for call c, or has been running it since its last await.
MayRun(c) == running[loopOf[c]] \in {NULL, c}

\* The call goes on without an await ...
GoesOn(c, pc) ==
  /\ MayRun(c)
  /\ running' = [running EXCEPT ![loopOf[c]] = c]
  /\ caller' = [caller EXCEPT ![c].pc = pc]

\* ... it awaits the task of call o, or it is over with answer a (NULL: raised).
Yields(c, pc, o) ==
  /\ MayRun(c)
  /\ running' = [running EXCEPT ![loopOf[c]] = NULL]
  /\ caller' = [caller EXCEPT ![c].pc = pc, ![c].on = o]
Returns(c, a) ==
  /\ MayRun(c)
  /\ running' = [running EXCEPT ![loopOf[c]] = NULL]
  /\ caller' = [caller EXCEPT ![c].pc = "done", ![c].on = NULL, ![c].got = a]

-----------------------------------------------------------------------------
(* Up to the task                                                          *)

\* Mutant: the stored answer is not looked for.
GetNothing(c) ==
  /\ \/ At(c, "new") /\ GoesOn(c, "peek")
     \/ At(c, "reget") /\ GoesOn(c, "repeek")
  /\ UNCHANGED <<record, inflight, task, excused, raced, crashes>>

\* IdempotencyStore.get, before and after the reservation
get(c) ==
  /\ \/ At(c, "new") /\ IF record.status = "completed" THEN Returns(c, record.answer)
                        ELSE GoesOn(c, "peek")
     \/ At(c, "reget") /\ IF record.status = "completed" THEN Returns(c, record.answer)
                          ELSE GoesOn(c, "repeek")
  /\ UNCHANGED <<record, inflight, task, excused, raced, crashes>>

\* Mutant: the task of another call is not looked for.
PeekNothing(c) ==
  /\ \/ At(c, "peek") /\ GoesOn(c, "reserve")
     \/ At(c, "repeek") /\ GoesOn(c, "start")
  /\ UNCHANGED <<record, inflight, task, excused, raced, crashes>>

\* Mutant: a key that is reserved is left to whoever reserved it.
PeekReserved(c) ==
  LET o == inflight[Proc(c)]
  IN  /\ \/ At(c, "peek") /\ o = NULL /\ GoesOn(c, "reserve")
         \/ /\ At(c, "repeek") /\ o = NULL /\ record.status # "in_progress"
            /\ GoesOn(c, "start")
         \/ caller[c].pc \in {"peek", "repeek"} /\ o # NULL /\ Yields(c, "await", o)
      /\ UNCHANGED <<record, inflight, task, excused, raced, crashes>>

\* self._inflight.get, before and after the reservation
peek(c) ==
  LET o == inflight[Proc(c)]
  IN  /\ \/ At(c, "peek") /\ o = NULL /\ GoesOn(c, "reserve")
         \/ At(c, "repeek") /\ o = NULL /\ GoesOn(c, "start")
         \/ /\ caller[c].pc \in {"peek", "repeek"} /\ o # NULL
            /\ IF loopOf[o] = loopOf[c] THEN Yields(c, "await", o)
               ELSE Returns(c, NULL)
      /\ UNCHANGED <<record, inflight, task, excused, raced, crashes>>

\* IdempotencyStore.reserve: ON CONFLICT DO NOTHING
reserve(c) ==
  /\ At(c, "reserve")
  /\ IF record.status = "none"
     THEN record' = [record EXCEPT !.status = "in_progress"] /\ GoesOn(c, "start")
     ELSE UNCHANGED record /\ GoesOn(c, "reget")
  /\ UNCHANGED <<inflight, task, excused, raced, crashes>>

\* The store raises (SQLite busy, I/O): the call raises, outside its handler.
StoreRaises(c) ==
  /\ caller[c].pc \in {"new", "reserve", "reget"}
  /\ Returns(c, NULL)
  /\ UNCHANGED <<record, inflight, task, excused, raced, crashes>>

\* create_task and the entry in _inflight
start(c) ==
  /\ At(c, "start")
  /\ task' = [task EXCEPT ![c] = "running"]
  /\ inflight' = [inflight EXCEPT ![Proc(c)] = c]
  /\ Yields(c, "own", c)
  /\ raced' = (raced \/ inflight[Proc(c)] \in {d \in Call : loopOf[d] # loopOf[c]})
  /\ UNCHANGED <<record, excused, crashes>>

-----------------------------------------------------------------------------
(* The task and those that wait for it                                     *)

\* _handle_message_once ends
TaskEnds(c) ==
  /\ task[c] = "running" /\ running[loopOf[c]] = NULL
  /\ \E outcome \in {"ok", "raised"} : task' = [task EXCEPT ![c] = outcome]
  /\ UNCHANGED <<record, inflight, running, caller, excused, raced, crashes>>

\* finally: the entry of the key is removed, whoever's it is by now.
Popped(c) == inflight' = [inflight EXCEPT ![Proc(c)] = NULL]

\* Mutant: the answer is not stored.
NeverRecorded(c) ==
  /\ At(c, "own") /\ task[c] \in {"ok", "raised"}
  /\ Returns(c, IF task[c] = "ok" THEN c ELSE NULL)
  /\ Popped(c)
  /\ UNCHANGED <<record, task, excused, raced, crashes>>

\* The owner resumes: IdempotencyStore.complete writes over what is there.  If
\* it raises, before or after it wrote, the handler tries to record a failure,
\* and the call raises.
complete(c) ==
  /\ At(c, "own") /\ task[c] \in {"ok", "raised"}
  /\ \/ /\ task[c] = "ok"
        /\ record' = [status |-> "completed", answer |-> c]
        /\ Returns(c, c)
        /\ UNCHANGED excused
     \/ /\ \/ record' \in {record, [status |-> "failed", answer |-> NULL]}
           \/ task[c] = "ok" /\ record' = [status |-> "completed", answer |-> c]
        /\ Returns(c, NULL)
        /\ excused' = (excused \/ task[c] = "ok")
  /\ Popped(c)
  /\ UNCHANGED <<task, raced, crashes>>

\* The task was cancelled: CancelledError passes the handler, the row stays.
OwnerCancelled(c) ==
  /\ At(c, "own") /\ task[c] = "cancelled"
  /\ Returns(c, NULL)
  /\ Popped(c)
  /\ UNCHANGED <<record, task, excused, raced, crashes>>

\* A call that waits for the task of another one resumes.
Resume(c) ==
  /\ At(c, "await") /\ task[caller[c].on] \in {"ok", "raised", "cancelled"}
  /\ Returns(c, IF task[caller[c].on] = "ok" THEN caller[c].on ELSE NULL)
  /\ UNCHANGED <<record, inflight, task, excused, raced, crashes>>

\* A caller gives up (timeout, disconnect).  Cancelling a call that awaits a
\* task cancels the task itself, for all that wait for it; if it has ended by
\* then only this call is cancelled, and the owner records nothing.
Cancel(c) ==
  /\ caller[c].pc \in {"own", "await"}
  /\ IF task[caller[c].on] = "running"
     THEN /\ task' = [task EXCEPT ![caller[c].on] = "cancelled"]
          /\ UNCHANGED <<running, caller, inflight, excused>>
     ELSE /\ Returns(c, NULL)
          /\ IF At(c, "own") THEN Popped(c) ELSE UNCHANGED inflight
          /\ excused' = (excused \/ (At(c, "own") /\ task[c] = "ok"))
          /\ UNCHANGED task
  /\ UNCHANGED <<record, raced, crashes>>

\* A process dies and is started again: later calls may use its loops.
Crash(p) ==
  LET lost == {c \in Call : Proc(c) = p /\ caller[c].pc \notin {"new", "done"}}
  IN  /\ crashes < MaxCrash
      /\ crashes' = crashes + 1
      /\ caller' = [c \in Call |-> IF c \in lost THEN [pc |-> "done", on |-> NULL, got |-> NULL]
                                 ELSE caller[c]]
      /\ task' = [c \in Call |-> IF c \in lost /\ task[c] = "running" THEN "cancelled"
                                 ELSE task[c]]
      /\ running' = [l \in Loop |-> IF processOf[l] = p THEN NULL ELSE running[l]]
      /\ inflight' = [inflight EXCEPT ![p] = NULL]
      /\ excused' = (excused \/ \E c \in lost : At(c, "own") /\ task[c] = "ok")
      /\ UNCHANGED <<record, raced>>

CallStep(c) ==
  \/ get(c) \/ peek(c) \/ reserve(c) \/ start(c)
  \/ TaskEnds(c) \/ complete(c) \/ OwnerCancelled(c) \/ Resume(c)

IdemNext ==
  \/ \E c \in Call : CallStep(c) \/ Cancel(c) \/ StoreRaises(c)
  \/ \E p \in Process : Crash(p)

IdemSpec == IdemInit /\ [][IdemNext]_vars

\* Every loop is scheduled, and every turn ends (it has a deadline).  No call need be
\* made.
Continue(c) == ~At(c, "new") /\ CallStep(c)
IdemLiveSpec == IdemSpec /\ \A c \in Call : WF_vars(Continue(c))

-----------------------------------------------------------------------------
(* Properties                                                              *)

\* One process never runs the turn twice side by side, unless calls of two
\* loops passed the check of _inflight before either had entered its task.
\* (From then on the entry of one hides the other, and the first to end removes
\* it, so that even calls of one loop overlap.)
OneTurnPerProcess ==
  raced \/ \A c, d \in Call :
             c # d /\ task[c] = "running" /\ task[d] = "running" => Proc(c) # Proc(d)

\* The calls made so far run in one loop.
OneLoop == \A c, d \in Call : At(c, "new") \/ At(d, "new") \/ loopOf[c] = loopOf[d]

\* All callers in one loop that get an answer get the same one, also across
\* crashes and failed turns, unless a turn ended well and could not be recorded.
SameAnswer ==
  excused \/ ~OneLoop \/ Cardinality({caller[c].got : c \in Call} \ {NULL}) <= 1

\* A completed key stays completed and keeps its answer.  (For one loop: the
\* failure of a call in another one overwrites it.)
CompletedIsFinal == [][record.status = "completed" /\ OneLoop => record' = record]_vars

\* Every call returns or raises, also if a process died with the key reserved.
CallsReturn == []<>(\A c \in Call : caller[c].pc \in {"new", "done"})

\* What a key promises to its callers.
KeyIsHonoured == [](IdemTypeOK /\ OneTurnPerProcess /\ SameAnswer) /\ CompletedIsFinal
=============================================================================
