--------------------------- MODULE MCGatewayTurn ---------------------------
(***************************************************************************)
(* A small instance of GatewayTurn.  Each behaviour follows one scenario,  *)
(* which says which turns come, what they may ask for and what may happen  *)
(* to them.                                                                *)
(***************************************************************************)
EXTENDS GatewayTurn

CONSTANTS t1, t2, t3, t4, a1, a2

VARIABLE scenario

\* t2 repeats the request of t1; the others are requests of their own.
RequestOf == [t \in Turn |-> IF t = t2 THEN t1 ELSE t]

Asks(mode, resume, reset, attach) ==
  [mode |-> mode, resume |-> resume, reset |-> reset, attach |-> attach]

\* Clients that attach, resume and reset ...
Clients == {Asks("channel", FALSE, FALSE, a1), Asks("none", FALSE, FALSE, NULL),
            Asks("return", TRUE, FALSE, a2), Asks("channel", FALSE, TRUE, NULL)}

\* ... and calls that take an answer up or leave one behind.
Plain == Asks("channel", FALSE, FALSE, NULL)
Leaves == Asks("none", FALSE, FALSE, NULL)

\* A client that stays on the thread and takes the answer as a return value.
Resumer == Asks("return", TRUE, FALSE, NULL)

AllInputs == Clients \union {Plain, Leaves, Resumer}

Scenario ==
  { \* two clients, of which one may stall or die
    [turns |-> {t1, t3}, in |-> Clients, crash |-> 1, stall |-> TRUE, delete |-> 0],
    \* two calls of one request, of which one may stall
    [turns |-> {t1, t2}, in |-> {Plain}, crash |-> 0, stall |-> TRUE, delete |-> 0],
    \* ... or of which the second comes after the session was deleted under the first
    [turns |-> {t1, t2}, in |-> {Plain}, crash |-> 0, stall |-> FALSE, delete |-> 1],
    \* ... or on a thread that a third call goes on with
    [turns |-> {t1, t2, t4}, in |-> {Resumer}, crash |-> 0, stall |-> FALSE, delete |-> 0],
    \* an answer that is not delivered, and then two calls of which one may stall
    [turns |-> {t1, t3, t4}, in |-> {Plain}, crash |-> 0, stall |-> TRUE, delete |-> 0]}

ScenarioInit ==
  /\ TurnInit
  /\ scenario \in Scenario
  /\ \A t \in scenario.turns \ {t1} : turn[t].in \in scenario.in
  /\ IF {t3, t4} \subseteq scenario.turns
     THEN turn[t1].in = Leaves
     ELSE turn[t1].in \in scenario.in
  /\ \A t \in Turn \ scenario.turns : turn[t].in = Plain

\* Of turns that can stand for each other one order is enough: t1 and t2, which have
\* one request and the same inputs, end in that order, and turns whose requests differ
\* in nothing but their names start in theirs.
InOrder ==
  /\ turn'[t2].pc = "done" /\ scenario.delete = 0 => turn'[t1].pc = "done"
  /\ turn'[t3].pc # "new" => turn'[t1].pc # "new"
  /\ t3 \in scenario.turns /\ turn'[t4].pc # "new" => turn'[t3].pc # "new"

\* A call that repeats t1 comes after the deletion, if there is one; of three turns,
\* those of another request come when t1 is over.
ComesLater ==
  /\ scenario.delete = 1 /\ turn'[t2].pc # "new" => life = 1
  /\ t4 \in scenario.turns /\ {turn'[t3].pc, turn'[t4].pc} # {"new"}
       => turn'[t1].pc = "done"

ScenarioNext ==
  /\ TurnNext
  /\ InOrder /\ ComesLater
  /\ UNCHANGED scenario
  /\ \A t \in Turn \ scenario.turns : turn'[t].pc = "new"
  /\ Cardinality({t \in Turn : turn'[t].result = "crashed"}) <= scenario.crash
  /\ life' <= scenario.delete
  /\ life' # life => orphaned' # {}
  /\ life' = life /\ row'.left < row.left => scenario.stall

GatewaySpec == ScenarioInit /\ [][ScenarioNext]_<<allVars, scenario>>
=============================================================================
