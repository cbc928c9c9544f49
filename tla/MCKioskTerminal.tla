--------------------------- MODULE MCKioskTerminal ---------------------------
(* One terminal for TLC.                                                   *)
EXTENDS KioskTerminal, FiniteSets, TLC

CONSTANTS OpenAtOnce,   \* bound: sessions open at the same time
          e1

Hands == Permutations(Press) \cup Permutations(Thread)

\* The terminal is met where e1's card has led it: asking for an operation, or for
\* the quantity of his session.
First == CHOOSE s \in Session : \A r \in Session : s <= r

Shows(state, employee, s) == [state |-> state, version |-> 2, employee |-> employee, session |-> s]

Opening == {Shows("WAIT_OPERATION", e1, NoSession), Shows("QUANTITY_INPUT", e1, First)}

MCInit ==
  /\ \E shown \in Opening :
       /\ proj = [d \in Device |-> shown]
       /\ screen = [d \in Device |-> shown]
       /\ session = [s \in Session |-> IF s = shown.session
                                       THEN [status |-> "OPEN", employee |-> e1]
                                       ELSE [status |-> "UNUSED", employee |-> Nobody]]
  /\ started = [p \in Press |-> {}]
  /\ finished = [p \in Press |-> {}]
  /\ answer = [p \in Press |-> Unanswered]
  /\ flagged = {}
  /\ waiting = [d \in Device |-> NoPress]
  /\ press = [p \in Press |-> NoPress]
  /\ hand = [t \in Thread |-> Idle]

MCSpec == MCInit /\ [][Next]_vars

\* A press that the screen it is made on does not call for.
Idler(p) ==
  /\ press[p] # NoPress
  /\ \/ press[p].kind = "EMP" /\ press[p].card = Nobody
     \/ press[p].kind = "OP" /\ press[p].shown.state # "WAIT_OPERATION"
     \/ press[p].kind = "QUANTITY" /\ press[p].shown.state # "QUANTITY_INPUT"
     \/ press[p].kind \in {"FINISH", "CANCEL"}

\* Bounds: at most OpenAtOnce sessions are open together, e1 has one opened for him
\* elsewhere only at the start, and a press that cannot succeed is explored alone.
FewOpen ==
  /\ Cardinality({s \in Session : session[s].status = "OPEN"}) <= OpenAtOnce
  /\ \A s \in Session \ {First} : session[s].employee = e1 => \E p \in Press : s \in started[p]
  /\ (\E p \in Press : Idler(p)) => Cardinality({p \in Press : press[p] # NoPress}) <= 1
=============================================================================
