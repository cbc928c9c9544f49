---------------------------- MODULE KioskTerminal ----------------------------
(*************************************************************************)
(* A shared kiosk terminal, protocol v2 (web/kiosk_v2.py): POST /events, *)
(* GET /state.  The server keeps one row per terminal                    *)
(* (kiosk_v2_projection: what it shows, numbered by state_version) and   *)
(* one row per answered event (kiosk_v2_events).  The terminal posts     *)
(* each scan or key press under an event id, with the number of the      *)
(* state it shows, and repeats it until it is answered.                  *)
(*                                                                       *)
(* A request is a chain of separate transactions run by one thread:      *)
(* look the event up, read the row, start() or finish() a session, write *)
(* the row if its number has not changed, store the answer, answer.      *)
(* Sessions are also opened and closed elsewhere, by the web kiosk, by   *)
(* supervisors and at the end of a shift.                                *)
(*************************************************************************)
EXTENDS Naturals

CONSTANTS
  Device,      \* terminals
  Employee,
  Session,     \* ids of work_sessions, in the order they are given out
  Press,       \* event ids
  Thread,      \* threads of the server that handle POST /events
  Nobody,      \* no employee; also a card that resolves to no employee
  NoSession,
  NoPress

ASSUME SessionAssumption == Session \subseteq Nat
ASSUME NullAssumption ==
  /\ Nobody \notin Employee
  /\ NoSession \notin Session
  /\ NoPress \notin Press

VARIABLES
  proj,        \* kiosk_v2_projection
  session,     \* work_sessions: status and employee
  started,     \* kiosk_idempotency: sessions the event's start() opened
  finished,    \* kiosk_idempotency: sessions the event's finish() closed
  answer,      \* kiosk_v2_events: the stored answer
  flagged,     \* sessions with an INTERRUPTED_QUANTITY_ENTRY record
  screen,      \* what each terminal shows
  waiting,     \* the event each terminal waits on
  press,       \* what was pressed, and what the terminal showed
  hand         \* what each thread is doing

vars == <<proj, session, started, finished, answer, flagged, screen, waiting, press, hand>>

-----------------------------------------------------------------------------
(* Values.                                                                 *)

\* SESSION_ACTIVE is a state of the code that nothing enters: the only
\* _set_projection calls leave WAIT_EMPLOYEE, WAIT_OPERATION, QUANTITY_INPUT.
Screen == [state    : {"WAIT_EMPLOYEE", "WAIT_OPERATION", "QUANTITY_INPUT"},
           version  : Nat,
           employee : Employee \cup {Nobody},
           session  : Session \cup {NoSession}]

Kind   == {"EMP", "OP", "QUANTITY", "FINISH", "CANCEL"}
Pushed == [device : Device, kind : Kind, card : Employee \cup {Nobody}, shown : Screen]

ASSUME PressAssumption == NoPress \notin Pushed

Verdict == {"none", "accepted", "rejected", "conflict"}
Answer  == [verdict : Verdict, shows : Screen]

Step == {"idle", "look", "apply", "find", "project", "store", "reply"}
Hand == [at : Step, press : Press \cup {NoPress}, seen : Screen, next : Screen, answer : Answer]

Row == [status : {"UNUSED", "OPEN", "CLOSED"}, employee : Employee \cup {Nobody}]

Blank == [state |-> "WAIT_EMPLOYEE", version |-> 1, employee |-> Nobody, session |-> NoSession]
Unanswered == [verdict |-> "none", shows |-> Blank]
Idle == [at |-> "idle", press |-> NoPress, seen |-> Blank, next |-> Blank, answer |-> Unanswered]

TypeOK ==
  /\ proj \in [Device -> Screen]
  /\ session \in [Session -> Row]
  /\ started \in [Press -> SUBSET Session]
  /\ finished \in [Press -> SUBSET Session]
  /\ answer \in [Press -> Answer]
  /\ flagged \in SUBSET Session
  /\ screen \in [Device -> Screen]
  /\ waiting \in [Device -> Press \cup {NoPress}]
  /\ press \in [Press -> Pushed \cup {NoPress}]
  /\ hand \in [Thread -> Hand]
  /\ \A t \in Thread : hand[t].at # "idle" => hand[t].press \in Press /\ press[hand[t].press] # NoPress
  /\ \A d \in Device : waiting[d] # NoPress => press[waiting[d]] # NoPress

Init ==
  /\ proj = [d \in Device |-> Blank]
  /\ session = [s \in Session |-> [status |-> "UNUSED", employee |-> Nobody]]
  /\ started = [p \in Press |-> {}]
  /\ finished = [p \in Press |-> {}]
  /\ answer = [p \in Press |-> Unanswered]
  /\ flagged = {}
  /\ screen = [d \in Device |-> Blank]
  /\ waiting = [d \in Device |-> NoPress]
  /\ press = [p \in Press |-> NoPress]
  /\ hand = [t \in Thread |-> Idle]

-----------------------------------------------------------------------------
(* The terminal.                                                           *)

\* A scan or a key.  The event carries the number of the state on show.
Push(d, p, kind, card) ==
  /\ waiting[d] = NoPress
  /\ press[p] = NoPress
  /\ (kind # "EMP") => (card = Nobody)
  /\ press' = [press EXCEPT ![p] = [device |-> d, kind |-> kind, card |-> card, shown |-> screen[d]]]
  /\ waiting' = [waiting EXCEPT ![d] = p]
  /\ UNCHANGED <<proj, session, started, finished, answer, flagged, screen, hand>>

\* The terminal restarts or gives up on an event, and asks GET /state.
Resync(d) ==
  /\ screen' = [screen EXCEPT ![d] = proj[d]]
  /\ waiting' = [waiting EXCEPT ![d] = NoPress]
  /\ UNCHANGED <<proj, session, started, finished, answer, flagged, press, hand>>

-----------------------------------------------------------------------------
(* A thread of POST /events.                                               *)

Pressed(t) == press[hand[t].press]
Seen(t)    == hand[t].seen

\* An answer on its way to _store_event.
Decides(t, verdict) ==
  hand' = [hand EXCEPT ![t] = [@ EXCEPT !.at = "store", !.answer = [verdict |-> verdict, shows |-> Seen(t)]]]

\* Mutant: employee and session are given in the wrong order.
PlansSwapped(t, state, employee, s) ==
  hand' = [hand EXCEPT ![t].at = "project",
                       ![t].next = [state |-> state, version |-> Seen(t).version + 1,
                                    employee |-> s, session |-> employee]]

\* The fields the thread will give to _set_projection.
Plans(t, state, employee, s) ==
  hand' = [hand EXCEPT ![t].at = "project",
                       ![t].next = [state |-> state, version |-> Seen(t).version + 1,
                                    employee |-> employee, session |-> s]]

\* A request arrives, for the first time or again, however late.  An event that
\* has a stored answer gets that answer; nothing comes of it if the terminal has
\* stopped waiting.
Receive(t, p) ==
  /\ hand[t].at = "idle"
  /\ press[p] # NoPress
  /\ answer[p].verdict = "none" \/ waiting[press[p].device] = p
  /\ hand' = [hand EXCEPT ![t] = IF answer[p].verdict = "none"
                                 THEN [Idle EXCEPT !.at = "look", !.press = p]
                                 ELSE [Idle EXCEPT !.at = "reply", !.press = p, !.answer = answer[p]]]
  /\ UNCHANGED <<proj, session, started, finished, answer, flagged, screen, waiting, press>>

\* Mutant: the number sent with the event is not compared.
LookWithoutVersion(t) ==
  LET row == proj[Pressed(t).device] IN
  /\ hand[t].at = "look"
  /\ hand' = [hand EXCEPT ![t].seen = row, ![t].at = "apply",
                          ![t].answer = [verdict |-> "conflict", shows |-> row]]
  /\ UNCHANGED <<proj, session, started, finished, answer, flagged, screen, waiting, press>>

\* The row is read once; a press made on an older state is a STATE_CONFLICT.
Look(t) ==
  LET row == proj[Pressed(t).device] IN
  /\ hand[t].at = "look"
  /\ hand' = [hand EXCEPT ![t].seen = row,
                          ![t].at = IF Pressed(t).shown.version < row.version THEN "store" ELSE "apply",
                          ![t].answer = [verdict |-> "conflict", shows |-> row]]
  /\ UNCHANGED <<proj, session, started, finished, answer, flagged, screen, waiting, press>>

Applies(t, kind) == hand[t].at = "apply" /\ Pressed(t).kind = kind

\* Mutant: the other employee is only reported when he has nothing open himself.
InterruptsIdly(t) ==
  /\ Seen(t).state = "QUANTITY_INPUT"
  /\ Seen(t).employee \notin {Nobody, Pressed(t).card}
  /\ Seen(t).session # NoSession
  /\ \A s \in Session : session[s] # [status |-> "OPEN", employee |-> Pressed(t).card]

\* Somebody else's card over a quantity that was not entered.
Interrupts(t) ==
  /\ Seen(t).state = "QUANTITY_INPUT"
  /\ Seen(t).employee \notin {Nobody, Pressed(t).card}
  /\ Seen(t).session # NoSession

\* report_interrupted_quantity_entry, in a transaction of its own.
Report(t) ==
  /\ Applies(t, "EMP")
  /\ Pressed(t).card # Nobody
  /\ Interrupts(t)
  /\ flagged' = flagged \cup {s \in {Seen(t).session} : session[s].status = "OPEN"}
  /\ hand' = [hand EXCEPT ![t].at = "find"]
  /\ UNCHANGED <<proj, session, started, finished, answer, screen, waiting, press>>

OpenOf(e) == {s \in Session : session[s].status = "OPEN" /\ session[s].employee = e}

\* The employee's latest OPEN session decides what is shown next.
FindSession(t) ==
  LET e == Pressed(t).card IN
  /\ \/ hand[t].at = "find"
     \/ Applies(t, "EMP") /\ e # Nobody /\ ~Interrupts(t)
  /\ \/ /\ OpenOf(e) = {}
        /\ Plans(t, "WAIT_OPERATION", e, NoSession)
     \/ \E s \in OpenOf(e) :
          /\ \A r \in OpenOf(e) : r <= s
          /\ Plans(t, "QUANTITY_INPUT", e, s)
  /\ UNCHANGED <<proj, session, started, finished, answer, flagged, screen, waiting, press>>

Unused == {s \in Session : session[s].status = "UNUSED"}

\* Mutant: start() under a key made afresh by each request.
ScanOperationFreshKey(t) ==
  LET p == hand[t].press IN
  /\ Applies(t, "OP")
  /\ Seen(t).state = "WAIT_OPERATION"
  /\ \E s \in Unused :
       /\ \A r \in Unused : s <= r
       /\ session' = [session EXCEPT ![s] = [status |-> "OPEN", employee |-> Seen(t).employee]]
       /\ started' = [started EXCEPT ![p] = @ \cup {s}]
  /\ Plans(t, "WAIT_EMPLOYEE", Nobody, NoSession)
  /\ UNCHANGED <<proj, finished, answer, flagged, screen, waiting, press>>

\* start() under the key device:event.  A repeated key gets the first result.
ScanOperation(t) ==
  LET p == hand[t].press IN
  /\ Applies(t, "OP")
  /\ Seen(t).state = "WAIT_OPERATION"
  /\ \/ /\ started[p] # {}
        /\ UNCHANGED <<session, started>>
     \/ /\ started[p] = {}
        /\ \E s \in Unused :
             /\ \A r \in Unused : s <= r
             /\ session' = [session EXCEPT ![s] = [status |-> "OPEN", employee |-> Seen(t).employee]]
             /\ started' = [started EXCEPT ![p] = @ \cup {s}]
  /\ Plans(t, "WAIT_EMPLOYEE", Nobody, NoSession)
  /\ UNCHANGED <<proj, finished, answer, flagged, screen, waiting, press>>

\* Mutant: a session that is already closed counts as finished.
SubmitQuantityAnyway(t) ==
  LET p == hand[t].press
      s == Seen(t).session IN
  /\ Applies(t, "QUANTITY")
  /\ Seen(t).state = "QUANTITY_INPUT"
  /\ finished' = [finished EXCEPT ![p] = @ \cup {r \in {s} : session[r].status = "OPEN"}]
  /\ session' = [session EXCEPT ![s].status = "CLOSED"]
  /\ Plans(t, "WAIT_EMPLOYEE", Nobody, NoSession)
  /\ UNCHANGED <<proj, started, answer, flagged, screen, waiting, press>>

\* finish() of the session in the row, under the key device:event.
SubmitQuantity(t) ==
  LET p == hand[t].press
      s == Seen(t).session IN
  /\ Applies(t, "QUANTITY")
  /\ Seen(t).state = "QUANTITY_INPUT"
  /\ \/ /\ finished[p] # {}
        /\ UNCHANGED <<session, finished>>
     \/ /\ finished[p] = {}
        /\ session[s].status = "OPEN"
        /\ session' = [session EXCEPT ![s].status = "CLOSED"]
        /\ finished' = [finished EXCEPT ![p] = @ \cup {s}]
  /\ Plans(t, "WAIT_EMPLOYEE", Nobody, NoSession)
  /\ UNCHANGED <<proj, started, answer, flagged, screen, waiting, press>>

\* A selection without a session is discarded.
Cancel(t) ==
  /\ Applies(t, "CANCEL")
  /\ Seen(t).state # "WAIT_EMPLOYEE"
  /\ Seen(t).session = NoSession
  /\ Plans(t, "WAIT_EMPLOYEE", Nobody, NoSession)
  /\ UNCHANGED <<proj, session, started, finished, answer, flagged, screen, waiting, press>>

\* Why an event is rejected.  What start() and finish() object to besides (order
\* not started, not ready, no input left, numbers) is the ledger's affair, so
\* they may refuse at any time; a refusal rolls back.
Refuses(t) ==
  \/ Pressed(t).kind = "EMP" /\ Pressed(t).card = Nobody
  \/ Pressed(t).kind \in {"OP", "QUANTITY", "FINISH"}
  \/ Pressed(t).kind = "CANCEL" /\ (Seen(t).state = "WAIT_EMPLOYEE" \/ Seen(t).session # NoSession)

Reject(t) ==
  /\ hand[t].at = "apply"
  /\ Refuses(t)
  /\ Decides(t, "rejected")
  /\ UNCHANGED <<proj, session, started, finished, answer, flagged, screen, waiting, press>>

\* Mutant: the number stays as it is when only the fields change.
ProjectKeepsNumber(t) ==
  LET d    == Pressed(t).device
      next == [hand[t].next EXCEPT !.version = Seen(t).version] IN
  /\ hand[t].at = "project"
  /\ proj[d].version = Seen(t).version
  /\ proj' = [proj EXCEPT ![d] = next]
  /\ hand' = [hand EXCEPT ![t].at = "store", ![t].answer = [verdict |-> "accepted", shows |-> next]]
  /\ UNCHANGED <<session, started, finished, answer, flagged, screen, waiting, press>>

\* _set_projection: only if the number is still the one read.  Otherwise it
\* raises, the terminal is told to retry and nothing is stored.
Project(t) ==
  LET d == Pressed(t).device IN
  /\ hand[t].at = "project"
  /\ \/ /\ proj[d].version = Seen(t).version
        /\ proj' = [proj EXCEPT ![d] = hand[t].next]
        /\ hand' = [hand EXCEPT ![t].at = "store",
                                ![t].answer = [verdict |-> "accepted", shows |-> hand[t].next]]
     \/ /\ proj[d].version # Seen(t).version
        /\ proj' = proj
        /\ hand' = [hand EXCEPT ![t] = Idle]
  /\ UNCHANGED <<session, started, finished, answer, flagged, screen, waiting, press>>

\* _store_event: the first answer stays; the thread still gives its own, if the
\* terminal waits for it.
Store(t) ==
  LET p == hand[t].press IN
  /\ hand[t].at = "store"
  /\ answer' = [answer EXCEPT ![p] = IF @.verdict = "none" THEN hand[t].answer ELSE @]
  /\ hand' = [hand EXCEPT ![t] = IF waiting[press[p].device] = p
                                 THEN [Idle EXCEPT !.at = "reply", !.press = p, !.answer = hand[t].answer]
                                 ELSE Idle]
  /\ UNCHANGED <<proj, session, started, finished, flagged, screen, waiting, press>>

\* The answer reaches a terminal that still waits for it, which shows what it
\* says; told of a conflict, the terminal asks GET /state.
Reply(t) ==
  LET p == hand[t].press
      d == Pressed(t).device IN
  /\ hand[t].at = "reply"
  /\ waiting[d] = p
  /\ waiting' = [waiting EXCEPT ![d] = NoPress]
  /\ screen' = [screen EXCEPT ![d] = IF hand[t].answer.verdict = "conflict"
                                     THEN proj[d] ELSE hand[t].answer.shows]
  /\ hand' = [hand EXCEPT ![t] = Idle]
  /\ UNCHANGED <<proj, session, started, finished, answer, flagged, press>>

\* The request ends without a stored answer: an unforeseen exception (answered
\* RETRY), the death of the process, or an answer lost on the way.
Break(t) ==
  /\ hand[t].at # "idle"
  /\ hand' = [hand EXCEPT ![t] = Idle]
  /\ UNCHANGED <<proj, session, started, finished, answer, flagged, screen, waiting, press>>

-----------------------------------------------------------------------------
(* Sessions opened and closed by others.                                   *)

OpenElsewhere(e) ==
  /\ \E s \in Unused :
       /\ \A r \in Unused : s <= r
       /\ session' = [session EXCEPT ![s] = [status |-> "OPEN", employee |-> e]]
  /\ UNCHANGED <<proj, started, finished, answer, flagged, screen, waiting, press, hand>>

CloseElsewhere(s) ==
  /\ session[s].status = "OPEN"
  /\ session' = [session EXCEPT ![s].status = "CLOSED"]
  /\ UNCHANGED <<proj, started, finished, answer, flagged, screen, waiting, press, hand>>

Handle(t) ==
  \/ \E p \in Press : Receive(t, p)
  \/ Look(t) \/ Report(t) \/ FindSession(t)
  \/ ScanOperation(t) \/ SubmitQuantity(t) \/ Cancel(t) \/ Reject(t)
  \/ Project(t) \/ Store(t) \/ Reply(t) \/ Break(t)

Next ==
  \/ \E d \in Device, p \in Press, kind \in Kind, card \in Employee \cup {Nobody} : Push(d, p, kind, card)
  \/ \E d \in Device : Resync(d)
  \/ \E t \in Thread : Handle(t)
  \/ \E e \in Employee : OpenElsewhere(e)
  \/ \E s \in Session : CloseElsewhere(s)

Spec == Init /\ [][Next]_vars

-----------------------------------------------------------------------------
(* Properties.                                                             *)

\* Every copy of a terminal's state, on its screen, in a press, in a thread or in
\* a stored answer, is the state the server holds now or carries a lower number:
\* one number never stands for two screens, whatever threads and retries overlap.
Current(d, copy) == copy = proj[d] \/ copy.version < proj[d].version

CopiesAreCurrentOrOlder ==
  /\ \A d \in Device : Current(d, screen[d])
  /\ \A p \in Press : press[p] # NoPress =>
       /\ Current(press[p].device, press[p].shown)
       /\ answer[p].verdict # "none" => Current(press[p].device, answer[p].shows)
  /\ \A t \in Thread : hand[t].at \notin {"idle", "look", "reply"} => Current(Pressed(t).device, Seen(t))

\* What an event does is what its screen promised: a quantity finishes the session
\* on show, which belongs to the employee on show, and an operation is started
\* for the employee on show, however late or often the request is handled.
EffectAsShown ==
  \A p \in Press :
    /\ \A s \in finished[p] : /\ press[p].shown.session = s
                              /\ session[s].employee = press[p].shown.employee
    /\ \A s \in started[p]  : session[s].employee = press[p].shown.employee

\* A press opens at most one session, whatever is repeated, lost or broken off.
OpensOnce == \A p \in Press : \A r, s \in started[p] : r = s

\* A quantity that was accepted did finish a session, an operation that was
\* accepted did start one; nobody else's finish is taken for it.
AcceptedIsDone ==
  \A p \in Press : answer[p].verdict = "accepted" =>
    /\ press[p].kind = "OP" => started[p] # {}
    /\ press[p].kind = "QUANTITY" => finished[p] # {}

\* When another employee's card takes the terminal from an unfinished quantity,
\* that is on record before it happens if the session is still open.
InterruptedIsFlagged ==
  [][\A d \in Device :
       (/\ proj[d].state = "QUANTITY_INPUT"
        /\ proj'[d].employee \notin {proj[d].employee, Nobody}
        /\ session[proj[d].session].status = "OPEN")
       => proj[d].session \in flagged]_vars
=============================================================================
