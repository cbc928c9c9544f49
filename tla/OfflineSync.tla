----------------------------- MODULE OfflineSync -----------------------------
(*************************************************************************)
(* Offline synchronisation of a kiosk                                    *)
(* (OfflineSyncRepository.process_event behind POST                      *)
(* /station/events/sync): a device keeps the events it recorded while    *)
(* cut off and sends them until it is told to drop them; each request    *)
(* thread runs process_event, which is a chain of separate transactions. *)
(*                                                                       *)
(* A batch is processed event by event, each on its own, so a thread     *)
(* here handles one event.  Requests are lost, repeated and delayed,     *)
(* threads die between two transactions, and a retransmission may be     *)
(* processed by a second thread while the first is still at it.          *)
(*************************************************************************)
EXTENDS Naturals

CONSTANTS
  Work,        \* pieces of work recorded offline
  Handler,     \* request threads of the server
  NoEvent,     \* what an idle thread is handling
  MaxRetry,    \* MAX_RETRY_ATTEMPTS
  Obstructed   \* events the state of production may refuse

Event == Work \X {"START", "FINISH"}

ASSUME SyncAssumption ==
  /\ MaxRetry \in Nat \ {0}
  /\ Obstructed \subseteq Event
  /\ NoEvent \notin Event

VARIABLES
  queue,    \* events the device still keeps
  outlook,  \* what the server would say of each event now
  effect,   \* how often each event's start()/finish() committed
  row,      \* kiosk_client_events
  hand      \* the request threads

vars == <<queue, outlook, effect, row, hand>>

StartOf(e) == <<e[1], "START">>
IsFinish(e) == e[2] = "FINISH"

\* linked: server_session_id is set.  The attempt count is only ever compared
\* with MaxRetry, so it stops there.
Status == {"absent", "retryable", "accepted", "rejected"}
RowType == [status : Status, attempts : 0..MaxRetry, linked : BOOLEAN]
NoRow == [status |-> "absent", attempts |-> 0, linked |-> FALSE]

\* What a thread is at, for which event, what it will record and answer, and
\* whether it found no row of the event when it was about to record.
HandType == [at : {"idle", "locate", "apply", "judge", "record", "answer"},
             event : Event \cup {NoEvent},
             answer : {"none", "accepted", "duplicate", "transient", "rejected"},
             first : BOOLEAN]
Handling(place, e, a, f) == [at |-> place, event |-> e, answer |-> a, first |-> f]
Idle == Handling("idle", NoEvent, "none", FALSE)

\* "unread": the codes scanned for a START name no active employee or
\* operation, or more than one; "conflict" and "invalid": start() or finish()
\* raises ConflictError or an error time does not cure.
Outlook(e) == {"ready", "conflict", "invalid"} \cup IF IsFinish(e) THEN {} ELSE {"unread"}

Settled(e) == row[e].status \in {"accepted", "rejected"}

\* A thread about to record answer a for its event.
ToRecord(h, a) ==
  hand' = [hand EXCEPT ![h] =
    Handling("record", @.event, a, row[@.event].status = "absent")]

GoTo(h, place) ==
  hand' = [hand EXCEPT ![h] = Handling(place, @.event, @.answer, @.first)]

-----------------------------------------------------------------------------
(* The production floor around it *)

\* Work upstream is reported, someone else closes a session, an employee leaves,
\* a label is printed twice: what stands in the way comes and goes.
Shift(e) ==
  /\ e \in Obstructed
  /\ \E o \in Outlook(e) \ {outlook[e]} : outlook' = [outlook EXCEPT ![e] = o]
  /\ UNCHANGED <<queue, effect, row, hand>>

-----------------------------------------------------------------------------
(* process_event *)

\* A request arrives, perhaps one the device gave up waiting for long ago.  A
\* row that is not retryable is answered as a replay at once.
Receive(h, e) ==
  /\ hand[h].at = "idle"
  /\ hand' = [hand EXCEPT ![h] =
       IF Settled(e)
       THEN Handling("answer", e, "duplicate", FALSE)
       ELSE Handling("locate", e, "none", FALSE)]
  /\ UNCHANGED <<queue, outlook, effect, row>>

\* Mutant: a FINISH takes any row of its START for an accepted one.
LocateLoose(h) ==
  /\ hand[h].at = "locate"
  /\ GoTo(h, IF IsFinish(hand[h].event) /\ row[StartOf(hand[h].event)].status = "absent"
             THEN "judge" ELSE "apply")
  /\ UNCHANGED <<queue, outlook, effect, row>>

\* A FINISH looks its session up in the row of the accepted START; a START
\* resolves the codes it carries, whatever became of it before.
Locate(h) ==
  LET e == hand[h].event
      start == row[StartOf(e)]
  IN
  /\ hand[h].at = "locate"
  /\ \/ IsFinish(e) /\ GoTo(h, IF start.status = "accepted" /\ start.linked
                               THEN "apply" ELSE "judge")
     \/ ~IsFinish(e) /\ outlook[e] # "unread" /\ GoTo(h, "apply")
     \/ outlook[e] = "unread" /\ (GoTo(h, "judge") \/ ToRecord(h, "rejected"))
  /\ UNCHANGED <<queue, outlook, effect, row>>

\* Mutant: the request id is looked up before the lock that serialises replays,
\* so a late replay runs again.
ApplyAgain(h) ==
  LET e == hand[h].event IN
  /\ hand[h].at = "apply"
  /\ outlook[e] = "ready"
  /\ effect' = [effect EXCEPT ![e] = @ + 1]
  /\ ToRecord(h, "accepted")
  /\ UNCHANGED <<queue, outlook, row>>

\* start() or finish() in one transaction, keyed by the event: a key already
\* committed is replayed with its stored response, whatever the outlook.
Apply(h) ==
  LET e == hand[h].event IN
  /\ hand[h].at = "apply"
  /\ \/ effect[e] > 0 /\ ToRecord(h, "accepted") /\ UNCHANGED effect
     \/ /\ effect[e] = 0 /\ outlook[e] = "ready"
        /\ ToRecord(h, "accepted") /\ effect' = [effect EXCEPT ![e] = 1]
     \/ /\ effect[e] = 0 /\ outlook[e] = "conflict"
        /\ GoTo(h, "judge") /\ UNCHANGED effect
     \/ /\ effect[e] = 0 /\ outlook[e] \in {"invalid", "unread"}
        /\ ToRecord(h, "rejected") /\ UNCHANGED effect
  /\ UNCHANGED <<queue, outlook, row>>

\* Mutant: the try under way is counted twice.
JudgeEarly(h) ==
  /\ hand[h].at = "judge"
  /\ ToRecord(h, IF row[hand[h].event].attempts + 1 < MaxRetry THEN "transient" ELSE "rejected")
  /\ UNCHANGED <<queue, outlook, effect, row>>

\* ConflictError: kept for another try until the tries are used up.
Judge(h) ==
  /\ hand[h].at = "judge"
  /\ ToRecord(h, IF row[hand[h].event].attempts < MaxRetry THEN "transient" ELSE "rejected")
  /\ UNCHANGED <<queue, outlook, effect, row>>

\* The database fails on the way, before the commit or after it but before the
\* thread hears of it.  What the device is told is the same.
Falter(h) ==
  LET e == hand[h].event IN
  /\ hand[h].at \in {"locate", "apply"}
  /\ ToRecord(h, "transient")
  /\ \/ UNCHANGED effect
     \/ /\ hand[h].at = "apply" /\ effect[e] = 0 /\ outlook[e] = "ready"
        /\ effect' = [effect EXCEPT ![e] = 1]
  /\ UNCHANGED <<queue, outlook, row>>

Stored(answer) == IF answer = "transient" THEN "retryable" ELSE answer

CountUp(n) == IF n < MaxRetry THEN n + 1 ELSE MaxRetry

\* What the first INSERT of an event leaves; only it stores the session id.
Inserted(e, answer) ==
  [status |-> Stored(answer), attempts |-> 1,
   linked |-> answer = "accepted" /\ ~IsFinish(e)]

\* Accepted is final.
Kept(old, answer) == IF old.status = "accepted" THEN "accepted" ELSE Stored(answer)

\* Mutants: the update forgets to count, or forgets that accepted is final.
WrittenUncounted(old, e, answer) ==
  IF old.status = "absent"
  THEN Inserted(e, answer)
  ELSE [status |-> Kept(old, answer), attempts |-> old.attempts, linked |-> old.linked]

WrittenOver(old, e, answer) ==
  IF old.status = "absent"
  THEN Inserted(e, answer)
  ELSE [status |-> Stored(answer), attempts |-> CountUp(old.attempts), linked |-> old.linked]

\* The row _record leaves: INSERT ... ON CONFLICT DO UPDATE, which counts the
\* attempt, never downgrades an accepted row and writes no session id.
Written(old, e, answer) ==
  IF old.status = "absent"
  THEN Inserted(e, answer)
  ELSE [status |-> Kept(old, answer), attempts |-> CountUp(old.attempts),
        linked |-> old.linked]

\* _record, in a transaction of its own.  A thread that lost the race for the
\* first INSERT may hit the other unique index; it then leaves the row as the
\* winner wrote it.
Record(h) ==
  LET e == hand[h].event IN
  /\ hand[h].at = "record"
  /\ \/ row' = [row EXCEPT ![e] = Written(@, e, hand[h].answer)]
     \/ hand[h].first /\ row[e].status # "absent" /\ UNCHANGED row
  /\ GoTo(h, "answer")
  /\ UNCHANGED <<queue, outlook, effect>>

\* Recording a failure of the infrastructure is best effort.
SkipRecord(h) ==
  /\ hand[h].at = "record" /\ hand[h].answer = "transient"
  /\ GoTo(h, "answer")
  /\ UNCHANGED <<queue, outlook, effect, row>>

\* The answer reaches the device, which drops the event unless it is transient.
Answer(h) ==
  /\ hand[h].at = "answer"
  /\ queue' = IF hand[h].answer = "transient" THEN queue ELSE queue \ {hand[h].event}
  /\ hand' = [hand EXCEPT ![h] = Idle]
  /\ UNCHANGED <<outlook, effect, row>>

\* The thread dies, its last transaction raises, or the answer is lost.
Vanish(h) ==
  /\ hand[h].at # "idle"
  /\ hand' = [hand EXCEPT ![h] = Idle]
  /\ UNCHANGED <<queue, outlook, effect, row>>

-----------------------------------------------------------------------------

Init ==
  /\ queue = Event
  /\ outlook = [e \in Event |-> "ready"]
  /\ effect = [e \in Event |-> 0]
  /\ row = [e \in Event |-> NoRow]
  /\ hand = [h \in Handler |-> Idle]

Progress(h) == Locate(h) \/ Apply(h) \/ Judge(h) \/ Record(h) \/ Answer(h)
Trouble(h)  == Falter(h) \/ SkipRecord(h) \/ Vanish(h)

Next ==
  \/ \E e \in Event : Shift(e)
  \/ \E h \in Handler, e \in Event : Receive(h, e)
  \/ \E h \in Handler : Progress(h) \/ Trouble(h)

Spec == Init /\ [][Next]_vars

\* No request runs for ever, the device sends what it keeps again and again, and
\* neither the network nor the database fails one event at the same point every
\* time it gets there; the word that an event is settled gets through in the end.
FinalRecord(h) == hand[h].answer # "transient" /\ Record(h)
FinalAnswer(h) == hand[h].answer # "transient" /\ Answer(h)
For(e, act(_)) == \E h \in Handler : hand[h].event = e /\ act(h)

Fairness ==
  /\ \A h \in Handler : WF_vars(Progress(h) \/ Trouble(h))
  /\ \A e \in Event :
    /\ SF_vars(e \in queue /\ \E h \in Handler : Receive(h, e))
    /\ SF_vars(For(e, Locate))
    /\ SF_vars(For(e, Apply))
    /\ SF_vars(For(e, Judge))
    /\ SF_vars(For(e, Record))
    /\ SF_vars(For(e, FinalRecord))
    /\ SF_vars(For(e, FinalAnswer))

FairSpec == Spec /\ Fairness

-----------------------------------------------------------------------------
(* Properties *)

\* Every part of the state has its shape; no event is applied twice.
TypeOK ==
  /\ queue \subseteq Event
  /\ \A e \in Event : outlook[e] \in Outlook(e)
  /\ DOMAIN outlook = Event
  /\ effect \in [Event -> 0..1]
  /\ row \in [Event -> RowType]
  /\ hand \in [Handler -> HandType]

Delivery == INSTANCE EventDelivery WITH
  times <- effect, onFile <- {e \in Event : row[e].status # "absent"}, kept <- queue

\* However requests are repeated, overlap and break off, process_event keeps the
\* promise of EventDelivery: at most once, START before FINISH, nothing dropped
\* by the device that neither took effect nor has a row a supervisor can see.
DeliversOnce == Delivery!DSpec

\* An accepted row tells the truth, and goes on telling it: its event took
\* effect, and no slower thread of the same event overwrites it.
AcceptedStands ==
  [][\A e \in Event : row[e].status = "accepted" =>
       /\ effect[e] = 1
       /\ row'[e].status = "accepted"]_vars

\* Work ends only where its beginning is on record: the START an event looked up
\* before it was applied is still accepted, with its session, whatever other
\* threads wrote in between and however often either was repeated.
FinishRestsOnStart ==
  \A e \in Event : IsFinish(e) /\ effect[e] = 1 =>
     row[StartOf(e)].status = "accepted" /\ row[StartOf(e)].linked

\* Failures of the infrastructure use up tries, but reject nothing: an event
\* production never stands in the way of is rejected only if it is a FINISH
\* that waited for its START until its tries were spent.
OutageRejectsNothing ==
  [][\A e \in Event \ Obstructed :
       row[e].status # "rejected" /\ row'[e].status = "rejected" =>
          IsFinish(e) /\ row[e].attempts = MaxRetry]_vars

\* The device gets rid of every event: whatever production says of it, the
\* tries are counted and the last one is final (MAX_RETRY_ATTEMPTS).
EveryEventAnswered == \A e \in Event : <>(e \notin queue)

\* Said by the offline retry lifecycle (INVARIANTS.md section 7 and its tests),
\* and not kept: work whose START was first refused as a conflict and then
\* accepted is not lost.  Once the START is accepted, a FINISH nothing stands in
\* the way of is applied, unless it had already used its tries up.
RetriedWorkIsKept ==
  \A e \in Event : IsFinish(e) =>
     (row[StartOf(e)].status = "accepted" /\ row[e].status # "rejected")
        ~> effect[e] = 1
=============================================================================
