------------------------- MODULE OfflineSync_proofs -------------------------
(***************************************************************************)
(* Offline synchronisation keeps the promise of EventDelivery, for any      *)
(* number of events, of request threads and of tries.                       *)
(***************************************************************************)
EXTENDS OfflineSync, TLAPS

\* What a thread knows of its event when it has come to a place.
HandKnows(h) ==
  LET e == hand[h].event IN
  /\ hand[h].at # "idle" => e \in Event
  /\ (hand[h].at = "apply" /\ IsFinish(e)) => effect[StartOf(e)] = 1
  /\ (hand[h].at \in {"record", "answer"} /\ hand[h].answer = "accepted") => effect[e] = 1
  /\ hand[h].at = "record" => hand[h].answer \in {"accepted", "transient", "rejected"}
  /\ hand[h].at = "answer" =>
        hand[h].answer = "transient" \/ row[e].status # "absent"

\* An accepted row tells the truth.
RowKnows(e) == row[e].status = "accepted" => effect[e] = 1

SyncInv == TypeOK /\ (\A h \in Handler : HandKnows(h)) /\ (\A e \in Event : RowKnows(e))

-----------------------------------------------------------------------------
(* What a step of a thread does to the threads *)

LEMMA EventFacts ==
  \A e \in Event : StartOf(e) \in Event /\ ~IsFinish(StartOf(e)) /\ StartOf(e) = <<e[1], "START">>
BY DEF Event, StartOf, IsFinish

\* Only thread h moves, and it keeps its event.
Moves(h, place, answer) ==
  /\ hand' \in [Handler -> HandType]
  /\ hand'[h].at = place /\ hand'[h].answer = answer /\ hand'[h].event = hand[h].event
  /\ \A g \in Handler \ {h} : hand'[g] = hand[g]

LEMMA GoToMoves ==
  ASSUME hand \in [Handler -> HandType], NEW h \in Handler,
         NEW place \in {"idle", "locate", "apply", "judge", "record", "answer"},
         GoTo(h, place)
  PROVE  Moves(h, place, hand[h].answer)
<1> DEFINE r == Handling(place, hand[h].event, hand[h].answer, hand[h].first)
<1>1. hand' = [hand EXCEPT ![h] = r]
  BY DEF GoTo
<1>2. r \in HandType
  BY DEF HandType, Handling
<1> QED
  BY <1>1, <1>2 DEF Moves, HandType, Handling

LEMMA ToRecordMoves ==
  ASSUME hand \in [Handler -> HandType], NEW h \in Handler,
         NEW a \in {"accepted", "transient", "rejected"},
         ToRecord(h, a)
  PROVE  Moves(h, "record", a)
<1> DEFINE r == Handling("record", hand[h].event, a, row[hand[h].event].status = "absent")
<1>1. hand' = [hand EXCEPT ![h] = r]
  BY DEF ToRecord
<1>2. r \in HandType
  BY DEF HandType, Handling
<1> QED
  BY <1>1, <1>2 DEF Moves, HandType, Handling

\* The state a fresh kiosk and server start in.
LEMMA SyncInit == Init => SyncInv
<1> SUFFICES ASSUME Init PROVE SyncInv
  OBVIOUS
<1>1. TypeOK
  <2>1. NoRow \in RowType
    BY SyncAssumption DEF NoRow, RowType, Status
  <2>2. Idle \in HandType
    BY DEF Idle, Handling, HandType
  <2> QED
    BY <2>1, <2>2, SyncAssumption DEF Init, TypeOK, Outlook
<1>2. \A h \in Handler : HandKnows(h)
  BY DEF Init, HandKnows, Idle, Handling
<1>3. \A e \in Event : RowKnows(e)
  BY DEF Init, RowKnows, NoRow
<1> QED
  BY <1>1, <1>2, <1>3 DEF SyncInv

-----------------------------------------------------------------------------
(* The steps *)

\* A thread that does not move keeps what it knows: effects stay, rows stay.
LEMMA OthersKnow ==
  ASSUME TypeOK, NEW h \in Handler, HandKnows(h),
         hand'[h] = hand[h],
         \A e \in Event : effect[e] = 1 => effect'[e] = 1,
         \A e \in Event : row[e].status # "absent" => row'[e].status # "absent"
  PROVE  HandKnows(h)'
BY EventFacts DEF HandKnows

\* A step that leaves effects and rows alone and moves one thread, which knows
\* what its new place asks of it, keeps the invariant.
LEMMA MoveKeeps ==
  ASSUME SyncInv, NEW h \in Handler, NEW place, NEW a, Moves(h, place, a),
         HandKnows(h)',
         UNCHANGED <<queue, outlook, effect, row>>
  PROVE  SyncInv'
<1>1. TypeOK'
  BY DEF SyncInv, TypeOK, Moves, Outlook, IsFinish
<1>2. \A g \in Handler : HandKnows(g)'
  BY OthersKnow DEF SyncInv, Moves
<1>3. \A e \in Event : RowKnows(e)'
  BY DEF SyncInv, RowKnows
<1> QED
  BY <1>1, <1>2, <1>3 DEF SyncInv

LEMMA ShiftKeeps == ASSUME SyncInv, NEW e \in Event, Shift(e) PROVE SyncInv'
<1>1. TypeOK'
  BY SyncAssumption DEF SyncInv, TypeOK, Shift, Outlook, IsFinish
<1>2. \A g \in Handler : HandKnows(g)'
  BY OthersKnow DEF SyncInv, Shift
<1>3. \A x \in Event : RowKnows(x)'
  BY DEF SyncInv, RowKnows, Shift
<1> QED
  BY <1>1, <1>2, <1>3 DEF SyncInv

LEMMA ReceiveKeeps ==
  ASSUME SyncInv, NEW h \in Handler, NEW e \in Event, Receive(h, e) PROVE SyncInv'
<1> DEFINE r == IF Settled(e) THEN Handling("answer", e, "duplicate", FALSE)
                              ELSE Handling("locate", e, "none", FALSE)
<1>1. hand' = [hand EXCEPT ![h] = r] /\ UNCHANGED <<queue, outlook, effect, row>>
  BY DEF Receive
<1>2. r \in HandType
  BY DEF HandType, Handling
<1>3. TypeOK'
  BY <1>1, <1>2 DEF SyncInv, TypeOK, Outlook, IsFinish
<1>4. hand'[h] = r
  BY <1>1 DEF SyncInv, TypeOK
<1>5. HandKnows(h)'
  BY <1>1, <1>4 DEF HandKnows, Handling, Settled
<1>6. \A g \in Handler : HandKnows(g)'
  BY <1>1, <1>5, OthersKnow DEF SyncInv, TypeOK
<1>7. \A x \in Event : RowKnows(x)'
  BY <1>1 DEF SyncInv, RowKnows
<1> QED
  BY <1>3, <1>6, <1>7 DEF SyncInv

LEMMA LocateKeeps == ASSUME SyncInv, NEW h \in Handler, Locate(h) PROVE SyncInv'
<1> DEFINE e == hand[h].event
<1>1. hand \in [Handler -> HandType] /\ HandKnows(h) /\ hand[h].at = "locate"
        /\ UNCHANGED <<queue, outlook, effect, row>>
  BY DEF SyncInv, TypeOK, Locate
<1>2. e \in Event
  BY <1>1 DEF HandKnows
<1>3. CASE GoTo(h, "judge")
  <2>1. Moves(h, "judge", hand[h].answer)
    BY <1>1, <1>3, GoToMoves
  <2>2. HandKnows(h)'
    BY <1>2, <2>1 DEF Moves, HandKnows
  <2> QED
    BY <1>1, <2>1, <2>2, MoveKeeps
<1>4. CASE ToRecord(h, "rejected")
  <2>1. Moves(h, "record", "rejected")
    BY <1>1, <1>4, ToRecordMoves
  <2>2. HandKnows(h)'
    BY <1>2, <2>1 DEF Moves, HandKnows
  <2> QED
    BY <1>1, <2>1, <2>2, MoveKeeps
<1>5. CASE GoTo(h, "apply") /\ (IsFinish(e) => row[StartOf(e)].status = "accepted")
  <2>1. Moves(h, "apply", hand[h].answer)
    BY <1>1, <1>5, GoToMoves
  <2>2. IsFinish(e) => effect[StartOf(e)] = 1
    BY <1>2, <1>5, EventFacts DEF SyncInv, RowKnows
  <2>3. HandKnows(h)'
    BY <1>1, <1>2, <2>1, <2>2 DEF Moves, HandKnows, IsFinish, StartOf
  <2> QED
    BY <1>1, <2>1, <2>3, MoveKeeps
<1>6. \/ IsFinish(e) /\ GoTo(h, IF row[StartOf(e)].status = "accepted" /\ row[StartOf(e)].linked
                                 THEN "apply" ELSE "judge")
      \/ ~IsFinish(e) /\ GoTo(h, "apply")
      \/ GoTo(h, "judge")
      \/ ToRecord(h, "rejected")
  BY DEF Locate
<1> QED
  BY <1>3, <1>4, <1>5, <1>6

LEMMA JudgeKeeps == ASSUME SyncInv, NEW h \in Handler, Judge(h) PROVE SyncInv'
<1>1. hand \in [Handler -> HandType] /\ HandKnows(h) /\ hand[h].at = "judge"
        /\ UNCHANGED <<queue, outlook, effect, row>>
  BY DEF SyncInv, TypeOK, Judge
<1>2. PICK a \in {"transient", "rejected"} : ToRecord(h, a)
  BY DEF Judge
<1>3. Moves(h, "record", a)
  BY <1>1, <1>2, ToRecordMoves
<1>4. HandKnows(h)'
  BY <1>1, <1>3 DEF Moves, HandKnows
<1> QED
  BY <1>1, <1>3, <1>4, MoveKeeps

LEMMA SkipRecordKeeps == ASSUME SyncInv, NEW h \in Handler, SkipRecord(h) PROVE SyncInv'
<1>1. hand \in [Handler -> HandType] /\ HandKnows(h) /\ hand[h].at = "record"
        /\ hand[h].answer = "transient" /\ GoTo(h, "answer")
        /\ UNCHANGED <<queue, outlook, effect, row>>
  BY DEF SyncInv, TypeOK, SkipRecord
<1>2. Moves(h, "answer", "transient")
  BY <1>1, GoToMoves
<1>3. HandKnows(h)'
  BY <1>1, <1>2 DEF Moves, HandKnows
<1> QED
  BY <1>1, <1>2, <1>3, MoveKeeps

\* A step in which the event of thread h may take effect, and h comes to record.
LEMMA EffectKeeps ==
  ASSUME SyncInv, NEW h \in Handler, NEW a \in {"accepted", "transient"},
         hand[h].at = "apply", ToRecord(h, a),
         effect' = [effect EXCEPT ![hand[h].event] = 1],
         UNCHANGED <<queue, outlook, row>>
  PROVE  SyncInv'
<1> DEFINE e == hand[h].event
<1>1. TypeOK /\ HandKnows(h) /\ hand \in [Handler -> HandType]
  BY DEF SyncInv, TypeOK
<1>2. e \in Event
  BY <1>1 DEF HandKnows
<1>3. Moves(h, "record", a)
  BY <1>1, ToRecordMoves
<1>4. effect' \in [Event -> 0..1] /\ effect'[e] = 1
        /\ \A x \in Event : effect[x] = 1 => effect'[x] = 1
  BY <1>1, <1>2 DEF TypeOK
<1>5. TypeOK'
  BY <1>1, <1>3, <1>4 DEF TypeOK, Moves, Outlook, IsFinish
<1>6. HandKnows(h)'
  BY <1>2, <1>3, <1>4 DEF Moves, HandKnows
<1>7. \A g \in Handler : HandKnows(g)'
  BY <1>1, <1>3, <1>4, <1>6, OthersKnow DEF SyncInv, Moves
<1>8. \A x \in Event : RowKnows(x)'
  BY <1>4 DEF SyncInv, RowKnows
<1> QED
  BY <1>5, <1>7, <1>8 DEF SyncInv

LEMMA ApplyKeeps == ASSUME SyncInv, NEW h \in Handler, Apply(h) PROVE SyncInv'
<1> DEFINE e == hand[h].event
<1>1. hand \in [Handler -> HandType] /\ HandKnows(h) /\ hand[h].at = "apply"
        /\ effect \in [Event -> 0..1] /\ UNCHANGED <<queue, outlook, row>>
  BY DEF SyncInv, TypeOK, Apply
<1>2. e \in Event
  BY <1>1 DEF HandKnows
<1>3. CASE effect[e] > 0 /\ ToRecord(h, "accepted") /\ UNCHANGED effect
  <2>1. Moves(h, "record", "accepted") /\ effect[e] = 1
    BY <1>1, <1>2, <1>3, ToRecordMoves
  <2>2. HandKnows(h)'
    BY <1>2, <1>3, <2>1 DEF Moves, HandKnows
  <2> QED
    BY <1>1, <1>3, <2>1, <2>2, MoveKeeps
<1>4. CASE ToRecord(h, "accepted") /\ effect' = [effect EXCEPT ![e] = 1]
  BY <1>1, <1>4, EffectKeeps
<1>5. CASE GoTo(h, "judge") /\ UNCHANGED effect
  <2>1. Moves(h, "judge", hand[h].answer)
    BY <1>1, <1>5, GoToMoves
  <2>2. HandKnows(h)'
    BY <1>2, <2>1 DEF Moves, HandKnows
  <2> QED
    BY <1>1, <1>5, <2>1, <2>2, MoveKeeps
<1>6. CASE ToRecord(h, "rejected") /\ UNCHANGED effect
  <2>1. Moves(h, "record", "rejected")
    BY <1>1, <1>6, ToRecordMoves
  <2>2. HandKnows(h)'
    BY <1>2, <2>1 DEF Moves, HandKnows
  <2> QED
    BY <1>1, <1>6, <2>1, <2>2, MoveKeeps
<1> QED
  BY <1>3, <1>4, <1>5, <1>6 DEF Apply

LEMMA FalterKeeps == ASSUME SyncInv, NEW h \in Handler, Falter(h) PROVE SyncInv'
<1> DEFINE e == hand[h].event
<1>1. hand \in [Handler -> HandType] /\ HandKnows(h) /\ hand[h].at \in {"locate", "apply"}
        /\ ToRecord(h, "transient") /\ UNCHANGED <<queue, outlook, row>>
  BY DEF SyncInv, TypeOK, Falter
<1>2. CASE UNCHANGED effect
  <2>1. Moves(h, "record", "transient")
    BY <1>1, ToRecordMoves
  <2>2. HandKnows(h)'
    BY <1>1, <2>1 DEF Moves, HandKnows
  <2> QED
    BY <1>1, <1>2, <2>1, <2>2, MoveKeeps
<1>3. CASE hand[h].at = "apply" /\ effect' = [effect EXCEPT ![e] = 1]
  BY <1>1, <1>3, EffectKeeps
<1> QED
  BY <1>2, <1>3 DEF Falter

\* What _record leaves of a row.
LEMMA WrittenRow ==
  ASSUME NEW old \in RowType, NEW e \in Event, NEW a \in {"accepted", "transient", "rejected"}
  PROVE  /\ Written(old, e, a) \in RowType
         /\ Written(old, e, a).status # "absent"
         /\ old.status = "accepted" => Written(old, e, a).status = "accepted"
         /\ Written(old, e, a).status = "accepted" => old.status = "accepted" \/ a = "accepted"
<1>1. 1 \in 0..MaxRetry /\ \A n \in 0..MaxRetry : CountUp(n) \in 0..MaxRetry
  BY SyncAssumption DEF CountUp
<1>2. Inserted(e, a) \in RowType /\ Inserted(e, a).status = Stored(a)
  BY <1>1 DEF Inserted, RowType, Status, Stored
<1>3. Stored(a) \in {"retryable", "accepted", "rejected"} /\ (Stored(a) = "accepted" => a = "accepted")
  BY DEF Stored
<1>4. CASE old.status = "absent"
  BY <1>2, <1>3, <1>4 DEF Written
<1>5. CASE old.status # "absent"
  <2> DEFINE new == [status |-> Kept(old, a), attempts |-> CountUp(old.attempts),
                     linked |-> old.linked]
  <2>1. Written(old, e, a) = new
    BY <1>5 DEF Written
  <2>2. Kept(old, a) \in Status \ {"absent"}
          /\ (old.status = "accepted" => Kept(old, a) = "accepted")
          /\ (Kept(old, a) = "accepted" => old.status = "accepted" \/ a = "accepted")
    BY <1>3 DEF Kept, Status
  <2>3. old.attempts \in 0..MaxRetry /\ old.linked \in BOOLEAN
    BY DEF RowType
  <2>4. new \in RowType /\ new.status = Kept(old, a)
    BY <1>1, <2>2, <2>3 DEF RowType
  <2> QED
    BY <2>1, <2>2, <2>4
<1> QED
  BY <1>4, <1>5

LEMMA RecordKeeps == ASSUME SyncInv, NEW h \in Handler, Record(h) PROVE SyncInv'
<1> DEFINE e == hand[h].event
           a == hand[h].answer
           w == Written(row[e], e, a)
<1>1. TypeOK /\ HandKnows(h) /\ hand \in [Handler -> HandType] /\ hand[h].at = "record"
        /\ row \in [Event -> RowType] /\ UNCHANGED <<queue, outlook, effect>>
  BY DEF SyncInv, TypeOK, Record
<1>2. e \in Event /\ a \in {"accepted", "transient", "rejected"} /\ (a = "accepted" => effect[e] = 1)
  BY <1>1 DEF HandKnows
<1>3. Moves(h, "answer", a)
  BY <1>1, GoToMoves DEF Record
<1>4. CASE row' = [row EXCEPT ![e] = w]
  <2>1. w \in RowType /\ w.status # "absent" /\ (w.status = "accepted" => effect[e] = 1)
    BY <1>1, <1>2, WrittenRow DEF SyncInv, RowKnows
  <2>2. row'[e] = w /\ \A x \in Event \ {e} : row'[x] = row[x]
    BY <1>1, <1>2, <1>4
  <2>3. TypeOK'
    BY <1>1, <1>3, <1>4, <2>1 DEF TypeOK, Moves, Outlook, IsFinish
  <2>4. HandKnows(h)'
    BY <1>1, <1>2, <1>3, <2>1, <2>2 DEF Moves, HandKnows
  <2>5. \A x \in Event : row[x].status # "absent" => row'[x].status # "absent"
    BY <2>1, <2>2
  <2>6. \A g \in Handler : HandKnows(g)'
    BY <1>1, <1>3, <2>4, <2>5, OthersKnow DEF SyncInv, Moves
  <2>7. \A x \in Event : RowKnows(x)'
    BY <1>1, <2>1, <2>2 DEF SyncInv, RowKnows
  <2> QED
    BY <2>3, <2>6, <2>7 DEF SyncInv
<1>5. CASE row[e].status # "absent" /\ UNCHANGED row
  <2>1. HandKnows(h)'
    BY <1>1, <1>2, <1>3, <1>5 DEF Moves, HandKnows
  <2> QED
    BY <1>1, <1>3, <1>5, <2>1, MoveKeeps
<1> QED
  BY <1>4, <1>5 DEF Record

LEMMA IdleKeeps ==
  ASSUME SyncInv, NEW h \in Handler, hand' = [hand EXCEPT ![h] = Idle],
         queue' \subseteq Event, UNCHANGED <<outlook, effect, row>>
  PROVE  SyncInv'
<1>1. Idle \in HandType /\ Idle.at = "idle"
  BY DEF Idle, HandType, Handling
<1>2. TypeOK' /\ hand'[h] = Idle
  BY <1>1 DEF SyncInv, TypeOK, Outlook, IsFinish
<1>3. HandKnows(h)'
  BY <1>1, <1>2 DEF HandKnows
<1>4. \A g \in Handler : HandKnows(g)'
  BY <1>3, OthersKnow DEF SyncInv, TypeOK
<1>5. \A x \in Event : RowKnows(x)'
  BY DEF SyncInv, RowKnows
<1> QED
  BY <1>2, <1>4, <1>5 DEF SyncInv

LEMMA AnswerKeeps == ASSUME SyncInv, NEW h \in Handler, Answer(h) PROVE SyncInv'
<1>1. queue' \subseteq queue
  BY DEF Answer
<1> QED
  BY <1>1, IdleKeeps DEF Answer, SyncInv, TypeOK

LEMMA VanishKeeps == ASSUME SyncInv, NEW h \in Handler, Vanish(h) PROVE SyncInv'
BY IdleKeeps DEF Vanish, SyncInv, TypeOK

LEMMA SyncNext == SyncInv /\ [Next]_vars => SyncInv'
<1> SUFFICES ASSUME SyncInv, [Next]_vars PROVE SyncInv'
  OBVIOUS
<1>1. CASE \E e \in Event : Shift(e)
  BY <1>1, ShiftKeeps
<1>2. CASE \E h \in Handler, e \in Event : Receive(h, e)
  BY <1>2, ReceiveKeeps
<1>3. CASE \E h \in Handler : Progress(h)
  BY <1>3, LocateKeeps, ApplyKeeps, JudgeKeeps, RecordKeeps, AnswerKeeps DEF Progress
<1>4. CASE \E h \in Handler : Trouble(h)
  BY <1>4, FalterKeeps, SkipRecordKeeps, VanishKeeps DEF Trouble
<1>5. CASE UNCHANGED vars
  <2> USE <1>5 DEF vars
  <2>1. TypeOK'
    BY DEF SyncInv, TypeOK, Outlook, IsFinish
  <2>2. \A h \in Handler : HandKnows(h)'
    BY DEF SyncInv, HandKnows
  <2>3. \A e \in Event : RowKnows(e)'
    BY DEF SyncInv, RowKnows
  <2> QED
    BY <2>1, <2>2, <2>3 DEF SyncInv
<1> QED
  BY <1>1, <1>2, <1>3, <1>4, <1>5 DEF Next

LEMMA SyncAlways == Spec => []SyncInv
BY SyncInit, SyncNext, PTL DEF Spec

-----------------------------------------------------------------------------
(* Theorems *)

\* Every part of the state has its shape in every reachable state; in
\* particular no event takes effect twice, however often and on however many
\* threads process_event runs for it.
THEOREM TypeCorrect == Spec => []TypeOK
<1>1. SyncInv => TypeOK
  BY DEF SyncInv
<1> QED
  BY <1>1, SyncAlways, PTL

\* An accepted row of kiosk_client_events tells the truth for ever: its event
\* took effect, and no slower thread of the same event overwrites the row.
THEOREM AcceptedForever == Spec => AcceptedStands
<1>1. SyncInv /\ [Next]_vars =>
        [\A e \in Event : row[e].status = "accepted" =>
           /\ effect[e] = 1
           /\ row'[e].status = "accepted"]_vars
  <2> SUFFICES ASSUME SyncInv, [Next]_vars, NEW e \in Event, row[e].status = "accepted"
               PROVE  effect[e] = 1 /\ row'[e].status = "accepted"
    OBVIOUS
  <2>1. effect[e] = 1
    BY DEF SyncInv, RowKnows
  <2>2. CASE UNCHANGED row
    BY <2>1, <2>2
  <2>3. CASE \E h \in Handler : Record(h)
    <3> PICK h \in Handler : Record(h)
      BY <2>3
    <3> DEFINE x == hand[h].event
    <3>1. x \in Event /\ hand[h].answer \in {"accepted", "transient", "rejected"}
            /\ row \in [Event -> RowType]
      BY DEF SyncInv, HandKnows, Record, TypeOK
    <3>2. row' = [row EXCEPT ![x] = Written(row[x], x, hand[h].answer)] \/ UNCHANGED row
      BY DEF Record
    <3> DEFINE w == Written(row[x], x, hand[h].answer)
    <3>3. row[x].status = "accepted" => w.status = "accepted"
      BY <3>1, WrittenRow
    <3>4. row'[e] = row[e] \/ (e = x /\ row'[e] = w)
      <4> HIDE DEF w
      <4> QED
        BY <3>1, <3>2 DEF w
    <3>5. row'[e].status = "accepted"
      BY <3>3, <3>4
    <3> QED
      BY <2>1, <3>5
  <2>4. UNCHANGED row \/ \E h \in Handler : Record(h)
    BY DEF Next, vars, Shift, Receive, Progress, Trouble, Locate, Apply, Judge, Falter,
           SkipRecord, Answer, Vanish
  <2> QED
    BY <2>1, <2>2, <2>3, <2>4
<1> QED
  BY <1>1, SyncAlways, PTL DEF Spec, AcceptedStands

-----------------------------------------------------------------------------
(* Work ends only where its beginning is on record *)

\* The START of e is on record as accepted, with its session.
Anchored(e) == row[StartOf(e)].status = "accepted" /\ row[StartOf(e)].linked

\* Between the look-up of the START and the commit of the FINISH a thread holds
\* nothing but this fact.
AnchorInv ==
  /\ \A h \in Handler :
       hand[h].at = "apply" /\ IsFinish(hand[h].event) => Anchored(hand[h].event)
  /\ FinishRestsOnStart

\* Only _record writes rows.
LEMMA RowStep ==
  ASSUME SyncInv, [Next]_vars
  PROVE  \/ UNCHANGED row
         \/ \E h \in Handler :
              /\ hand[h].at = "record" /\ hand[h].event \in Event
              /\ hand[h].answer \in {"accepted", "transient", "rejected"}
              /\ row' = [row EXCEPT ![hand[h].event] =
                           Written(row[hand[h].event], hand[h].event, hand[h].answer)]
<1>1. ASSUME NEW h \in Handler, Record(h)
      PROVE  /\ hand[h].at = "record" /\ hand[h].event \in Event
             /\ hand[h].answer \in {"accepted", "transient", "rejected"}
             /\ \/ UNCHANGED row
                \/ row' = [row EXCEPT ![hand[h].event] =
                             Written(row[hand[h].event], hand[h].event, hand[h].answer)]
  BY <1>1 DEF SyncInv, HandKnows, Record
<1>2. UNCHANGED row \/ \E h \in Handler : Record(h)
  BY DEF Next, vars, Shift, Receive, Progress, Trouble, Locate, Apply, Judge, Falter,
         SkipRecord, Answer, Vanish
<1> QED
  BY <1>1, <1>2

\* An accepted row with its session stays so, whoever writes it again.
LEMMA AnchorStays ==
  ASSUME SyncInv, [Next]_vars, NEW e \in Event, Anchored(e)
  PROVE  Anchored(e)'
<1> DEFINE b == StartOf(e)
<1>1. b \in Event /\ row \in [Event -> RowType]
  BY EventFacts DEF SyncInv, TypeOK
<1>2. ASSUME NEW a PROVE LET w == Written(row[b], b, a) IN w.status = "accepted" /\ w.linked
  BY DEF Anchored, Written, Kept
<1>3. row'[b] = row[b] \/ \E a : row'[b] = Written(row[b], b, a)
  BY <1>1, RowStep
<1> QED
  BY <1>2, <1>3 DEF Anchored, StartOf

\* A thread comes to apply a FINISH by looking its START up, and from nowhere else.
LEMMA ComesToApply ==
  ASSUME SyncInv, [Next]_vars, NEW h \in Handler,
         hand'[h].at = "apply", IsFinish(hand'[h].event)
  PROVE  /\ hand'[h].event \in Event
         /\ \/ Anchored(hand'[h].event)
            \/ hand[h].at = "apply" /\ hand'[h].event = hand[h].event
<1> DEFINE e == hand[h].event
<1>1. hand \in [Handler -> HandType] /\ HandKnows(h) /\ \A g \in Handler : HandKnows(g)
  BY DEF SyncInv, TypeOK
<1>2. ASSUME NEW g \in Handler, NEW place, NEW a, NEW x, NEW f,
             hand' = [hand EXCEPT ![g] = Handling(place, x, a, f)], place # "apply"
      PROVE  hand'[h] = hand[h]
  BY <1>1, <1>2 DEF Handling
<1>3. ASSUME NEW g \in Handler, NEW x \in Event, Receive(g, x) PROVE hand'[h] = hand[h]
  BY <1>1, <1>3 DEF Receive, Handling
<1>4. ASSUME NEW g \in Handler, NEW place, GoTo(g, place), place # "apply"
      PROVE  hand'[h] = hand[h]
  BY <1>2, <1>4 DEF GoTo
<1>5. ASSUME NEW g \in Handler, NEW a, ToRecord(g, a) PROVE hand'[h] = hand[h]
  BY <1>2, <1>5 DEF ToRecord
<1>6. ASSUME NEW g \in Handler, hand' = [hand EXCEPT ![g] = Idle] PROVE hand'[h] = hand[h]
  BY <1>2, <1>6 DEF Idle
<1>7. ASSUME NEW g \in Handler, Locate(g), hand'[h] # hand[h]
      PROVE  hand'[h].event = e /\ e \in Event /\ Anchored(e)
  <2>1. GoTo(g, "apply") /\ (IsFinish(hand[g].event) => Anchored(hand[g].event))
        /\ hand[g].at = "locate"
    BY <1>4, <1>5, <1>7 DEF Locate, Anchored
  <2>2. g = h /\ hand'[h].event = e
    BY <1>1, <1>7, <2>1 DEF GoTo, Handling
  <2> QED
    BY <1>1, <2>1, <2>2 DEF HandKnows
<1>8. hand'[h] = hand[h] \/ \E g \in Handler : Locate(g)
  BY <1>3, <1>4, <1>5, <1>6 DEF Next, vars, Shift, Progress, Trouble, Apply, Judge,
     Record, Answer, Falter, SkipRecord, Vanish
<1> QED
  BY <1>1, <1>7, <1>8 DEF HandKnows

\* An event takes effect only under a thread that applies it.
LEMMA EffectStep ==
  ASSUME SyncInv, [Next]_vars, NEW e \in Event, effect'[e] # effect[e]
  PROVE  \E h \in Handler : hand[h].at = "apply" /\ hand[h].event = e
<1>1. effect \in [Event -> 0..1]
  BY DEF SyncInv, TypeOK
<1>2. ASSUME NEW h \in Handler, Apply(h) \/ Falter(h)
      PROVE  hand[h].at = "apply" /\ hand[h].event = e
  BY <1>1, <1>2 DEF Apply, Falter
<1>3. \E h \in Handler : Apply(h) \/ Falter(h)
  BY DEF Next, vars, Shift, Receive, Progress, Trouble, Locate, Judge, Record,
         SkipRecord, Answer, Vanish
<1> QED
  BY <1>2, <1>3

LEMMA AnchorNext == SyncInv /\ AnchorInv /\ [Next]_vars => AnchorInv'
<1> SUFFICES ASSUME SyncInv, AnchorInv, [Next]_vars PROVE AnchorInv'
  OBVIOUS
<1>1. ASSUME NEW h \in Handler, hand'[h].at = "apply", IsFinish(hand'[h].event)
      PROVE  row'[StartOf(hand'[h].event)].status = "accepted"
             /\ row'[StartOf(hand'[h].event)].linked
  <2>1. hand'[h].event \in Event /\ Anchored(hand'[h].event)
    BY <1>1, ComesToApply DEF AnchorInv
  <2>2. ASSUME NEW e \in Event, Anchored(e)
        PROVE  row'[StartOf(e)].status = "accepted" /\ row'[StartOf(e)].linked
    <3>1. Anchored(e)'
      BY <2>2, AnchorStays
    <3> QED
      BY <3>1 DEF Anchored
  <2> QED
    BY <2>1, <2>2
<1>2. ASSUME NEW e \in Event, IsFinish(e), effect'[e] = 1
      PROVE  Anchored(e)'
  <2>1. Anchored(e)
    BY <1>2, EffectStep DEF AnchorInv, FinishRestsOnStart, Anchored
  <2> QED
    BY <2>1, AnchorStays
<1> QED
  BY <1>1, <1>2 DEF AnchorInv, FinishRestsOnStart, Anchored

\* What a thread saw of a START before it applied the FINISH still holds when it
\* does, and ever after: no work ends whose beginning the server has not on record
\* with its session, for any number of threads and repetitions.
THEOREM FinishAnchored == Spec => []FinishRestsOnStart
<1>1. Init => AnchorInv
  BY DEF Init, AnchorInv, FinishRestsOnStart, Idle, Handling
<1>2. AnchorInv => FinishRestsOnStart
  BY DEF AnchorInv
<1> QED
  BY <1>1, <1>2, AnchorNext, SyncAlways, PTL DEF Spec

-----------------------------------------------------------------------------
(* Failures of the infrastructure reject nothing *)

\* e is a FINISH whose tries are spent.
Spent(e) == IsFinish(e) /\ row[e].attempts = MaxRetry

\* Of an event nothing stands in the way of, only a FINISH comes to be judged,
\* and only a spent one to be rejected.
OutageInv ==
  /\ \A e \in Event : row[e].status = "absent" => row[e].attempts = 0
  /\ \A e \in Event \ Obstructed : outlook[e] = "ready"
  /\ \A h \in Handler : hand[h].event \in Event \ Obstructed =>
       /\ hand[h].at = "judge" => IsFinish(hand[h].event)
       /\ hand[h].at = "record" /\ hand[h].answer = "rejected" => Spent(hand[h].event)

\* Tries are never taken back.
LEMMA SpentStays ==
  ASSUME SyncInv, OutageInv, [Next]_vars
  PROVE  /\ \A e \in Event : Spent(e) => Spent(e)'
         /\ \A e \in Event : row'[e].status = "absent" => row'[e].attempts = 0
<1> SUFFICES ASSUME NEW e \in Event
             PROVE  /\ Spent(e) => Spent(e)'
                    /\ row'[e].status = "absent" => row'[e].attempts = 0
  OBVIOUS
<1>1. row \in [Event -> RowType] /\ MaxRetry \in Nat /\ MaxRetry # 0
  BY SyncAssumption DEF SyncInv, TypeOK
<1>2. ASSUME NEW a \in {"accepted", "transient", "rejected"}
      PROVE  LET w == Written(row[e], e, a) IN
             /\ w.status # "absent"
             /\ row[e].attempts = MaxRetry => w.attempts = MaxRetry
  <2>1. Written(row[e], e, a).status # "absent"
    BY <1>1, WrittenRow
  <2>2. CountUp(MaxRetry) = MaxRetry
    BY <1>1 DEF CountUp
  <2>3. row[e].attempts = MaxRetry => row[e].status # "absent"
    BY <1>1 DEF OutageInv
  <2> QED
    BY <2>1, <2>2, <2>3 DEF Written
<1>3. row'[e] = row[e] \/ \E a \in {"accepted", "transient", "rejected"} :
                              row'[e] = Written(row[e], e, a)
  BY <1>1, RowStep
<1> QED
  BY <1>2, <1>3 DEF Spent, OutageInv, IsFinish

\* Where threads come from: the places that matter here.
LEMMA ComesToJudge ==
  ASSUME SyncInv, OutageInv, [Next]_vars, NEW h \in Handler,
         hand'[h].event \in Event \ Obstructed
  PROVE  /\ hand'[h].at = "judge" => IsFinish(hand'[h].event)
         /\ hand'[h].at = "record" /\ hand'[h].answer = "rejected" => Spent(hand'[h].event)
<1> DEFINE Fine(r) ==
             r.event \in Event \ Obstructed =>
               /\ r.at = "judge" => IsFinish(r.event)
               /\ r.at = "record" /\ r.answer = "rejected" => Spent(r.event)
<1>1. hand \in [Handler -> HandType] /\ \A g \in Handler : Fine(hand[g])
  BY DEF SyncInv, TypeOK, OutageInv
<1>2. ASSUME NEW g \in Handler, NEW r, Fine(r), hand' = [hand EXCEPT ![g] = r]
      PROVE  Fine(hand'[h])
  BY <1>1, <1>2
<1> HIDE DEF Fine
<1>3. ASSUME NEW g \in Handler, NEW place, GoTo(g, place),
             place = "judge" /\ hand[g].event \in Event \ Obstructed
                => IsFinish(hand[g].event),
             place # "record"
      PROVE  Fine(hand'[h])
  <2> DEFINE r == Handling(place, hand[g].event, hand[g].answer, hand[g].first)
  <2>1. Fine(r)
    BY <1>3 DEF Fine, Handling
  <2> QED
    BY <1>2, <1>3, <2>1 DEF GoTo
<1>4. ASSUME NEW g \in Handler, NEW a, ToRecord(g, a),
             a = "rejected" /\ hand[g].event \in Event \ Obstructed => Spent(hand[g].event)
      PROVE  Fine(hand'[h])
  <2> DEFINE r == Handling("record", hand[g].event, a, row[hand[g].event].status = "absent")
  <2>1. Fine(r)
    BY <1>4 DEF Fine, Handling
  <2> QED
    BY <1>2, <1>4, <2>1 DEF ToRecord
<1>5. ASSUME NEW g \in Handler, NEW e \in Event, Receive(g, e) PROVE Fine(hand'[h])
  <2> DEFINE r == IF Settled(e) THEN Handling("answer", e, "duplicate", FALSE)
                                ELSE Handling("locate", e, "none", FALSE)
  <2>1. Fine(r)
    BY DEF Fine, Handling
  <2> QED
    BY <1>2, <1>5, <2>1 DEF Receive
<1>6. ASSUME NEW g \in Handler, Locate(g) PROVE Fine(hand'[h])
  <2>1. hand[g].event \in Event \ Obstructed => outlook[hand[g].event] # "unread"
    BY DEF OutageInv
  <2> QED
    BY <1>3, <1>4, <1>6, <2>1 DEF Locate
<1>7. ASSUME NEW g \in Handler, Apply(g) PROVE Fine(hand'[h])
  <2>1. hand[g].event \in Event \ Obstructed => outlook[hand[g].event] = "ready"
    BY DEF OutageInv
  <2> QED
    BY <1>3, <1>4, <1>7, <2>1 DEF Apply
<1>8. ASSUME NEW g \in Handler, Judge(g) PROVE Fine(hand'[h])
  <2> DEFINE e == hand[g].event
  <2>1. e \in Event /\ row[e].attempts \in 0..MaxRetry /\ MaxRetry \in Nat
    BY <1>8, SyncAssumption DEF SyncInv, HandKnows, Judge, TypeOK, RowType
  <2>2. e \notin Obstructed /\ ~(row[e].attempts < MaxRetry) => Spent(e)
    BY <1>1, <1>8, <2>1 DEF Fine, Judge, Spent
  <2> QED
    BY <1>4, <1>8, <2>2 DEF Judge
<1>9. ASSUME NEW g \in Handler, Record(g) \/ SkipRecord(g) \/ Falter(g) PROVE Fine(hand'[h])
  BY <1>3, <1>4, <1>9 DEF Record, SkipRecord, Falter
<1>10. ASSUME NEW g \in Handler, Answer(g) \/ Vanish(g) PROVE Fine(hand'[h])
  <2>1. Fine(Idle)
    BY DEF Fine, Idle, Handling
  <2> QED
    BY <1>2, <1>10, <2>1 DEF Answer, Vanish
<1>11. ASSUME UNCHANGED vars \/ \E e \in Event : Shift(e) PROVE Fine(hand'[h])
  <2>1. hand'[h] = hand[h]
    BY <1>11 DEF vars, Shift
  <2> QED
    BY <1>1, <2>1 DEF Fine
<1>12. ASSUME \E g \in Handler : Progress(g) \/ Trouble(g) PROVE Fine(hand'[h])
  <2> PICK g \in Handler : Progress(g) \/ Trouble(g)
    BY <1>12
  <2>1. \/ Locate(g) \/ Apply(g) \/ Judge(g) \/ Record(g) \/ SkipRecord(g)
        \/ Falter(g) \/ Answer(g) \/ Vanish(g)
    BY DEF Progress, Trouble
  <2> QED
    BY <2>1, <1>6, <1>7, <1>8, <1>9, <1>10
<1>13. Fine(hand'[h])
  <2>1. \/ \E e \in Event : Shift(e)
        \/ \E g \in Handler, e \in Event : Receive(g, e)
        \/ \E g \in Handler : Progress(g) \/ Trouble(g)
        \/ UNCHANGED vars
    BY DEF Next
  <2> QED
    BY <2>1, <1>5, <1>11, <1>12
<1> QED
  BY <1>13 DEF Fine

LEMMA OutageNext == SyncInv /\ OutageInv /\ [Next]_vars => OutageInv'
<1> SUFFICES ASSUME SyncInv, OutageInv, [Next]_vars PROVE OutageInv'
  OBVIOUS
<1>1. \A e \in Event : row'[e].status = "absent" => row'[e].attempts = 0
  BY SpentStays
<1>2. \A e \in Event \ Obstructed : outlook'[e] = "ready"
  <2>1. outlook' = outlook \/ \E x \in Obstructed : \E o : outlook' = [outlook EXCEPT ![x] = o]
    BY DEF Next, vars, Shift, Receive, Progress, Trouble, Locate, Apply, Judge, Record,
           Falter, SkipRecord, Answer, Vanish
  <2>2. DOMAIN outlook = Event
    BY DEF SyncInv, TypeOK
  <2> QED
    BY <2>1, <2>2 DEF OutageInv
<1>3. ASSUME NEW h \in Handler, hand'[h].event \in Event \ Obstructed
      PROVE  /\ hand'[h].at = "judge" => IsFinish(hand'[h].event)
             /\ hand'[h].at = "record" /\ hand'[h].answer = "rejected" =>
                   IsFinish(hand'[h].event) /\ row'[hand'[h].event].attempts = MaxRetry
  <2>1. \A e \in Event : Spent(e) => IsFinish(e) /\ row'[e].attempts = MaxRetry
    BY SpentStays DEF Spent
  <2> QED
    BY <1>3, <2>1, ComesToJudge
<1> QED
  BY <1>1, <1>2, <1>3 DEF OutageInv, Spent

\* However long an outage lasts, and however many tries it uses up, it rejects no
\* event production does not stand in the way of: no START at all, and a FINISH
\* only after every try of it was spent.
THEOREM OutageHarmless == Spec => OutageRejectsNothing
<1>1. Init => OutageInv
  BY DEF Init, OutageInv, NoRow, Idle, Handling
<1>2. SyncInv /\ OutageInv /\ [Next]_vars =>
        [\A e \in Event \ Obstructed :
           row[e].status # "rejected" /\ row'[e].status = "rejected" =>
              IsFinish(e) /\ row[e].attempts = MaxRetry]_vars
  <2> SUFFICES ASSUME SyncInv, OutageInv, [Next]_vars, NEW e \in Event \ Obstructed,
                      row[e].status # "rejected", row'[e].status = "rejected"
               PROVE  Spent(e)
    BY DEF Spent
  <2>1. PICK h \in Handler :
          /\ hand[h].at = "record" /\ hand[h].event \in Event
          /\ row' = [row EXCEPT ![hand[h].event] =
                       Written(row[hand[h].event], hand[h].event, hand[h].answer)]
    BY RowStep
  <2>2. row \in [Event -> RowType]
    BY DEF SyncInv, TypeOK
  <2>3. hand[h].event = e /\ row'[e] = Written(row[e], e, hand[h].answer)
    BY <2>1, <2>2
  <2>4. hand[h].answer = "rejected"
    BY <2>3 DEF Written, Inserted, Kept, Stored
  <2> QED
    BY <2>1, <2>3, <2>4 DEF OutageInv
<1> QED
  BY <1>1, <1>2, OutageNext, SyncAlways, PTL DEF Spec, OutageRejectsNothing

-----------------------------------------------------------------------------
(* process_event implements EventDelivery *)

LEMMA SameEvents == Delivery!Event = Event /\ \A e : Delivery!StartOf(e) = StartOf(e)
BY DEF Delivery!Event, Event, Delivery!StartOf, StartOf

LEMMA DeliveryStep ==
  ASSUME NEW e \in Event, Delivery!TakeEffect(e) \/ Delivery!File(e) \/ Delivery!Forget(e)
  PROVE  Delivery!DNext
BY SameEvents DEF Delivery!DNext

\* The effect of an event is one TakeEffect of the abstract delivery.
LEMMA TakesEffect ==
  ASSUME SyncInv, NEW h \in Handler, hand[h].at = "apply",
         effect[hand[h].event] = 0,
         effect' = [effect EXCEPT ![hand[h].event] = 1],
         UNCHANGED <<queue, row>>
  PROVE  Delivery!DNext
<1> DEFINE e == hand[h].event
<1>1. e \in Event /\ (IsFinish(e) => effect[StartOf(e)] = 1)
  BY DEF SyncInv, HandKnows
<1>2. Delivery!TakeEffect(e)
  BY <1>1, SameEvents DEF Delivery!TakeEffect, IsFinish
<1> QED
  BY <1>1, <1>2, DeliveryStep

\* A row is filed, or the step is none of the abstract delivery's business.
LEMMA RecordFiles ==
  ASSUME SyncInv, NEW h \in Handler, Record(h)
  PROVE  Delivery!DNext \/ UNCHANGED Delivery!dvars
<1> DEFINE x == hand[h].event
           w == Written(row[x], x, hand[h].answer)
           filed == {e \in Event : row[e].status # "absent"}
<1>1. x \in Event /\ hand[h].answer \in {"accepted", "transient", "rejected"}
        /\ row \in [Event -> RowType] /\ UNCHANGED <<queue, effect>>
  BY DEF SyncInv, HandKnows, Record, TypeOK
<1>2. CASE UNCHANGED row
  BY <1>1, <1>2 DEF Delivery!dvars
<1>3. CASE row' = [row EXCEPT ![x] = w]
  <2>1. w.status # "absent"
    BY <1>1, WrittenRow
  <2>2. row'[x] = w /\ \A e \in Event \ {x} : row'[e] = row[e]
    BY <1>1, <1>3
  <2>3. filed' = filed \cup {x}
    BY <1>1, <2>1, <2>2
  <2>4. ASSUME NEW e \in Event, e = x PROVE Delivery!File(e)
    BY <1>1, <2>3, <2>4 DEF Delivery!File
  <2> QED
    BY <1>1, <2>4, DeliveryStep
<1> QED
  BY <1>2, <1>3 DEF Record

\* The device forgets an event only after an answer that stands on its effect
\* or on its row.
LEMMA AnswerForgets ==
  ASSUME SyncInv, NEW h \in Handler, Answer(h)
  PROVE  Delivery!DNext \/ UNCHANGED Delivery!dvars
<1> DEFINE x == hand[h].event
<1>1. x \in Event /\ UNCHANGED <<effect, row>>
        /\ (hand[h].answer = "transient" \/ row[x].status # "absent")
  BY DEF SyncInv, HandKnows, Answer
<1>2. CASE hand[h].answer = "transient"
  BY <1>1, <1>2 DEF Answer, Delivery!dvars
<1>3. CASE hand[h].answer # "transient"
  <2>1. queue' = queue \ {x}
    BY <1>3 DEF Answer
  <2>2. x \in {e \in Event : row[e].status # "absent"}
    BY <1>1, <1>3
  <2>3. Delivery!Forget(x)
    BY <1>1, <2>1, <2>2 DEF Delivery!Forget
  <2> QED
    BY <1>1, <2>3, DeliveryStep
<1> QED
  BY <1>2, <1>3

LEMMA StepDelivers == SyncInv /\ [Next]_vars => [Delivery!DNext]_(Delivery!dvars)
<1> SUFFICES ASSUME SyncInv, [Next]_vars
             PROVE  Delivery!DNext \/ UNCHANGED Delivery!dvars
  OBVIOUS
<1>1. CASE UNCHANGED <<queue, effect, row>>
  BY <1>1 DEF Delivery!dvars
<1>2. ASSUME NEW h \in Handler, Apply(h) PROVE Delivery!DNext \/ UNCHANGED Delivery!dvars
  <2>1. hand[h].at = "apply" /\ UNCHANGED <<queue, row>>
    BY <1>2 DEF Apply
  <2>3. CASE UNCHANGED effect
    BY <2>1, <2>3 DEF Delivery!dvars
  <2>4. CASE effect[hand[h].event] = 0 /\ effect' = [effect EXCEPT ![hand[h].event] = 1]
    BY <2>1, <2>4, TakesEffect
  <2> QED
    BY <1>2, <2>3, <2>4 DEF Apply
<1>3. ASSUME NEW h \in Handler, Falter(h) PROVE Delivery!DNext \/ UNCHANGED Delivery!dvars
  <2>1. CASE UNCHANGED effect
    BY <1>3, <2>1 DEF Falter, Delivery!dvars
  <2>2. CASE ~UNCHANGED effect
    BY <1>3, <2>2, TakesEffect DEF Falter
  <2> QED
    BY <2>1, <2>2
<1>4. CASE \E h \in Handler : Apply(h) \/ Falter(h)
  BY <1>2, <1>3, <1>4
<1>5. CASE \E h \in Handler : Record(h) \/ Answer(h)
  BY <1>5, RecordFiles, AnswerForgets
<1>6. CASE UNCHANGED vars \/ (\E e \in Event : Shift(e))
  BY <1>1, <1>6 DEF vars, Shift
<1>7. CASE \E h \in Handler : \/ \E e \in Event : Receive(h, e)
                             \/ Locate(h) \/ Judge(h) \/ SkipRecord(h) \/ Vanish(h)
  BY <1>1, <1>7 DEF Receive, Locate, Judge, SkipRecord, Vanish
<1> QED
  BY <1>4, <1>5, <1>6, <1>7 DEF Next, Progress, Trouble

\* However requests are repeated, overlap and break off between two transactions,
\* process_event delivers each event at most once, a START before its FINISH, and
\* the device drops nothing that neither took effect nor has a row at the server.
THEOREM SyncDelivers == Spec => DeliversOnce
<1>1. Init => Delivery!DInit
  BY SameEvents DEF Init, Delivery!DInit, NoRow
<1> QED
  BY <1>1, StepDelivers, SyncAlways, PTL DEF Spec, DeliversOnce, Delivery!DSpec
=============================================================================
