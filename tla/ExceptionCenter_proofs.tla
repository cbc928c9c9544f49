------------------------ MODULE ExceptionCenter_proofs ------------------------
(*************************************************************************)
(* Proofs about the exception center: whatever scans, reports and        *)
(* decisions overlap, the records of each fault are a log of incidents.  *)
(*************************************************************************)
EXTENDS ExceptionCenter, SequenceTheorems, TLAPS

-----------------------------------------------------------------------------
(* The records of one fault *)

\* EarlierAreOver, of one list of records.
Over(s) == \A i \in DOMAIN s :
             i < Len(s) => s[i].status \notin ACTIVE /\ ~s[i].condition_active

Statuses(s) == [i \in DOMAIN s |-> s[i].status]

\* What may become of the incidents of a fault in one step of the log.
Moves(f, a, b) ==
  \/ b = a
  \/ (a = <<>> \/ a[Len(a)] \notin ACTIVE) /\ b = Append(a, "OPEN")
  \/ /\ a # <<>> /\ a[Len(a)] \in ACTIVE
     /\ \E status : /\ b = [a EXCEPT ![Len(a)] = status]
                    /\ \/ status \in {"RESOLVED", "MANUAL_IGNORED"}
                       \/ status = "ACKNOWLEDGED" /\ a[Len(a)] = "OPEN"
                       \/ status = "AUTO_IGNORED" /\ f \notin Severe

\* A list of records that may follow another.
Follows(f, s, t) ==
  /\ t \in Seq(Record) /\ Len(t) >= Len(s)
  /\ Over(t)
  /\ Moves(f, Statuses(s), Statuses(t))

LEMMA ListType ==
  ASSUME NEW s \in Seq(Record)
  PROVE  /\ Len(s) \in Nat /\ DOMAIN s = 1 .. Len(s)
         /\ s = <<>> <=> Len(s) = 0
         /\ \A i \in 1 .. Len(s) : s[i] \in Record
<1>1. Len(s) \in Nat /\ DOMAIN s = 1 .. Len(s) /\ s \in [1 .. Len(s) -> Record]
  BY LenProperties
<1>2. s = <<>> <=> Len(s) = 0
  BY EmptySeq
<1> QED
  BY <1>1, <1>2

LEMMA StatusesType ==
  ASSUME NEW s \in Seq(Record)
  PROVE  /\ Statuses(s) \in Seq(Status) /\ Len(Statuses(s)) = Len(s)
         /\ DOMAIN Statuses(s) = 1 .. Len(s)
         /\ \A i \in 1 .. Len(s) : Statuses(s)[i] = s[i].status
<1>1. Statuses(s) = [i \in 1 .. Len(s) |-> s[i].status]
  BY ListType DEF Statuses
<1>2. \A i \in 1 .. Len(s) : s[i].status \in Status
  BY ListType DEF Record
<1>3. Statuses(s) \in [1 .. Len(s) -> Status] /\ Len(s) \in Nat
  BY <1>1, <1>2, ListType
<1>4. Statuses(s) \in Seq(Status)
  BY <1>3, SeqDef
<1>5. DOMAIN Statuses(s) = 1 .. Len(Statuses(s)) /\ Len(Statuses(s)) \in Nat
  BY <1>4, LenProperties
<1>6. DOMAIN Statuses(s) = 1 .. Len(s)
  BY <1>1
<1>7. Len(Statuses(s)) = Len(s)
  BY <1>3, <1>5, <1>6
<1> QED
  BY <1>1, <1>4, <1>6, <1>7

\* Records that differ in nothing but what the log does not show.
LEMMA SameStatuses ==
  ASSUME NEW s \in Seq(Record), NEW t \in Seq(Record), Len(t) = Len(s),
         \A i \in 1 .. Len(s) : t[i].status = s[i].status
  PROVE  Statuses(t) = Statuses(s)
  BY StatusesType, SeqEqual

LEMMA LastChanges ==
  ASSUME NEW s \in Seq(Record), NEW t \in Seq(Record), Len(t) = Len(s), s # <<>>,
         \A i \in 1 .. Len(s) - 1 : t[i].status = s[i].status
  PROVE  Statuses(t) = [Statuses(s) EXCEPT ![Len(Statuses(s))] = t[Len(s)].status]
<1> DEFINE u == [Statuses(s) EXCEPT ![Len(s)] = t[Len(s)].status]
<1>1. Len(s) \in 1 .. Len(s) /\ Len(s) \in Nat
  BY ListType
<1>2. t[Len(s)].status \in Status
  BY <1>1, ListType DEF Record
<1>3. /\ u \in Seq(Status) /\ Len(u) = Len(s)
      /\ \A i \in 1 .. Len(s) : u[i] = IF i = Len(s) THEN t[Len(s)].status ELSE s[i].status
  BY <1>1, <1>2, StatusesType, ExceptSeq
<1>4. \A i \in 1 .. Len(s) : u[i] = t[i].status
  BY <1>1, <1>3
<1>5. Statuses(t) = u
  <2> HIDE DEF u
  <2> QED
    BY <1>3, <1>4, StatusesType, SeqEqual
<1> QED
  BY <1>5, StatusesType

LEMMA NewIsRecord == New \in Record
  BY DEF New, Record, Status, ACTIVE

LEMMA Raise ==
  ASSUME NEW f, NEW s \in Seq(Record), Over(s), s = <<>> \/ ~Stands(s[Len(s)])
  PROVE  Follows(f, s, Append(s, New))
<1> DEFINE t == Append(s, New)
<1>1. /\ t \in Seq(Record) /\ Len(t) = Len(s) + 1 /\ t[Len(s) + 1] = New
      /\ \A i \in 1 .. Len(s) : t[i] = s[i]
  BY NewIsRecord, ListType, AppendProperties
<1>2. Over(t)
  BY <1>1, ListType DEF Over, Stands
<1>3. Statuses(t) = Append(Statuses(s), "OPEN")
  <2> DEFINE u == Append(Statuses(s), "OPEN")
  <2>1. "OPEN" \in Status
    BY DEF Status, ACTIVE
  <2>2. /\ u \in Seq(Status) /\ Len(u) = Len(s) + 1 /\ u[Len(s) + 1] = "OPEN"
        /\ \A i \in 1 .. Len(s) : u[i] = s[i].status
    BY <2>1, StatusesType, AppendProperties
  <2>3. \A i \in 1 .. Len(s) + 1 : u[i] = t[i].status
    BY <1>1, <2>2, ListType DEF New
  <2> HIDE DEF t, u
  <2> QED
    BY <1>1, <2>2, <2>3, StatusesType, SeqEqual DEF u
<1>4. Statuses(s) = <<>> \/ Statuses(s)[Len(Statuses(s))] \notin ACTIVE
  BY StatusesType, ListType, EmptySeq DEF Stands
<1> QED
  BY <1>1, <1>2, <1>3, <1>4, ListType DEF Follows, Moves

\* Whatever is recorded of the last incident, besides its status.
LEMMA Confirm ==
  ASSUME NEW f, NEW s \in Seq(Record), Over(s), s # <<>>
  PROVE  Follows(f, s, [s EXCEPT ![Len(s)].condition_active = TRUE])
<1> DEFINE t == [s EXCEPT ![Len(s)] = [s[Len(s)] EXCEPT !.condition_active = TRUE]]
<1>1. Len(s) \in 1 .. Len(s) /\ Len(s) \in Nat /\ s[Len(s)] \in Record
  BY ListType
<1>2. [s[Len(s)] EXCEPT !.condition_active = TRUE] \in Record
  BY <1>1 DEF Record
<1>3. /\ t \in Seq(Record) /\ Len(t) = Len(s)
      /\ \A i \in 1 .. Len(s) :
           t[i] = IF i = Len(s) THEN [s[Len(s)] EXCEPT !.condition_active = TRUE] ELSE s[i]
  BY <1>1, <1>2, ExceptSeq
<1>4. \A i \in 1 .. Len(s) : t[i].status = s[i].status
  BY <1>1, <1>3 DEF Record
<1>5. Over(t)
  <2> HIDE DEF t
  <2> QED
    BY <1>1, <1>3, ListType DEF Over
<1>6. Statuses(t) = Statuses(s)
  <2> HIDE DEF t
  <2> QED
    BY <1>3, <1>4, SameStatuses
<1> QED
  BY <1>1, <1>3, <1>5, <1>6 DEF Follows, Moves

LEMMA LapsedRecord ==
  ASSUME NEW f, NEW r \in Record
  PROVE  /\ Lapsed(f, r) \in Record /\ ~Lapsed(f, r).condition_active
         /\ ~r.condition_active => Lapsed(f, r) = r
         /\ \/ Lapsed(f, r).status = r.status
            \/ Lapsed(f, r).status = "AUTO_IGNORED" /\ r.status \in ACTIVE /\ f \notin Severe
<1>1. CASE ~r.condition_active
  BY <1>1 DEF Lapsed
<1>2. CASE r.condition_active /\ r.status \in ACTIVE /\ f \notin Severe
  <2>1. Lapsed(f, r) = [status |-> "AUTO_IGNORED", condition_active |-> FALSE,
                        row_version |-> r.row_version + 1]
    BY <1>2 DEF Lapsed
  <2>2. r.row_version + 1 \in Nat /\ "AUTO_IGNORED" \in Status
    BY DEF Record, Status
  <2>3. Lapsed(f, r) \in Record
    BY <2>1, <2>2 DEF Record
  <2> QED
    BY <1>2, <2>1, <2>3
<1>3. CASE r.condition_active /\ ~(r.status \in ACTIVE /\ f \notin Severe)
  <2>1. Lapsed(f, r) = [r EXCEPT !.condition_active = FALSE]
    BY <1>3 DEF Lapsed
  <2>2. /\ [r EXCEPT !.condition_active = FALSE] \in Record
        /\ [r EXCEPT !.condition_active = FALSE].condition_active = FALSE
        /\ [r EXCEPT !.condition_active = FALSE].status = r.status
    BY DEF Record
  <2> QED
    BY <1>3, <2>1, <2>2
<1>4. r.condition_active \in BOOLEAN
  BY DEF Record
<1> QED
  BY <1>1, <1>2, <1>3

LEMMA LetLapse ==
  ASSUME NEW f, NEW s \in Seq(Record), Over(s)
  PROVE  Follows(f, s, [i \in DOMAIN s |-> Lapsed(f, s[i])])
<1> DEFINE t == [i \in DOMAIN s |-> Lapsed(f, s[i])]
<1>1. Len(s) \in Nat /\ DOMAIN s = 1 .. Len(s) /\ \A i \in 1 .. Len(s) : s[i] \in Record
  BY ListType
<1>2. t \in [1 .. Len(s) -> Record] /\ \A i \in 1 .. Len(s) : t[i] = Lapsed(f, s[i])
  BY <1>1, LapsedRecord
<1>3. t \in Seq(Record) /\ DOMAIN t = 1 .. Len(s)
  <2> HIDE DEF t
  <2> QED
    BY <1>1, <1>2, SeqDef
<1>4. Len(t) = Len(s)
  <2> HIDE DEF t
  <2>1. Len(t) \in Nat /\ DOMAIN t = 1 .. Len(t)
    BY <1>3, LenProperties
  <2> QED
    BY <1>1, <1>3, <2>1
<1>5. \A i \in 1 .. Len(s) : i < Len(s) => t[i] = s[i]
  BY <1>1, <1>2, LapsedRecord DEF Over
<1>6. Over(t)
  <2> HIDE DEF t
  <2> QED
    BY <1>1, <1>3, <1>4, <1>5 DEF Over
<1>7. Moves(f, Statuses(s), Statuses(t))
  <2>1. CASE s = <<>>
    <3>1. \A i \in 1 .. Len(s) : t[i].status = s[i].status
      BY <2>1, ListType
    <3> HIDE DEF t
    <3> QED
      BY <1>3, <1>4, <3>1, SameStatuses DEF Moves
  <2>2. CASE s # <<>>
    <3>0. Len(s) \in 1 .. Len(s) /\ s[Len(s)] \in Record
      BY <1>1, <2>2, ListType
    <3>1. t[Len(s)] = Lapsed(f, s[Len(s)])
      BY <1>2, <3>0
    <3>2. CASE t[Len(s)].status = s[Len(s)].status
      <4>1. \A i \in 1 .. Len(s) : t[i].status = s[i].status
        <5> HIDE DEF t
        <5> QED
          BY <1>1, <1>5, <3>2
      <4> HIDE DEF t
      <4> QED
        BY <1>3, <1>4, <4>1, SameStatuses DEF Moves
    <3>3. CASE /\ t[Len(s)].status = "AUTO_IGNORED"
               /\ s[Len(s)].status \in ACTIVE /\ f \notin Severe
      <4>1. \A i \in 1 .. Len(s) - 1 : t[i].status = s[i].status
        <5> HIDE DEF t
        <5> QED
          BY <1>1, <1>5
      <4> HIDE DEF t
      <4>2. Statuses(t) = [Statuses(s) EXCEPT ![Len(Statuses(s))] = t[Len(s)].status]
        BY <1>3, <1>4, <2>2, <4>1, LastChanges
      <4>3. Statuses(s) # <<>> /\ Statuses(s)[Len(Statuses(s))] = s[Len(s)].status
        BY <3>0, <2>2, StatusesType, ListType, EmptySeq
      <4> QED
        BY <3>3, <4>2, <4>3 DEF Moves
    <3> QED
      BY <3>0, <3>1, <3>2, <3>3, LapsedRecord
  <2> QED
    BY <2>1, <2>2
<1> QED
  BY <1>1, <1>3, <1>4, <1>6, <1>7 DEF Follows

LEMMA Equal == ASSUME NEW m \in Int, NEW n \in Int, m <= n, ~(m < n) PROVE m = n
  OBVIOUS

LEMMA TurnedType ==
  ASSUME NEW r \in Record, NEW status \in Status
  PROVE  Turned(r, status) \in Record /\ Turned(r, status).status = status
<1>1. r.row_version + 1 \in Nat
  BY DEF Record
<1> QED
  BY <1>1 DEF Turned, Record

\* A decision about an undecided record, which is the last one.
LEMMA Turn ==
  ASSUME NEW f, NEW s \in Seq(Record), Over(s), NEW i \in 1 .. Len(s), s[i].status \in ACTIVE,
         NEW turn \in Status,
         turn \in {"RESOLVED", "MANUAL_IGNORED"} \/ (turn = "ACKNOWLEDGED" /\ s[i].status = "OPEN")
  PROVE  Follows(f, s, [s EXCEPT ![i] = Turned(@, turn)])
<1>0. Len(s) \in Nat
  BY ListType
<1>1. Len(s) \in Nat /\ DOMAIN s = 1 .. Len(s) /\ s[i] \in Record
  BY ListType
<1>2. s # <<>>
  BY <1>1, ListType
<1>3. i = Len(s)
  <2>1. i \in Int /\ i <= Len(s) /\ i \in DOMAIN s
    BY <1>1
  <2>2. ~(i < Len(s))
    BY <2>1 DEF Over
  <2> QED
    BY <1>0, <2>1, <2>2, Equal
<1> DEFINE r == Turned(s[i], turn)
           t == [s EXCEPT ![i] = r]
<1>r. r \in Record /\ r.status = turn
  BY <1>1, TurnedType
<1> HIDE DEF r
<1>4. /\ t \in Seq(Record) /\ Len(t) = Len(s)
      /\ \A j \in 1 .. Len(s) : t[j] = IF j = i THEN r ELSE s[j]
  BY <1>r, ExceptSeq
<1> HIDE DEF t
<1>5. Over(t)
  BY <1>1, <1>3, <1>4, ListType DEF Over
<1>6. \A j \in 1 .. Len(s) - 1 : t[j].status = s[j].status
  <2> TAKE j \in 1 .. Len(s) - 1
  <2>1. j \in 1 .. Len(s) /\ j # Len(s)
    BY <1>0
  <2> QED
    BY <1>3, <1>4, <2>1
<1>7. Statuses(t) = [Statuses(s) EXCEPT ![Len(Statuses(s))] = turn]
  <2>1. t[Len(s)] = r
    BY <1>3, <1>4
  <2>2. Statuses(t) = [Statuses(s) EXCEPT ![Len(Statuses(s))] = t[Len(s)].status]
    BY <1>2, <1>4, <1>6, LastChanges
  <2> QED
    BY <1>r, <2>1, <2>2
<1>8. Statuses(s) # <<>> /\ Statuses(s)[Len(Statuses(s))] = s[i].status
  BY <1>1, <1>2, <1>3, StatusesType, ListType, EmptySeq
<1>9. Moves(f, Statuses(s), Statuses(t))
  BY <1>7, <1>8 DEF Moves
<1>10. Follows(f, s, t)
  BY <1>1, <1>4, <1>5, <1>9 DEF Follows
<1> QED
  BY <1>10 DEF t, r

LEMMA Same ==
  ASSUME NEW f, NEW s \in Seq(Record), Over(s)
  PROVE  Follows(f, s, s)
  BY ListType DEF Follows, Moves

-----------------------------------------------------------------------------
(* The steps *)

Lists == records \in [Fault -> Seq(Record)] /\ EarlierAreOver

\* Only a thread that resolves a record comes to the check and the decision.
Deciding == \A w \in Watcher : watcher[w].at \in {"check", "decide"} => watcher[w].for # "scan"

LEMMA ConfirmedFollows ==
  ASSUME Lists, NEW f \in Fault
  PROVE  Follows(f, records[f], Confirmed(f))
<1>1. records[f] \in Seq(Record) /\ Over(records[f])
  BY DEF Lists, EarlierAreOver, Over
<1>2. CASE records[f] # <<>> /\ Stands(Prior(f))
  BY <1>1, <1>2, Confirm DEF Confirmed
<1>3. CASE ~(records[f] # <<>> /\ Stands(Prior(f)))
  <2>1. records[f] = <<>> \/ ~Stands(records[f][Len(records[f])])
    BY <1>3 DEF Prior
  <2>2. Confirmed(f) = Append(records[f], New)
    BY <1>3 DEF Confirmed
  <2> QED
    BY <1>1, <2>1, <2>2, Raise
<1> QED
  BY <1>2, <1>3

\* Every step moves the records of each fault as the log allows.
LEMMA StepFollows ==
  ASSUME TypeOK, Lists, Deciding, [Next]_vars, NEW f \in Fault
  PROVE  Follows(f, records[f], records'[f])
<1>0. /\ records \in [Fault -> Seq(Record)]
      /\ \A g \in Fault : records[g] \in Seq(Record) /\ Over(records[g])
      /\ \A g \in Fault : DOMAIN records[g] = 1 .. Len(records[g])
  BY ListType DEF Lists, EarlierAreOver, Over
<1>1. CASE UNCHANGED records
  BY <1>0, <1>1, Same
<1>2. ASSUME NEW g \in Fault, ReportInterrupted(g) PROVE Follows(f, records[f], records'[f])
  <2>1. CASE f = g
    BY <1>0, <1>2, <2>1, ConfirmedFollows DEF ReportInterrupted
  <2>2. CASE f # g
    BY <1>0, <1>2, <2>2, Same DEF ReportInterrupted
  <2> QED
    BY <2>1, <2>2
<1>3. ASSUME NEW w \in Watcher, Apply(w) PROVE Follows(f, records[f], records'[f])
  <2>1. records'[f] = IF f \in watcher[w].current THEN Confirmed(f) ELSE Lapse(f)
    BY <1>3 DEF Apply, Reconciled
  <2>2. Follows(f, records[f], Lapse(f))
    BY <1>0, LetLapse DEF Lapse
  <2> QED
    BY <2>1, <2>2, ConfirmedFollows
<1>4. ASSUME NEW g \in Fault, NEW i \in DOMAIN records[g], NEW status \in Status,
             records[g][i].status \in ACTIVE,
             status \in {"RESOLVED", "MANUAL_IGNORED"}
               \/ (status = "ACKNOWLEDGED" /\ records[g][i].status = "OPEN"),
             records' = [records EXCEPT ![g][i] = Turned(@, status)]
      PROVE  Follows(f, records[f], records'[f])
  <2>1. CASE f = g
    <3>1. records'[f] = [records[f] EXCEPT ![i] = Turned(@, status)]
      BY <1>0, <1>4, <2>1
    <3>2. i \in 1 .. Len(records[f])
      BY <1>0, <2>1
    <3> QED
      BY <1>0, <1>4, <2>1, <3>1, <3>2, Turn
  <2>2. CASE f # g
    <3>1. records'[f] = records[f]
      BY <1>0, <1>4, <2>2
    <3> QED
      BY <1>0, <3>1, Same
  <2> QED
    BY <2>1, <2>2
<1>5. ASSUME NEW w \in Watcher, Resolve(w) PROVE Follows(f, records[f], records'[f])
  <2>1. CASE ~MayDecide(Subject(w), watcher[w].expected)
    BY <1>1, <1>5, <2>1 DEF Resolve
  <2>2. CASE MayDecide(Subject(w), watcher[w].expected)
    <3> DEFINE g == watcher[w].fault
               i == watcher[w].occurrence
    <3>1. watcher[w].for # "scan"
      BY <1>5 DEF Resolve, TypeOK, Deciding
    <3>2. g \in Fault /\ i \in 1 .. Len(records[g])
      BY <3>1 DEF TypeOK
    <3>3. records[g][i].status \in ACTIVE
      BY <2>2 DEF MayDecide, Subject
    <3>4. records' = [records EXCEPT ![g][i] = Turned(@, "RESOLVED")]
      BY <1>5, <2>2 DEF Resolve
    <3> HIDE DEF g, i
    <3> QED
      BY <1>0, <1>4, <3>2, <3>3, <3>4 DEF Status
  <2> QED
    BY <2>1, <2>2
<1>6. ASSUME NEW g \in Fault, NEW i \in DOMAIN records[g], Acknowledge(g, i)
      PROVE  Follows(f, records[f], records'[f])
  BY <1>4, <1>6 DEF Acknowledge, Status, ACTIVE
<1>7. ASSUME NEW g \in Fault, NEW i \in DOMAIN records[g], Ignore(g, i)
      PROVE  Follows(f, records[f], records'[f])
  BY <1>4, <1>7 DEF Ignore, MayDecide, Status
<1> QED
  BY <1>1, <1>2, <1>3, <1>5, <1>6, <1>7
     DEF Next, Arise, Clear, Detect, Abort, AskResolve, Verify, Correct, vars

Inv == TypeOK /\ EarlierAreOver /\ Deciding

LEMMA InitInv == Init => Inv
<1> SUFFICES ASSUME Init PROVE Inv
  OBVIOUS
<1>1. Idle \in Task /\ Idle.for = "scan" /\ Idle.at = "idle"
  BY DEF Idle, Task
<1>2. \A w \in Watcher : watcher[w] = Idle
  BY DEF Init
<1>3. <<>> \in Seq(Record) /\ Len(<<>>) = 0
  BY EmptySeq
<1>4. \A f \in Fault : records[f] = <<>>
  BY DEF Init
<1>5. records \in [Fault -> Seq(Record)] /\ watcher \in [Watcher -> Task]
  BY <1>1, <1>3 DEF Init
<1>6. EarlierAreOver
  BY <1>3, <1>4, <1>5, LenProperties DEF EarlierAreOver
<1> QED
  BY <1>1, <1>2, <1>5, <1>6 DEF Inv, TypeOK, Deciding, Init

LEMMA NextWatcher ==
  ASSUME TypeOK, Deciding, [Next]_vars
  PROVE  /\ holds' \in SUBSET Fault
         /\ watcher' \in [Watcher -> Task]
         /\ Deciding'
         /\ \A w \in Watcher : watcher'[w].for # "scan" =>
              \/ /\ watcher[w].for # "scan"
                 /\ watcher'[w].fault = watcher[w].fault
                 /\ watcher'[w].occurrence = watcher[w].occurrence
              \/ /\ watcher'[w].fault \in Fault
                 /\ watcher'[w].occurrence \in DOMAIN records[watcher'[w].fault]
<1>0. /\ holds \in SUBSET Fault /\ watcher \in [Watcher -> Task]
      /\ Idle \in Task /\ Idle.for = "scan" /\ Idle.at = "idle"
  BY DEF TypeOK, Idle, Task
<1>1. CASE UNCHANGED watcher /\ holds' \in SUBSET Fault
  BY <1>0, <1>1 DEF Deciding
<1>2. ASSUME NEW w \in Watcher, NEW task \in Task, holds' \in SUBSET Fault,
             watcher' = [watcher EXCEPT ![w] = task],
             task.for # "scan" =>
               \/ /\ watcher[w].for # "scan"
                  /\ task.fault = watcher[w].fault /\ task.occurrence = watcher[w].occurrence
               \/ task.fault \in Fault /\ task.occurrence \in DOMAIN records[task.fault],
             task.at \in {"check", "decide"} => task.for # "scan"
      PROVE  /\ holds' \in SUBSET Fault /\ watcher' \in [Watcher -> Task] /\ Deciding'
             /\ \A v \in Watcher : watcher'[v].for # "scan" =>
                  \/ /\ watcher[v].for # "scan"
                     /\ watcher'[v].fault = watcher[v].fault
                     /\ watcher'[v].occurrence = watcher[v].occurrence
                  \/ /\ watcher'[v].fault \in Fault
                     /\ watcher'[v].occurrence \in DOMAIN records[watcher'[v].fault]
  <2>1. watcher'[w] = task /\ \A v \in Watcher \ {w} : watcher'[v] = watcher[v]
    BY <1>0, <1>2
  <2>2. watcher' \in [Watcher -> Task]
    BY <1>0, <1>2
  <2> QED
    BY <1>2, <2>1, <2>2 DEF Deciding
<1>3. ASSUME NEW w \in Watcher, Detect(w)
      PROVE  \E task \in Task :
               /\ watcher' = [watcher EXCEPT ![w] = task] /\ holds' = holds
               /\ task.for = watcher[w].for /\ task.fault = watcher[w].fault
               /\ task.occurrence = watcher[w].occurrence /\ task.at = "apply"
  <2> DEFINE task == [watcher[w] EXCEPT !.at = "apply", !.current = holds \cap Detected]
  <2>1. watcher' = [watcher EXCEPT ![w] = task] /\ holds' = holds
    BY <1>0, <1>3 DEF Detect
  <2>2. /\ task \in Task /\ task.for = watcher[w].for /\ task.fault = watcher[w].fault
        /\ task.occurrence = watcher[w].occurrence /\ task.at = "apply"
    BY <1>0 DEF Task
  <2> QED
    BY <2>1, <2>2
<1>4. ASSUME NEW w \in Watcher, Apply(w)
      PROVE  \E task \in Task :
               /\ watcher' = [watcher EXCEPT ![w] = task] /\ holds' = holds
               /\ \/ task = Idle
                  \/ /\ task.for = watcher[w].for /\ watcher[w].for # "scan"
                     /\ task.fault = watcher[w].fault /\ task.occurrence = watcher[w].occurrence
  <2> DEFINE task == [watcher[w] EXCEPT !.at = "check", !.current = {}]
  <2>1. task \in Task /\ task.for = watcher[w].for /\ task.fault = watcher[w].fault
        /\ task.occurrence = watcher[w].occurrence
    BY <1>0 DEF Task
  <2>2. CASE watcher[w].for = "scan"
    BY <1>0, <1>4, <2>2 DEF Apply
  <2>3. CASE watcher[w].for # "scan"
    <3>1. watcher' = [watcher EXCEPT ![w] = task] /\ holds' = holds
      BY <1>4, <2>3 DEF Apply
    <3> QED
      BY <2>1, <2>3, <3>1
  <2> QED
    BY <2>2, <2>3
<1>5. ASSUME NEW w \in Watcher, Abort(w) \/ Resolve(w)
      PROVE  watcher' = [watcher EXCEPT ![w] = Idle] /\ holds' = holds
  BY <1>5 DEF Abort, Resolve
<1>6. ASSUME NEW w \in Watcher, Verify(w)
      PROVE  \E task \in Task :
               /\ watcher' = [watcher EXCEPT ![w] = task] /\ holds' = holds
               /\ \/ task = Idle
                  \/ /\ task.for = watcher[w].for /\ watcher[w].for # "scan"
                     /\ task.fault = watcher[w].fault /\ task.occurrence = watcher[w].occurrence
  <2> DEFINE task == [watcher[w] EXCEPT !.at = "decide"]
  <2>1. task \in Task /\ task.for = watcher[w].for /\ task.fault = watcher[w].fault
        /\ task.occurrence = watcher[w].occurrence
    BY <1>0 DEF Task
  <2>2. watcher[w].for # "scan" /\ holds' = holds
    BY <1>6 DEF Verify, Deciding
  <2>3. watcher' = [watcher EXCEPT ![w] = Idle] \/ watcher' = [watcher EXCEPT ![w] = task]
    BY <1>6 DEF Verify
  <2> QED
    BY <1>0, <2>1, <2>2, <2>3
<1>7. ASSUME NEW w \in Watcher, NEW f \in Fault, NEW i \in DOMAIN records[f], AskResolve(w, f, i)
      PROVE  \E task \in Task :
               /\ watcher' = [watcher EXCEPT ![w] = task] /\ holds' = holds
               /\ task.at = "detect" /\ task.fault = f /\ task.occurrence = i
  <2> DEFINE task == [Idle EXCEPT !.at = "detect", !.for = "resolve", !.fault = f,
                                  !.occurrence = i, !.expected = records[f][i].row_version]
  <2>1. i \in Nat /\ records[f][i].row_version \in Nat
    <3>1. records[f] \in Seq(Record)
      BY DEF TypeOK
    <3>2. i \in 1 .. Len(records[f]) /\ Len(records[f]) \in Nat /\ records[f][i] \in Record
      BY <3>1, ListType
    <3> QED
      BY <3>2 DEF Record
  <2>2. task \in Task /\ task.at = "detect" /\ task.fault = f /\ task.occurrence = i
    BY <2>1 DEF Idle, Task
  <2> QED
    BY <1>7, <2>2 DEF AskResolve
<1>8. ASSUME NEW w \in Watcher, NEW f \in Fault, NEW i \in DOMAIN records[f], Correct(w, f, i)
      PROVE  \E task \in Task :
               /\ watcher' = [watcher EXCEPT ![w] = task] /\ holds' \in SUBSET Fault
               /\ task.for = watcher[w].for /\ task.fault = watcher[w].fault
               /\ task.occurrence = watcher[w].occurrence /\ task.at = "detect"
  <2> DEFINE task == [watcher[w] EXCEPT !.at = "detect"]
  <2>1. watcher' = [watcher EXCEPT ![w] = task] /\ holds' \in SUBSET Fault
    BY <1>0, <1>8 DEF Correct
  <2>2. /\ task \in Task /\ task.for = watcher[w].for /\ task.fault = watcher[w].fault
        /\ task.occurrence = watcher[w].occurrence /\ task.at = "detect"
    BY <1>0 DEF Task
  <2> QED
    BY <2>1, <2>2
<1>9. CASE \E f \in Fault : \/ Arise(f) \/ Clear(f) \/ ReportInterrupted(f)
                            \/ \E i \in DOMAIN records[f] : Acknowledge(f, i) \/ Ignore(f, i)
  BY <1>0, <1>1, <1>9 DEF Arise, Clear, ReportInterrupted, Acknowledge, Ignore
<1>10. CASE UNCHANGED vars
  BY <1>0, <1>1, <1>10 DEF vars
<1>11. CASE \E w \in Watcher : Detect(w)
  BY <1>0, <1>2, <1>3, <1>11
<1>12. CASE \E w \in Watcher : Apply(w) \/ Verify(w)
  BY <1>0, <1>2, <1>4, <1>6, <1>12
<1>13. CASE \E w \in Watcher : Abort(w) \/ Resolve(w)
  BY <1>0, <1>2, <1>5, <1>13
<1>14. CASE \E f \in Fault : \E i \in DOMAIN records[f] : \E w \in Watcher : AskResolve(w, f, i)
  BY <1>0, <1>2, <1>7, <1>14
<1>15. CASE \E f \in Fault : \E i \in DOMAIN records[f] : \E w \in Watcher : Correct(w, f, i)
  BY <1>0, <1>2, <1>8, <1>15
<1> QED
  BY <1>9, <1>10, <1>11, <1>12, <1>13, <1>14, <1>15 DEF Next

LEMMA RecordsOnFaults ==
  ASSUME Lists, [Next]_vars
  PROVE  records' = [f \in Fault |-> records'[f]]
<1>1. records = [f \in Fault |-> records[f]]
  BY DEF Lists
<1>2. CASE UNCHANGED records
  BY <1>1, <1>2
<1>3. ASSUME NEW g, NEW list, records' = [records EXCEPT ![g] = list]
      PROVE  records' = [f \in Fault |-> records'[f]]
  BY <1>1, <1>3
<1>4. ASSUME NEW w \in Watcher, Apply(w)
      PROVE  records' = [f \in Fault |-> records'[f]]
  BY <1>4 DEF Apply, Reconciled
<1>5. ASSUME NEW w \in Watcher, Resolve(w)
      PROVE  records' = [f \in Fault |-> records'[f]]
  <2>1. \/ UNCHANGED records
        \/ \E list : records' = [records EXCEPT ![watcher[w].fault] = list]
    BY <1>5 DEF Resolve
  <2> QED
    BY <1>2, <1>3, <2>1
<1>6. ASSUME NEW f \in Fault, NEW i \in DOMAIN records[f],
             ReportInterrupted(f) \/ Acknowledge(f, i) \/ Ignore(f, i)
      PROVE  records' = [g \in Fault |-> records'[g]]
  <2>1. \E list : records' = [records EXCEPT ![f] = list]
    BY <1>6 DEF ReportInterrupted, Acknowledge, Ignore
  <2> QED
    BY <1>3, <2>1
<1>7. ASSUME NEW f \in Fault, ReportInterrupted(f)
      PROVE  records' = [g \in Fault |-> records'[g]]
  BY <1>3, <1>7 DEF ReportInterrupted
<1> QED
  BY <1>2, <1>4, <1>5, <1>6, <1>7
     DEF Next, Arise, Clear, Detect, Abort, Verify, AskResolve, Correct, vars

LEMMA NextInv == Inv /\ [Next]_vars => Inv'
<1> SUFFICES ASSUME Inv, [Next]_vars PROVE Inv'
  OBVIOUS
<1>1. TypeOK /\ Lists /\ Deciding
  BY DEF Inv, Lists, TypeOK
<1>2. \A f \in Fault : Follows(f, records[f], records'[f])
  BY <1>1, StepFollows
<1>3. /\ holds' \in SUBSET Fault /\ watcher' \in [Watcher -> Task] /\ Deciding'
      /\ \A w \in Watcher : watcher'[w].for # "scan" =>
           \/ /\ watcher[w].for # "scan"
              /\ watcher'[w].fault = watcher[w].fault
              /\ watcher'[w].occurrence = watcher[w].occurrence
           \/ /\ watcher'[w].fault \in Fault
              /\ watcher'[w].occurrence \in DOMAIN records[watcher'[w].fault]
  BY <1>1, NextWatcher
<1>4. records' \in [Fault -> Seq(Record)]
  <2>1. records' = [f \in Fault |-> records'[f]]
    BY <1>1, RecordsOnFaults
  <2> QED
    BY <1>2, <2>1 DEF Follows
<1>5. \A f \in Fault : /\ Len(records[f]) \in Nat /\ DOMAIN records[f] = 1 .. Len(records[f])
                       /\ Len(records'[f]) \in Nat /\ Len(records'[f]) >= Len(records[f])
  BY <1>1, <1>2, <1>4, ListType DEF Follows, Lists
<1>6. \A w \in Watcher : watcher'[w].for # "scan" =>
        watcher'[w].fault \in Fault /\ watcher'[w].occurrence \in 1 .. Len(records'[watcher'[w].fault])
  BY <1>1, <1>3, <1>5 DEF TypeOK
<1>7. EarlierAreOver'
  BY <1>2 DEF EarlierAreOver, Follows, Over
<1> QED
  BY <1>3, <1>4, <1>6, <1>7 DEF Inv, TypeOK

\* The exception center's state keeps its shape, and a thread that decides holds
\* a record that exists, for any faults, threads and numbers of incidents.
THEOREM TypeCorrect == Spec => []TypeOK
<1>1. Inv => TypeOK
  BY DEF Inv
<1> QED
  BY InitInv, NextInv, <1>1, PTL DEF Spec

\* Older incidents are over for good: no scan, however stale what it read, and no
\* decision, however late, reaches any but the last record of a fault.
THEOREM OlderIncidentsAreOver == Spec => []EarlierAreOver
<1>1. Inv => EarlierAreOver
  BY DEF Inv
<1> QED
  BY InitInv, NextInv, <1>1, PTL DEF Spec

-----------------------------------------------------------------------------
(* The log *)

logged == [f \in Fault |-> [i \in DOMAIN records[f] |-> records[f][i].status]]

LEMMA LoggedStatuses == \A f \in Fault : logged[f] = Statuses(records[f])
  BY DEF logged, Statuses

LEMMA InitLog == Init => Log!LInit
<1> SUFFICES ASSUME Init PROVE Log!LInit
  OBVIOUS
<1>1. \A f \in Fault : records[f] = <<>>
  BY DEF Init
<1>2. <<>> \in Seq(Record) /\ <<>> \in Seq(Status)
  BY EmptySeq
<1>3. Statuses(<<>>) \in Seq(Status) /\ Len(Statuses(<<>>)) = 0
  BY <1>2, StatusesType, EmptySeq
<1>4. Statuses(<<>>) = <<>>
  BY <1>3, EmptySeq
<1>5. \A f \in Fault : [i \in DOMAIN records[f] |-> records[f][i].status] = <<>>
  BY <1>1, <1>4 DEF Statuses
<1> QED
  BY <1>5 DEF Log!LInit

LEMMA StepLog == Inv /\ [Next]_vars => [Log!LNext]_logged
<1> SUFFICES ASSUME Inv, [Next]_vars PROVE Log!LNext
  BY DEF logged
<1>1. TypeOK /\ Lists /\ Deciding
  BY DEF Inv, Lists, TypeOK
<1>2. \A f \in Fault : Moves(f, logged[f], logged'[f])
  <2>1. \A f \in Fault : logged'[f] = Statuses(records'[f])
    BY DEF logged, Statuses
  <2>2. \A f \in Fault : Follows(f, records[f], records'[f])
    BY <1>1, StepFollows
  <2> QED
    BY <2>1, <2>2, LoggedStatuses DEF Follows
<1>3. SUFFICES ASSUME NEW f \in Fault
               PROVE  \/ logged'[f] = logged[f] \/ Log!Raised(f) \/ Log!Noted(f)
                      \/ Log!Settled(f) \/ Log!PutAside(f)
  BY DEF Log!LNext, logged
<1>4. Moves(f, logged[f], logged'[f])
  BY <1>2
<1> QED
  BY <1>4 DEF Moves, ACTIVE, logged, Log!Raised, Log!Noted, Log!Settled, Log!PutAside,
              Log!Becomes, Log!Pending, Log!Latest, Log!Undecided, Log!ByPerson

\* The exception center implements the log of incidents: every step of any thread
\* is a step of the log, or leaves it as it is.
THEOREM ImplementsIncidentLog == Spec => KeepsIncidentLog
<1>1. Init /\ [][Next]_vars => Log!LInit /\ [][Log!LNext]_logged
  BY InitInv, NextInv, InitLog, StepLog, PTL
<1> QED
  BY <1>1, PTL DEF Spec, KeepsIncidentLog, Log!LSpec, logged
=============================================================================
