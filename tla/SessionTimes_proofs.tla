-------------------------- MODULE SessionTimes_proofs --------------------------
(*************************************************************************)
(* Proofs about the hours of work sessions, for any calendar of shifts,  *)
(* any employees and operations, and a scan that is late by any amount.  *)
(*************************************************************************)
EXTENDS SessionTimes, WellFoundedInduction, TLAPS

-----------------------------------------------------------------------------
(* The calendar *)

LEMMA Smallest ==
  ASSUME NEW S \in SUBSET Nat, S # {}
  PROVE  \E n \in S : \A m \in S : n <= m
<1> DEFINE R == OpToRel(<, Nat)
<1>1. PICK n \in S : \A m \in S : <<m, n>> \notin R
  <2> HIDE DEF R
  <2> QED
    BY NatLessThanWellFounded, WFMin DEF R
<1>2. \A m \in Nat : m < n => <<m, n>> \in R
  BY DEF OpToRel
<1>3. \A m \in S : m \in Nat /\ n \in Nat /\ ~(m < n)
  <2> HIDE DEF R
  <2> QED
    BY <1>1, <1>2
<1>4. \A m \in S : n <= m
  BY <1>3
<1> QED
  BY <1>4

LEMMA FirstIsOne ==
  ASSUME NEW shifts \in SUBSET Shift, shifts # {}
  PROVE  First(shifts) \in shifts
<1> DEFINE ranks == {shift.rank : shift \in shifts}
<1>1. ranks \in SUBSET Nat /\ ranks # {}
  BY CalendarAssumption
<1>2. PICK n \in ranks : \A m \in ranks : n <= m
  BY <1>1, Smallest
<1>3. \E shift \in shifts : \A other \in shifts : shift.rank <= other.rank
  BY <1>2
<1> QED
  BY <1>3 DEF First

LEMMA TypedTimes ==
  /\ Typed \subseteq Int /\ Never \notin Int
  /\ Horizon \in Nat /\ MaxInterventions \in Nat
  BY CalendarAssumption

LEMMA DayType == ASSUME NEW t \in Int PROVE DayOf(t) \in Int /\ t % DayLength \in Int
  BY CalendarAssumption DEF DayOf

LEMMA ShiftTimes ==
  ASSUME NEW shift \in Shift, NEW t \in Int
  PROVE  OpensAt(shift, t) \in Int /\ EndsAt(shift, t) \in Int
<1>1. shift.opens \in Int /\ shift.ends \in Int /\ DayLength \in Int
  BY CalendarAssumption
<1>2. AnchorDay(shift, t) \in Int
  BY <1>1, DayType DEF AnchorDay
<1> QED
  BY <1>1, <1>2 DEF OpensAt, EndsAt

\* A start within the hours of some shift, or just before them, has one shift
\* that owns it.
LEMMA OwnerType ==
  ASSUME NEW t \in Int, InShift(t)
  PROVE  Owner(t) \in Shift
<1>1. CASE UnderWay(t) # {}
  BY <1>1, FirstIsOne DEF Owner, UnderWay
<1>2. CASE UnderWay(t) = {}
  <2> DEFINE waits == {OpensAt(shift, t) - t : shift \in AboutToOpen(t)}
  <2>1. \A shift \in AboutToOpen(t) :
          shift \in Shift /\ OpensAt(shift, t) \in Int /\ t <= OpensAt(shift, t)
    BY ShiftTimes, CalendarAssumption DEF AboutToOpen
  <2>2. waits \in SUBSET Nat /\ waits # {}
    BY <1>2, <2>1 DEF InShift
  <2>3. PICK n \in waits : \A m \in waits : n <= m
    BY <2>2, Smallest
  <2>4. PICK shift \in AboutToOpen(t) : n = OpensAt(shift, t) - t
    BY <2>3
  <2>5. \A other \in AboutToOpen(t) : OpensAt(shift, t) <= OpensAt(other, t)
    BY <2>1, <2>3, <2>4
  <2>6. NextToOpen(t) # {} /\ NextToOpen(t) \in SUBSET Shift
    BY <2>1, <2>4, <2>5 DEF NextToOpen
  <2> QED
    BY <1>2, <2>6, FirstIsOne DEF Owner
<1> QED
  BY <1>1, <1>2

LEMMA BoundaryType ==
  ASSUME NEW t \in Int
  PROVE  Boundary(t) \in Int /\ Reason(t) \in {"AUTO_SHIFT_END", "AUTO_CALENDAR_DAY_END"}
  BY OwnerType, ShiftTimes, DayType, CalendarAssumption DEF Boundary, Reason

-----------------------------------------------------------------------------
(* Types *)

\* A row is given to one session, and has an end exactly when it is closed.
EndFits(row) == (row.end = Never) = (row.status # "CLOSED")

LEMMA PutRow ==
  ASSUME TypeOK, NEW s \in Session, NEW row \in Row, EndFits(row),
         rows' = [rows EXCEPT ![s] = row]
  PROVE  /\ rows' \in [Session -> Row]
         /\ \A r \in Session : (rows'[r].end = Never) = (rows'[r].status # "CLOSED")
  BY DEF TypeOK, EndFits

LEMMA ReportTime ==
  ASSUME TypeOK, NEW reported \in Reports, NEW row \in Row
  PROVE  StartTime(reported) \in Int /\ EndTime(row, reported) \in Int
  BY CalendarAssumption DEF TypeOK, Tick, Reports, StartTime, EndTime

LEMMA UnusedRow ==
  ASSUME NEW e \in Employee, NEW o \in Operation
  PROVE  LET row == [Opened(e, o, 0) EXCEPT !.status = "NONE"] IN
           row \in Row /\ row.end = Never /\ row.status = "NONE"
<1> DEFINE row == Opened(e, o, 0)
<1>1. row \in Row /\ row.end = Never
  BY DEF Row, Opened
<1>2. [row EXCEPT !.status = "NONE"] \in Row /\ [row EXCEPT !.status = "NONE"].end = Never
  <2> HIDE DEF row
  <2> QED
    BY <1>1 DEF Row
<1>3. [row EXCEPT !.status = "NONE"].status = "NONE"
  <2> HIDE DEF row
  <2> QED
    BY <1>1 DEF Row
<1> QED
  BY <1>2, <1>3

LEMMA InitType == Init => TypeOK
<1> SUFFICES ASSUME Init PROVE TypeOK
  OBVIOUS
<1>1. (CHOOSE e \in Employee : TRUE) \in Employee /\ (CHOOSE o \in Operation : TRUE) \in Operation
  BY CalendarAssumption
<1>2. rows \in [Session -> Row] /\ \A s \in Session : rows[s].end = Never /\ rows[s].status = "NONE"
  <2> DEFINE row == [Opened(CHOOSE e \in Employee : TRUE, CHOOSE o \in Operation : TRUE, 0)
                       EXCEPT !.status = "NONE"]
  <2>1. row \in Row /\ row.end = Never /\ row.status = "NONE"
    BY <1>1, UnusedRow
  <2>2. rows = [s \in Session |-> row]
    BY DEF Init
  <2> HIDE DEF row
  <2> QED
    BY <2>1, <2>2
<1>3. now \in Tick /\ interventions \in 0 .. MaxInterventions
  BY TypedTimes DEF Init, Tick
<1> QED
  BY <1>2, <1>3 DEF Init, TypeOK

\* A step that gives one session a row of the right shape, and one that gives
\* none, keep the types.
LEMMA NextType == TypeOK /\ [Next]_vars => TypeOK'
<1> SUFFICES ASSUME TypeOK, [Next]_vars PROVE TypeOK'
  OBVIOUS
<1>0. rows \in [Session -> Row] /\ now \in Int /\ 0 <= now /\ Never \notin Int
  BY CalendarAssumption DEF TypeOK, Tick
<1>1. ASSUME NEW s \in Session, NEW e \in Employee, NEW o \in Operation,
             NEW reported \in Reports, Start(s, e, o, reported)
      PROVE  TypeOK'
  <2> DEFINE row == Opened(e, o, StartTime(reported))
  <2>1. row \in Row /\ EndFits(row)
    <3>1. StartTime(reported) \in Int
      BY ReportTime, <1>0
    <3> QED
      BY <3>1, <1>0 DEF Row, Opened, EndFits
  <2> QED
    BY <1>1, <2>1, PutRow DEF Start, TypeOK
<1>2. ASSUME NEW s \in Session, NEW reported \in Reports, Finish(s, reported)
      PROVE  TypeOK'
  <2> DEFINE row == [rows[s] EXCEPT !.status = "CLOSED", !.end = EndTime(rows[s], reported)]
  <2>1. EndTime(rows[s], reported) \in Int
    BY <1>0, ReportTime
  <2>2. row \in Row /\ EndFits(row)
    BY <1>0, <2>1 DEF Row, EndFits
  <2> QED
    BY <1>2, <2>2, PutRow DEF Finish, TypeOK, history
<1>3. ASSUME NEW s \in Session, NEW o \in Operation, Transfer(s, o) PROVE TypeOK'
  <2> DEFINE row == [rows[s] EXCEPT !.operation = o]
  <2>1. row \in Row /\ EndFits(row)
    BY <1>0 DEF Row, EndFits, TypeOK
  <2> QED
    BY <1>3, <2>1, PutRow, CalendarAssumption DEF Transfer, TypeOK
<1>4. ASSUME NEW s \in Session, NEW e \in Employee, NEW o \in Operation,
             NEW from \in Typed, NEW to \in Typed, CreateManual(s, e, o, from, to)
      PROVE  TypeOK'
  <2> DEFINE row == [Opened(e, o, from) EXCEPT !.status = "CLOSED", !.end = to]
  <2>1. row \in Row /\ EndFits(row)
    BY TypedTimes DEF Row, Opened, EndFits
  <2> QED
    BY <1>4, <2>1, PutRow DEF CreateManual, TypeOK, history
<1>5. ASSUME NEW s \in Session, NEW e \in Employee, NEW o \in Operation,
             NEW status \in {"OPEN", "CLOSED"}, NEW from \in Typed, NEW to \in Typed \cup {Never},
             Edit(s, e, o, status, from, to)
      PROVE  TypeOK'
  <2> DEFINE row == Rewritten(rows[s], e, o, status, from, to)
  <2>1. row \in Row /\ EndFits(row)
    <3>1. from \in Int /\ to \in Int \cup {Never}
      BY TypedTimes
    <3>2. rows[s] \in Row /\ rows[s].end \in Int \cup {Never}
      BY <1>0 DEF Row
    <3> QED
      BY <1>0, <3>1, <3>2 DEF Rewritten, Row, EndFits
  <2>2. rows' = [rows EXCEPT ![s] = row] /\ interventions' \in 0 .. MaxInterventions
    BY <1>5, TypedTimes DEF Edit, TypeOK
  <2>3. /\ rows' \in [Session -> Row]
        /\ \A r \in Session : (rows'[r].end = Never) = (rows'[r].status # "CLOSED")
    <3> HIDE DEF row
    <3> QED
      BY <2>1, <2>2, PutRow
  <2> QED
    BY <1>5, <2>2, <2>3 DEF Edit, TypeOK
<1>6. ASSUME FindCandidates PROVE TypeOK'
  <2>1. \A s \in Session : rows[s].start \in Int
    BY <1>0 DEF Row
  <2>2. Candidates \subseteq [session: Session, end: Int,
                              reason: {"AUTO_SHIFT_END", "AUTO_CALENDAR_DAY_END"}]
    BY <2>1, BoundaryType DEF Candidates
  <2> QED
    BY <1>6, <2>2 DEF FindCandidates, TypeOK, history
<1>7. ASSUME NEW c \in scan, AutoClose(c) PROVE TypeOK'
  <2>1. /\ c \in [session: Session, end: Int,
                  reason: {"AUTO_SHIFT_END", "AUTO_CALENDAR_DAY_END"}]
        /\ scan' \subseteq scan
    BY <1>7 DEF TypeOK, AutoClose
  <2> DEFINE row == AutoClosed(rows[c.session], c)
  <2>2. row \in Row /\ EndFits(row)
    <3>1. rows[c.session] \in Row /\ c.end \in Int /\ c.reason \in {"AUTO_SHIFT_END", "AUTO_CALENDAR_DAY_END"}
      BY <1>0, <2>1
    <3> QED
      BY <1>0, <3>1 DEF AutoClosed, Row, EndFits
  <2>3. CASE rows' = rows
    BY <1>7, <2>1, <2>3 DEF AutoClose, TypeOK, history
  <2>4. CASE rows' = [rows EXCEPT ![c.session] = row]
    <3>1. /\ rows' \in [Session -> Row]
          /\ \A r \in Session : (rows'[r].end = Never) = (rows'[r].status # "CLOSED")
      <4> HIDE DEF row
      <4> QED
        BY <2>1, <2>2, <2>4, PutRow
    <3> QED
      BY <1>7, <2>1, <3>1 DEF AutoClose, TypeOK, history
  <2> QED
    BY <1>7, <2>3, <2>4 DEF AutoClose
<1>8. ASSUME ScanDies PROVE TypeOK'
  BY <1>8, CalendarAssumption DEF ScanDies, TypeOK, history
<1>9. ASSUME ClockTicks PROVE TypeOK'
  BY <1>9, CalendarAssumption DEF ClockTicks, TypeOK, Tick, history
<1>10. CASE UNCHANGED vars
  BY <1>10 DEF vars, history, TypeOK
<1> QED
  BY <1>1, <1>2, <1>3, <1>4, <1>5, <1>6, <1>7, <1>8, <1>9, <1>10
     DEF Next, Worker, Supervisor, AutoCloseNext

\* Times, rows and candidates keep their shape, and a session has an end
\* exactly when it is closed, for any calendar and any clock.
THEOREM TypeCorrect == Spec => []TypeOK
  BY InitType, NextType, PTL DEF Spec

-----------------------------------------------------------------------------
(* Overlaps *)

\* A session put on hours nobody else holds on its operation takes no part in
\* an overlap, whatever a transfer had done to it before.
LEMMA PutFree ==
  ASSUME TypeOK, OverlapOnlyByTransfer, NEW s \in Session, NEW row \in Row,
         rows' = [rows EXCEPT ![s] = row], HoursFree(s, row), moved \ {s} \subseteq moved'
  PROVE  OverlapOnlyByTransfer'
<1>1. rows'[s] = row /\ \A r \in Session \ {s} : rows'[r] = rows[r]
  BY DEF TypeOK
<1>2. SUFFICES ASSUME NEW u \in Session, NEW r \in Session \ {u}, Exists(u)', Exists(r)',
                      rows'[r].employee = rows'[u].employee,
                      rows'[r].operation = rows'[u].operation,
                      Overlap(rows'[u], rows'[r])
               PROVE  {u, r} \cap moved' # {}
  BY DEF OverlapOnlyByTransfer, Rivals
<1>3. CASE u = s
  BY <1>1, <1>2, <1>3 DEF HoursFree, Rivals, Exists, Overlap
<1>4. CASE r = s
  BY <1>1, <1>2, <1>4 DEF HoursFree, Rivals, Exists, Overlap
<1>5. CASE u # s /\ r # s
  <2>1. Exists(u) /\ r \in Rivals(u, rows[u]) /\ Overlap(rows[u], rows[r])
    BY <1>1, <1>2, <1>5 DEF Exists, Rivals
  <2> QED
    BY <1>5, <2>1 DEF OverlapOnlyByTransfer
<1> QED
  BY <1>3, <1>4, <1>5

LEMMA SameRows ==
  ASSUME OverlapOnlyByTransfer, UNCHANGED <<rows, moved>>
  PROVE  OverlapOnlyByTransfer'
  BY DEF OverlapOnlyByTransfer, Rivals, Exists, Overlap, Covers

LEMMA NextOverlap == TypeOK /\ TypeOK' /\ OverlapOnlyByTransfer /\ [Next]_vars => OverlapOnlyByTransfer'
<1> SUFFICES ASSUME TypeOK, TypeOK', OverlapOnlyByTransfer, [Next]_vars
             PROVE  OverlapOnlyByTransfer'
  OBVIOUS
<1>0. rows \in [Session -> Row] /\ rows' \in [Session -> Row]
  BY DEF TypeOK
<1>1. ASSUME NEW s \in Session, NEW row, rows' = [rows EXCEPT ![s] = row],
             HoursFree(s, row), moved \ {s} \subseteq moved'
      PROVE  OverlapOnlyByTransfer'
  <2>1. row \in Row
    BY <1>0, <1>1
  <2> QED
    BY <1>1, <2>1, PutFree
<1>2. ASSUME NEW s \in Session, NEW e \in Employee, NEW o \in Operation,
             NEW reported \in Reports, Start(s, e, o, reported)
      PROVE  OverlapOnlyByTransfer'
  BY <1>1, <1>2 DEF Start
<1>3. ASSUME NEW s \in Session, NEW reported \in Reports, Finish(s, reported)
      PROVE  OverlapOnlyByTransfer'
  BY <1>1, <1>3 DEF Finish, history
<1>4. ASSUME NEW s \in Session, NEW o \in Operation, Transfer(s, o) PROVE OverlapOnlyByTransfer'
  <2>1. \A r \in Session \ {s} : rows'[r] = rows[r]
    BY <1>0, <1>4 DEF Transfer
  <2>2. moved' = moved \cup {s}
    BY <1>4 DEF Transfer
  <2> SUFFICES ASSUME NEW u \in Session \ {s}, NEW r \in Session \ {u, s}, Exists(u)', Exists(r)',
                      rows'[r].employee = rows'[u].employee,
                      rows'[r].operation = rows'[u].operation,
                      Overlap(rows'[u], rows'[r])
               PROVE  {u, r} \cap moved' # {}
    BY <2>2 DEF OverlapOnlyByTransfer, Rivals
  <2>3. Exists(u) /\ r \in Rivals(u, rows[u]) /\ Overlap(rows[u], rows[r])
    BY <2>1 DEF Exists, Rivals
  <2> QED
    BY <2>2, <2>3 DEF OverlapOnlyByTransfer
<1>5. ASSUME NEW s \in Session, NEW e \in Employee, NEW o \in Operation,
             NEW from \in Typed, NEW to \in Typed, CreateManual(s, e, o, from, to)
      PROVE  OverlapOnlyByTransfer'
  BY <1>1, <1>5 DEF CreateManual, history
<1>6. ASSUME NEW s \in Session, NEW e \in Employee, NEW o \in Operation,
             NEW status \in {"OPEN", "CLOSED"}, NEW from \in Typed, NEW to \in Typed \cup {Never},
             Edit(s, e, o, status, from, to)
      PROVE  OverlapOnlyByTransfer'
  BY <1>1, <1>6 DEF Edit
<1>7. ASSUME NEW c \in scan, AutoClose(c) PROVE OverlapOnlyByTransfer'
  <2>1. c.session \in Session
    BY <1>7 DEF TypeOK
  <2>2. CASE MayAutoClose(c)
    BY <1>1, <1>7, <2>1, <2>2 DEF AutoClose, MayAutoClose, history
  <2>3. CASE ~MayAutoClose(c)
    BY <1>7, <2>3, SameRows DEF AutoClose, history
  <2> QED
    BY <2>2, <2>3
<1>8. CASE FindCandidates \/ ScanDies \/ ClockTicks \/ UNCHANGED vars
  BY <1>8, SameRows DEF FindCandidates, ScanDies, ClockTicks, vars, history
<1> QED
  BY <1>2, <1>3, <1>4, <1>5, <1>6, <1>7, <1>8 DEF Next, Worker, Supervisor, AutoCloseNext

LEMMA InitOverlap == Init => OverlapOnlyByTransfer
<1> SUFFICES ASSUME Init PROVE OverlapOnlyByTransfer
  OBVIOUS
<1>1. \A s \in Session : rows[s].status = "NONE"
  BY DEF Init, Opened
<1> QED
  BY <1>1 DEF OverlapOnlyByTransfer, Exists

\* For any number of workers, supervisors and sessions, any calendar and any
\* scan: two sessions of an employee on one operation share an hour only when a
\* transfer has put one of them there.
THEOREM NobodyWorksTwice == Spec => []OverlapOnlyByTransfer
  BY InitType, NextType, InitOverlap, NextOverlap, PTL DEF Spec

-----------------------------------------------------------------------------
(* Ends *)

\* The start of a session lies ahead of the clock only where a device or a
\* supervisor put it there.
StartsKnown == \A s \in Session : Exists(s) /\ rows[s].start > now => s \in ahead \cup edited

\* A session that has not ended has no end before its start.
EndsInv == EndsBeforeStartOnlyAhead /\ StartsKnown

LEMMA PutEnds ==
  ASSUME TypeOK, TypeOK', EndsInv, NEW s \in Session, NEW row,
         rows' = [rows EXCEPT ![s] = row], now' = now,
         ahead \subseteq ahead', edited \subseteq edited',
         Backwards(row) => s \in ahead' \cup edited',
         row.start > now => s \in ahead' \cup edited'
  PROVE  EndsInv'
<1>1. rows'[s] = row /\ \A r \in Session \ {s} : rows'[r] = rows[r]
  BY DEF TypeOK
<1> QED
  BY <1>1 DEF EndsInv, EndsBeforeStartOnlyAhead, StartsKnown, Exists

LEMMA SameEnds ==
  ASSUME TypeOK, TypeOK', EndsInv, UNCHANGED <<rows, ahead, edited>>, now' \in {now, now + 1}
  PROVE  EndsInv'
<1>1. \A s \in Session : rows[s].start \in Int /\ now \in Int
  <2>1. \A s \in Session : rows[s] \in Row
    BY DEF TypeOK
  <2>2. now \in Int
    BY TypedTimes DEF TypeOK, Tick
  <2> QED
    BY <2>1, <2>2 DEF Row
<1>2. \A s \in Session : rows[s].start > now' => rows[s].start > now
  BY <1>1
<1> QED
  BY <1>2 DEF EndsInv, EndsBeforeStartOnlyAhead, StartsKnown, Exists, Backwards

LEMMA NextEnds == TypeOK /\ TypeOK' /\ EndsInv /\ [Next]_vars => EndsInv'
<1> SUFFICES ASSUME TypeOK, TypeOK', EndsInv, [Next]_vars PROVE EndsInv'
  OBVIOUS
<1>0. /\ rows \in [Session -> Row] /\ now \in Int
      /\ \A s \in Session : rows[s].start \in Int
  <2>1. rows \in [Session -> Row] /\ now \in Int
    BY TypedTimes DEF TypeOK, Tick
  <2> QED
    BY <2>1 DEF Row
<1>1. ASSUME NEW s \in Session, NEW e \in Employee, NEW o \in Operation,
             NEW reported \in Reports, Start(s, e, o, reported)
      PROVE  EndsInv'
  <2> DEFINE row == Opened(e, o, StartTime(reported))
  <2>1. ~Backwards(row)
    BY DEF Backwards, Opened
  <2>2. row.start > now => s \in ahead'
    BY <1>1 DEF Start
  <2> HIDE DEF row
  <2> QED
    BY <1>1, <2>1, <2>2, PutEnds DEF Start, row
<1>2. ASSUME NEW s \in Session, NEW reported \in Reports, Finish(s, reported)
      PROVE  EndsInv'
  <2> DEFINE row == [rows[s] EXCEPT !.status = "CLOSED", !.end = EndTime(rows[s], reported)]
  <2>1. row.start = rows[s].start /\ row.end = EndTime(rows[s], reported)
    BY <1>0 DEF Row
  <2>2. Exists(s)
    BY <1>2 DEF Finish, Runs, Exists
  <2>3. reported = Never \/ reported \in Int
    BY <1>0, CalendarAssumption DEF Reports
  <2>4. Backwards(row) => rows[s].start > now
    BY <1>0, <2>1, <2>3 DEF Backwards, EndTime
  <2> HIDE DEF row
  <2> QED
    BY <1>2, <2>1, <2>2, <2>4, PutEnds DEF Finish, EndsInv, StartsKnown, history, row
<1>3. ASSUME NEW s \in Session, NEW o \in Operation, Transfer(s, o) PROVE EndsInv'
  <2> DEFINE row == [rows[s] EXCEPT !.operation = o]
  <2>1. row.start = rows[s].start /\ row.end = rows[s].end
    BY <1>0 DEF Row
  <2>2. /\ Backwards(row) => s \in ahead \cup edited
        /\ row.start > now => s \in ahead \cup edited
    BY <1>3, <2>1 DEF Transfer, EndsInv, EndsBeforeStartOnlyAhead, StartsKnown, Backwards
  <2> HIDE DEF row
  <2> QED
    BY <1>3, <2>2, PutEnds DEF Transfer, row
<1>4. ASSUME NEW s \in Session, NEW e \in Employee, NEW o \in Operation,
             NEW from \in Typed, NEW to \in Typed, CreateManual(s, e, o, from, to)
      PROVE  EndsInv'
  <2> DEFINE row == [Opened(e, o, from) EXCEPT !.status = "CLOSED", !.end = to]
  <2>1. row.start = from /\ row.end = to
    BY DEF Opened
  <2>2. ~Backwards(row) /\ ~(row.start > now)
    BY <1>0, <1>4, <2>1, TypedTimes DEF CreateManual, Backwards
  <2> HIDE DEF row
  <2> QED
    BY <1>4, <2>2, PutEnds DEF CreateManual, history, row
<1>5. ASSUME NEW s \in Session, NEW e \in Employee, NEW o \in Operation,
             NEW status \in {"OPEN", "CLOSED"}, NEW from \in Typed, NEW to \in Typed \cup {Never},
             Edit(s, e, o, status, from, to)
      PROVE  EndsInv'
  <2> DEFINE row == Rewritten(rows[s], e, o, status, from, to)
  <2>1. s \in edited' /\ rows' = [rows EXCEPT ![s] = row]
    BY <1>5 DEF Edit
  <2> HIDE DEF row
  <2> QED
    BY <1>5, <2>1, PutEnds DEF Edit
<1>6. ASSUME NEW c \in scan, AutoClose(c) PROVE EndsInv'
  <2> DEFINE row == AutoClosed(rows[c.session], c)
  <2>1. c.session \in Session /\ c.end \in Int
    BY <1>6 DEF TypeOK
  <2>2. CASE ~MayAutoClose(c)
    BY <1>6, <2>2, SameEnds DEF AutoClose, history
  <2>3. CASE MayAutoClose(c)
    <3>1. row.start = rows[c.session].start /\ row.end = c.end
      BY <1>0, <2>1 DEF AutoClosed, Row
    <3>2. ~Backwards(row)
      BY <1>0, <2>1, <2>3, <3>1 DEF Backwards, MayAutoClose
    <3>3. Exists(c.session)
      BY <2>3 DEF MayAutoClose, Runs, Exists
    <3>4. row.start > now => c.session \in ahead \cup edited
      BY <2>1, <3>1, <3>3 DEF EndsInv, StartsKnown
    <3>5. rows' = [rows EXCEPT ![c.session] = row]
      BY <1>6, <2>3 DEF AutoClose
    <3> HIDE DEF row
    <3> QED
      BY <1>6, <2>1, <3>2, <3>4, <3>5, PutEnds DEF AutoClose, history
  <2> QED
    BY <2>2, <2>3
<1>7. CASE FindCandidates \/ ScanDies \/ ClockTicks \/ UNCHANGED vars
  BY <1>7, SameEnds DEF FindCandidates, ScanDies, ClockTicks, vars, history
<1> QED
  BY <1>1, <1>2, <1>3, <1>4, <1>5, <1>6, <1>7 DEF Next, Worker, Supervisor, AutoCloseNext

LEMMA InitEnds == Init => EndsInv
<1> SUFFICES ASSUME Init PROVE EndsInv
  OBVIOUS
<1>1. \A s \in Session : rows[s].status = "NONE" /\ rows[s].end = Never
  BY DEF Init, Opened
<1> QED
  BY <1>1 DEF EndsInv, EndsBeforeStartOnlyAhead, StartsKnown, Exists, Backwards

\* A session that no supervisor rewrote and no early device started never ends
\* before it starts, whichever of worker and scan closes it, and however late.
THEOREM EndsAfterStart == Spec => []EndsBeforeStartOnlyAhead
<1>1. EndsInv => EndsBeforeStartOnlyAhead
  BY DEF EndsInv
<1> QED
  BY InitType, NextType, InitEnds, NextEnds, <1>1, PTL DEF Spec

-----------------------------------------------------------------------------
(* The scan *)

\* A session that no supervisor has rewritten was not closed by the scan while
\* it runs, and is closed by it where its start says.
OwnBoundary(s) == /\ rows[s].closedAs # "" => /\ rows[s].status = "CLOSED"
                                             /\ rows[s].end = Boundary(rows[s].start)
                                             /\ rows[s].closedAs = Reason(rows[s].start)
Unedited == \A s \in Session \ edited : OwnBoundary(s)

\* What a scan has read stays true of a session that no supervisor rewrites,
\* since its start never changes: not of a session one does rewrite.
ScanKnows == \A c \in scan : c.session \notin edited =>
  /\ Exists(c.session)
  /\ c.end = Boundary(rows[c.session].start)
  /\ c.reason = Reason(rows[c.session].start)

ScanInv == Unedited /\ ScanKnows

\* A row that keeps a session's start, or is new, changes nothing the scan knows.
LEMMA PutScan ==
  ASSUME TypeOK, ScanInv, NEW s \in Session, NEW row,
         rows' = [rows EXCEPT ![s] = row], scan' \subseteq scan, edited \subseteq edited',
         row.status # "NONE",
         s \in edited' \/ (/\ Exists(s) => row.start = rows[s].start
                           /\ row.closedAs # "" => /\ row.status = "CLOSED"
                                                   /\ row.end = Boundary(row.start)
                                                   /\ row.closedAs = Reason(row.start))
  PROVE  ScanInv'
<1>1. rows'[s] = row /\ \A r \in Session \ {s} : rows'[r] = rows[r]
  BY DEF TypeOK
<1>2. Unedited'
  BY <1>1 DEF ScanInv, Unedited, OwnBoundary
<1>3. ASSUME NEW c \in scan', c.session \notin edited'
      PROVE  /\ Exists(c.session)'
             /\ c.end = Boundary(rows'[c.session].start)
             /\ c.reason = Reason(rows'[c.session].start)
  <2>1. /\ c \in scan /\ c.session \notin edited /\ Exists(c.session)
        /\ c.end = Boundary(rows[c.session].start)
        /\ c.reason = Reason(rows[c.session].start)
    BY <1>3 DEF ScanInv, ScanKnows
  <2>2. c.session \in Session
    BY <2>1 DEF TypeOK
  <2>3. CASE c.session = s
    BY <1>1, <1>3, <2>1, <2>3 DEF Exists
  <2>4. CASE c.session # s
    BY <1>1, <2>1, <2>2, <2>4 DEF Exists
  <2> QED
    BY <2>3, <2>4
<1>4. ScanKnows'
  BY <1>3 DEF ScanKnows, Boundary, Reason, InShift, Owner, UnderWay, AboutToOpen, NextToOpen
<1> QED
  BY <1>2, <1>4 DEF ScanInv

LEMMA NextScan == TypeOK /\ ScanInv /\ [Next]_vars => ScanInv'
<1> SUFFICES ASSUME TypeOK, ScanInv, [Next]_vars PROVE ScanInv'
  OBVIOUS
<1>0. rows \in [Session -> Row]
  BY DEF TypeOK
<1>1. ASSUME NEW s \in Session, NEW e \in Employee, NEW o \in Operation,
             NEW reported \in Reports, Start(s, e, o, reported)
      PROVE  ScanInv'
  <2> DEFINE row == Opened(e, o, StartTime(reported))
  <2>1. row.status # "NONE" /\ row.closedAs = ""
    BY DEF Opened
  <2>2. rows' = [rows EXCEPT ![s] = row] /\ ~Exists(s) /\ UNCHANGED <<scan, edited>>
    BY <1>1 DEF Start, Fresh
  <2> HIDE DEF row
  <2> QED
    BY <2>1, <2>2, PutScan
<1>2. ASSUME NEW s \in Session, NEW reported \in Reports, Finish(s, reported)
      PROVE  ScanInv'
  <2> DEFINE row == [rows[s] EXCEPT !.status = "CLOSED", !.end = EndTime(rows[s], reported)]
  <2>1. row.status = "CLOSED" /\ row.start = rows[s].start /\ row.closedAs = rows[s].closedAs
    BY <1>0 DEF Row
  <2>2. rows' = [rows EXCEPT ![s] = row] /\ rows[s].status = "OPEN" /\ UNCHANGED <<scan, edited>>
    BY <1>2 DEF Finish, Runs, history
  <2>3. s \in edited \/ row.closedAs = ""
    BY <2>1, <2>2 DEF ScanInv, Unedited, OwnBoundary
  <2> HIDE DEF row
  <2> QED
    BY <2>1, <2>2, <2>3, PutScan
<1>3. ASSUME NEW s \in Session, NEW o \in Operation, Transfer(s, o) PROVE ScanInv'
  <2> DEFINE row == [rows[s] EXCEPT !.operation = o]
  <2>1. /\ row.status = rows[s].status /\ row.start = rows[s].start
        /\ row.end = rows[s].end /\ row.closedAs = rows[s].closedAs
    BY <1>0 DEF Row
  <2>2. /\ rows' = [rows EXCEPT ![s] = row] /\ rows[s].status # "NONE"
        /\ UNCHANGED <<scan, edited>>
    BY <1>3 DEF Transfer, Exists
  <2>3. s \in edited \/ OwnBoundary(s)
    BY DEF ScanInv, Unedited
  <2> HIDE DEF row
  <2> QED
    BY <2>1, <2>2, <2>3, PutScan DEF OwnBoundary
<1>4. ASSUME NEW s \in Session, NEW e \in Employee, NEW o \in Operation,
             NEW from \in Typed, NEW to \in Typed, CreateManual(s, e, o, from, to)
      PROVE  ScanInv'
  <2> DEFINE row == [Opened(e, o, from) EXCEPT !.status = "CLOSED", !.end = to]
  <2>1. row.status = "CLOSED" /\ row.closedAs = ""
    BY DEF Opened
  <2>2. rows' = [rows EXCEPT ![s] = row] /\ ~Exists(s) /\ UNCHANGED <<scan, edited>>
    BY <1>4 DEF CreateManual, Fresh, history
  <2> HIDE DEF row
  <2> QED
    BY <2>1, <2>2, PutScan
<1>5. ASSUME NEW s \in Session, NEW e \in Employee, NEW o \in Operation,
             NEW status \in {"OPEN", "CLOSED"}, NEW from \in Typed, NEW to \in Typed \cup {Never},
             Edit(s, e, o, status, from, to)
      PROVE  ScanInv'
  <2> DEFINE row == Rewritten(rows[s], e, o, status, from, to)
  <2>1. row.status = status
    BY <1>0 DEF Rewritten, Row
  <2>2. rows' = [rows EXCEPT ![s] = row] /\ edited' = edited \cup {s} /\ scan' = scan
    BY <1>5 DEF Edit
  <2> HIDE DEF row
  <2> QED
    BY <2>1, <2>2, PutScan
<1>6. ASSUME FindCandidates PROVE ScanInv'
  <2>1. UNCHANGED <<rows, edited>> /\ scan' = Candidates
    BY <1>6 DEF FindCandidates, history
  <2>2. \A c \in Candidates : /\ Exists(c.session)
                              /\ c.end = Boundary(rows[c.session].start)
                              /\ c.reason = Reason(rows[c.session].start)
    BY DEF Candidates, Overdue, Runs, Exists
  <2> QED
    BY <2>1, <2>2 DEF ScanInv, Unedited, OwnBoundary, ScanKnows, Exists
<1>7. ASSUME NEW c \in scan, AutoClose(c) PROVE ScanInv'
  <2> DEFINE row == AutoClosed(rows[c.session], c)
  <2>1. c.session \in Session /\ scan' \subseteq scan /\ UNCHANGED edited
    BY <1>7 DEF TypeOK, AutoClose, history
  <2>2. CASE ~MayAutoClose(c)
    <3>1. rows' = rows
      BY <1>7, <2>2 DEF AutoClose
    <3> QED
      BY <2>1, <3>1 DEF ScanInv, Unedited, OwnBoundary, ScanKnows, Exists
  <2>3. CASE MayAutoClose(c)
    <3>1. /\ row.status = "CLOSED" /\ row.start = rows[c.session].start
          /\ row.end = c.end /\ row.closedAs = c.reason
      BY <1>0, <2>1 DEF AutoClosed, Row
    <3>2. c.session \in edited \/ (c.end = Boundary(row.start) /\ c.reason = Reason(row.start))
      BY <3>1 DEF ScanInv, ScanKnows
    <3>3. rows' = [rows EXCEPT ![c.session] = row]
      BY <1>7, <2>3 DEF AutoClose
    <3> HIDE DEF row
    <3> QED
      BY <2>1, <3>1, <3>2, <3>3, PutScan
  <2> QED
    BY <2>2, <2>3
<1>8. CASE ScanDies \/ ClockTicks \/ UNCHANGED vars
  <2>1. UNCHANGED <<rows, edited>> /\ scan' \subseteq scan
    BY <1>8 DEF ScanDies, ClockTicks, vars, history
  <2> QED
    BY <2>1 DEF ScanInv, Unedited, OwnBoundary, ScanKnows, Exists
<1> QED
  BY <1>1, <1>2, <1>3, <1>4, <1>5, <1>6, <1>7, <1>8 DEF Next, Worker, Supervisor, AutoCloseNext

LEMMA InitScan == Init => ScanInv
<1> SUFFICES ASSUME Init PROVE ScanInv
  OBVIOUS
<1>1. scan = {} /\ \A s \in Session : rows[s].closedAs = ""
  BY DEF Init, Opened
<1> QED
  BY <1>1 DEF ScanInv, Unedited, OwnBoundary, ScanKnows

\* For any calendar, and however long ago the scan read its candidates: what it
\* closed ends at the boundary of its own start.
THEOREM ClosedWhereItBelongs == Spec => []ClosedAtOwnBoundary
<1>1. ScanInv => ClosedAtOwnBoundary
  BY DEF ScanInv, Unedited, OwnBoundary, ClosedAtOwnBoundary
<1> QED
  BY InitType, NextType, InitScan, NextScan, <1>1, PTL DEF Spec
=============================================================================
