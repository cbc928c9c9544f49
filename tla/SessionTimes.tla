---------------------------- MODULE SessionTimes ----------------------------
(*************************************************************************)
(* The hours of the work sessions: who may hold which hours on an        *)
(* operation, and the scan that closes at the end of its shift a session *)
(* its worker left open.  Every method locks the production order of the *)
(* operation before it looks at the hours, so it is one step; the scan   *)
(* reads its candidates first and closes them one by one afterwards.     *)
(* Times are whole ticks, and a transaction takes effect in the tick     *)
(* that is its CURRENT_TIMESTAMP.                                        *)
(*************************************************************************)
EXTENDS Integers

CONSTANTS
  Session,        \* the ids of the work sessions
  Employee, Operation,
  Never,          \* no end: the session runs
  DayLength,      \* ticks of a calendar day
  Shift,          \* the configured shifts: [opens, ends, crosses, weekdays, rank]
  EarlyTolerance, \* ticks before its shift a start still belongs to it
  Grace,          \* ticks the scan leaves the worker after the boundary
  FutureSkew,     \* ticks a trusted device may be ahead of the server
  PastSkew,       \* ticks a trusted device's report may be old
  Horizon,        \* bound: the last tick
  Typed,          \* bound: the ticks a supervisor may type
  MaxInterventions \* bound: edits, transfers and killed scans of a run

ASSUME CalendarAssumption ==
  /\ Session \subseteq Nat /\ Employee # {} /\ Operation # {}
  /\ DayLength \in Nat \ {0} /\ EarlyTolerance \in Nat /\ Grace \in Nat
  /\ FutureSkew \in Nat /\ PastSkew \in Nat
  /\ Horizon \in Nat /\ Typed \subseteq Nat /\ MaxInterventions \in Nat
  /\ Never \notin Int
  /\ \A shift \in Shift :
       /\ shift.opens \in 0 .. DayLength - 1 /\ shift.rank \in Nat
       /\ shift.ends \in Int /\ shift.ends > shift.opens
       /\ shift.crosses \in BOOLEAN /\ shift.weekdays \subseteq 0 .. 6

VARIABLES
  now,           \* the server's clock
  rows,          \* work_sessions
  scan,          \* the candidates a running scan still has to close
  interventions, \* edits, transfers and killed scans so far
  moved,         \* history: sessions moved by a transfer since they were last checked
  edited,        \* history: sessions whose row a supervisor has rewritten
  ahead          \* history: sessions started by a device ahead of the server

history == <<moved, edited, ahead>>
vars == <<now, rows, scan, interventions, history>>

Tick == 0 .. Horizon
Row == [status: {"NONE", "OPEN", "CLOSED"}, employee: Employee, operation: Operation,
        start: Int, end: Int \cup {Never},
        closedAs: {"", "AUTO_SHIFT_END", "AUTO_CALENDAR_DAY_END"}]

Exists(s) == rows[s].status # "NONE"
Runs(s) == rows[s].status = "OPEN"

\* The next serial id.
Fresh(s) == ~Exists(s) /\ \A r \in Session : r < s => Exists(r)

-----------------------------------------------------------------------------
(* Hours *)

\* The half-open range [start, max(end, start)) of a row contains tick t.
Covers(row, t) == row.start <= t /\ (row.end = Never \/ t < row.end)

\* Two ranges share a tick: the later of the two starts.  An empty range shares none.
Overlap(a, b) == \E t \in {a.start, b.start} : Covers(a, t) /\ Covers(b, t)

Backwards(row) == row.end # Never /\ row.end < row.start

Rivals(s, row) == {r \in Session \ {s} : /\ Exists(r)
                                         /\ rows[r].employee = row.employee
                                         /\ rows[r].operation = row.operation}

\* Mutant: only the sessions that still run are compared.
HoursFreeOfOpen(s, row) == \A r \in Rivals(s, row) : Runs(r) => ~Overlap(rows[r], row)

\* No other session of the employee on the operation has an hour of the row's.
HoursFree(s, row) == \A r \in Rivals(s, row) : ~Overlap(rows[r], row)

\* The unique index: one open session for an employee on an operation.
IndexAdmits(s, row) == row.status = "OPEN" => \A r \in Rivals(s, row) : ~Runs(r)

-----------------------------------------------------------------------------
(* Shifts *)

DayOf(t) == t \div DayLength

\* The day whose shift a moment counts to: after midnight, a crossing shift's
\* tail belongs to the day before.
AnchorDay(shift, t) ==
  IF shift.crosses /\ t % DayLength < shift.ends - DayLength THEN DayOf(t) - 1 ELSE DayOf(t)

OpensAt(shift, t) == AnchorDay(shift, t) * DayLength + shift.opens
EndsAt(shift, t)  == AnchorDay(shift, t) * DayLength + shift.ends

\* The shifts under way at t, and those about to open whose weekday it is.
UnderWay(t) == {shift \in Shift : OpensAt(shift, t) <= t /\ t < EndsAt(shift, t)}
AboutToOpen(t) == {shift \in Shift : /\ AnchorDay(shift, t) % 7 \in shift.weekdays
                                     /\ t \in OpensAt(shift, t) - EarlyTolerance .. OpensAt(shift, t)}

\* The shift that owns a start made at t: the first configured one under
\* way, or else the next to open.
First(shifts) == CHOOSE shift \in shifts : \A other \in shifts : shift.rank <= other.rank

NextToOpen(t) == {shift \in AboutToOpen(t) :
                    \A other \in AboutToOpen(t) : OpensAt(shift, t) <= OpensAt(other, t)}

Owner(t) == First(IF UnderWay(t) # {} THEN UnderWay(t) ELSE NextToOpen(t))

InShift(t) == UnderWay(t) \cup AboutToOpen(t) # {}

\* Where a session started at t is closed: the end of its own shift, or of
\* its calendar day when it started outside every shift.
Boundary(t) == IF InShift(t) THEN EndsAt(Owner(t), t) ELSE (DayOf(t) + 1) * DayLength

Reason(t) == IF InShift(t) THEN "AUTO_SHIFT_END" ELSE "AUTO_CALENDAR_DAY_END"

Overdue(s) == Runs(s) /\ now >= Boundary(rows[s].start) + Grace

\* Mutant: a start outside every shift has no boundary.
CandidatesInShift ==
  {[session |-> s, end |-> Boundary(rows[s].start), reason |-> Reason(rows[s].start)] :
     s \in {s \in Session : Overdue(s) /\ InShift(rows[s].start)}}

\* Mutant: the boundary is that of the shift the scan runs in.
CandidatesOfToday ==
  {[session |-> s, end |-> Boundary(now), reason |-> Reason(now)] : s \in {s \in Session : Overdue(s)}}

\* What find_candidates() returns: each overdue session and its own boundary.
Candidates == {[session |-> s, end |-> Boundary(rows[s].start), reason |-> Reason(rows[s].start)] :
                 s \in {s \in Session : Overdue(s)}}

-----------------------------------------------------------------------------
(* What a worker does *)

\* The times of a synchronised device the server accepts, and no time at all.
Reports == {Never} \cup ((now - PastSkew .. now + FutureSkew) \cap Nat)

StartTime(reported) == IF reported = Never THEN now ELSE reported

\* Mutant: the device's time always counts.
EndTimeReported(row, reported) == IF reported # Never THEN reported ELSE now

\* The device's time counts only when it lies after the start.
EndTime(row, reported) == IF reported # Never /\ reported > row.start THEN reported ELSE now

Opened(e, o, t) == [status |-> "OPEN", employee |-> e, operation |-> o, start |-> t,
                    end |-> Never, closedAs |-> ""]

Start(s, e, o, reported) ==
  LET row == Opened(e, o, StartTime(reported)) IN
    /\ Fresh(s)
    /\ HoursFree(s, row) /\ IndexAdmits(s, row)
    /\ rows' = [rows EXCEPT ![s] = row]
    /\ ahead' = IF row.start > now THEN ahead \cup {s} ELSE ahead
    /\ UNCHANGED <<now, scan, interventions, moved, edited>>

Finish(s, reported) ==
  LET row == [rows[s] EXCEPT !.status = "CLOSED", !.end = EndTime(rows[s], reported)] IN
    /\ Runs(s)
    /\ HoursFree(s, row)
    /\ rows' = [rows EXCEPT ![s] = row]
    /\ UNCHANGED <<now, scan, interventions, history>>

-----------------------------------------------------------------------------
(* What a supervisor does *)

\* Mutant: a session that is opened again keeps its end.
RewrittenKeepsEnd(row, e, o, status, from, to) ==
  [row EXCEPT !.employee = e, !.operation = o, !.status = status, !.start = from,
              !.end = IF to # Never THEN to ELSE row.end]

\* edit_session rewrites the whole row.  An open row has no end; a closed one
\* that gets none keeps its old one, or ends where it starts.
Rewritten(row, e, o, status, from, to) ==
  [row EXCEPT !.employee = e, !.operation = o, !.status = status, !.start = from,
              !.end = IF status = "OPEN" THEN Never
                      ELSE IF to # Never THEN to
                      ELSE IF row.end # Never THEN row.end ELSE from]

Edit(s, e, o, status, from, to) ==
  LET row == Rewritten(rows[s], e, o, status, from, to) IN
    /\ interventions < MaxInterventions
    /\ Exists(s)
    /\ ~Backwards(row)
    /\ HoursFree(s, row) /\ IndexAdmits(s, row)
    /\ rows' = [rows EXCEPT ![s] = row]
    /\ moved' = moved \ {s}
    /\ edited' = edited \cup {s}
    /\ interventions' = interventions + 1
    /\ UNCHANGED <<now, scan, ahead>>

\* create_manual_session: work nobody scanned, recorded afterwards.
CreateManual(s, e, o, from, to) ==
  LET row == [Opened(e, o, from) EXCEPT !.status = "CLOSED", !.end = to] IN
    /\ Fresh(s)
    /\ from < to /\ to <= now
    /\ HoursFree(s, row)
    /\ rows' = [rows EXCEPT ![s] = row]
    /\ UNCHANGED <<now, scan, interventions, history>>

\* transfer_operation changes the operation only, and looks at no hours.
Transfer(s, o) ==
  LET row == [rows[s] EXCEPT !.operation = o] IN
    /\ interventions < MaxInterventions
    /\ Exists(s) /\ rows[s].operation # o
    /\ IndexAdmits(s, row)
    /\ rows' = [rows EXCEPT ![s] = row]
    /\ moved' = moved \cup {s}
    /\ interventions' = interventions + 1
    /\ UNCHANGED <<now, scan, edited, ahead>>

-----------------------------------------------------------------------------
(* The scan *)

FindCandidates ==
  /\ scan = {}
  /\ scan' = Candidates
  /\ UNCHANGED <<now, rows, interventions, history>>

\* auto_close_for_shift_end on what is now in the row; it is left as it is
\* when it was closed meanwhile, starts after the boundary or would collide.
AutoClosed(row, c) == [row EXCEPT !.status = "CLOSED", !.end = c.end, !.closedAs = c.reason]

MayAutoClose(c) ==
  /\ Runs(c.session)
  /\ c.end > rows[c.session].start
  /\ HoursFree(c.session, AutoClosed(rows[c.session], c))

AutoClose(c) ==
  /\ c \in scan
  /\ scan' = scan \ {c}
  /\ rows' = IF MayAutoClose(c)
               THEN [rows EXCEPT ![c.session] = AutoClosed(@, c)]
               ELSE rows
  /\ UNCHANGED <<now, interventions, history>>

\* The process of the scan is killed; the next scan starts afresh.
ScanDies ==
  /\ interventions < MaxInterventions
  /\ scan # {} /\ scan' = {}
  /\ interventions' = interventions + 1
  /\ UNCHANGED <<now, rows, history>>

ClockTicks == now < Horizon /\ now' = now + 1 /\ UNCHANGED <<rows, scan, interventions, history>>

-----------------------------------------------------------------------------
Init ==
  /\ now = 0
  /\ rows = [s \in Session |-> [Opened(CHOOSE e \in Employee : TRUE, CHOOSE o \in Operation : TRUE, 0)
                                   EXCEPT !.status = "NONE"]]
  /\ scan = {} /\ interventions = 0
  /\ moved = {} /\ edited = {} /\ ahead = {}

Worker == \E s \in Session, reported \in Reports :
            \/ \E e \in Employee, o \in Operation : Start(s, e, o, reported)
            \/ Finish(s, reported)

Supervisor ==
  \E s \in Session, o \in Operation :
    \/ Transfer(s, o)
    \/ \E e \in Employee, from, to \in Typed : CreateManual(s, e, o, from, to)
    \/ \E e \in Employee, status \in {"OPEN", "CLOSED"}, from \in Typed, to \in Typed \cup {Never} :
         Edit(s, e, o, status, from, to)

AutoCloseNext == \E c \in scan : AutoClose(c)

Next == ClockTicks \/ Worker \/ Supervisor \/ FindCandidates \/ AutoCloseNext \/ ScanDies

\* The timer runs the scan again and again, and a scan goes through its list.
Spec == Init /\ [][Next]_vars /\ WF_vars(FindCandidates) /\ WF_vars(AutoCloseNext)

-----------------------------------------------------------------------------
(* Properties *)

TypeOK ==
  /\ now \in Tick /\ interventions \in 0 .. MaxInterventions
  /\ rows \in [Session -> Row]
  /\ \A s \in Session : (rows[s].end = Never) = (rows[s].status # "CLOSED")
  /\ scan \subseteq [session: Session, end: Int, reason: {"AUTO_SHIFT_END", "AUTO_CALENDAR_DAY_END"}]
  /\ moved \subseteq Session /\ edited \subseteq Session /\ ahead \subseteq Session

\* Nobody works twice at once on one operation, whoever starts, finishes,
\* edits, records or closes in which order: only a transfer, which looks at no
\* hours, puts two sessions of an employee on the same hours of an operation.
OverlapOnlyByTransfer ==
  \A s \in Session : Exists(s) =>
    \A r \in Rivals(s, rows[s]) : Overlap(rows[s], rows[r]) => {s, r} \cap moved # {}

\* A session ends before it starts in two cases only: its start was taken from
\* a device ahead of the server and its end from the server, or a supervisor
\* has rewritten its start.
EndsBeforeStartOnlyAhead ==
  \A s \in Session :
    Backwards(rows[s]) => s \in ahead \cup edited

\* However late the scan runs, a session it closed ends at the end of the shift
\* or day it was started in, when no supervisor has rewritten it.
ClosedAtOwnBoundary ==
  \A s \in Session \ edited :
    rows[s].closedAs # "" => /\ rows[s].end = Boundary(rows[s].start)
                            /\ rows[s].closedAs = Reason(rows[s].start)

\* A session left open past its boundary is closed, or corrected so that it is
\* not overdue; only hours another session holds can keep it open.
LeftOpenIsClosed ==
  \A s \in Session :
    Overdue(s) ~> \/ ~Overdue(s)
                 \/ \E r \in Rivals(s, rows[s]) : Overlap(rows[s], rows[r])
=============================================================================
