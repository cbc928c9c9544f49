--------------------------- MODULE ExceptionCenter ---------------------------
(*************************************************************************)
(* The exception center (repositories/exceptions.py, exception_service): *)
(* anomalies of work sessions are detected by a query, kept as records   *)
(* and decided by supervisors.                                           *)
(*                                                                       *)
(* reconcile() first reads which conditions hold, then, in a transaction *)
(* of its own, raises, confirms and closes records.  It runs on every    *)
(* load of the list, every night, and before and after decisions, so     *)
(* several threads may be between the reading and the transaction.       *)
(*                                                                       *)
(* The transaction is one step here.  The code reads and writes record   *)
(* after record under READ COMMITTED, and nothing makes the number of an *)
(* incident unique: a raise that read a record before another thread     *)
(* raised and decided the next one would give its number out again.      *)
(*                                                                       *)
(* A fault is a fingerprint: one kind of anomaly of one session.  What   *)
(* the query looks at (hours, quantities, overlaps) is its truth here,   *)
(* which the shop floor changes at any time.                             *)
(*************************************************************************)
EXTENDS Naturals, Sequences

CONSTANTS
  Fault,
  Detected,       \* faults that detected_conditions() looks for; the others are
                  \* reported by the kiosk (INTERRUPTED_QUANTITY_ENTRY)
  Severe,         \* HIGH and CRITICAL faults that the end of the session does not clear
  Watcher,        \* threads that reconcile
  Cron,           \* the one that runs at its hour
  NoFault,
  MaxIncidents    \* bounds: incidents of each fault before it stops recurring

ASSUME FaultAssumption ==
  /\ Detected \subseteq Fault
  /\ Severe \subseteq Detected
  /\ NoFault \notin Fault
ASSUME WatcherAssumption == Cron \in Watcher

VARIABLES
  holds,      \* the faults that are true of their sessions now
  records,    \* exception_records of each fault, by occurrence_no
  watcher     \* what each thread is doing

vars == <<holds, records, watcher>>

ACTIVE == {"OPEN", "ACKNOWLEDGED"}
Status == ACTIVE \cup {"RESOLVED", "MANUAL_IGNORED", "AUTO_IGNORED"}
Record == [status : Status, condition_active : BOOLEAN, row_version : Nat]

\* A thread scans only, or first scans and then resolves a record.
Task == [at : {"idle", "detect", "apply", "check", "decide"},
         for : {"scan", "resolve"}, fault : Fault \cup {NoFault}, occurrence : Nat, expected : Nat,
         current : SUBSET Fault]

Idle == [at |-> "idle", for |-> "scan", fault |-> NoFault, occurrence |-> 0, expected |-> 0, current |-> {}]

TypeOK ==
  /\ holds \in SUBSET Fault
  /\ records \in [Fault -> Seq(Record)]
  /\ watcher \in [Watcher -> Task]
  /\ \A w \in Watcher : watcher[w].for # "scan" =>
       watcher[w].fault \in Fault /\ watcher[w].occurrence \in 1 .. Len(records[watcher[w].fault])

Init ==
  /\ holds = {}
  /\ records = [f \in Fault |-> <<>>]
  /\ watcher = [w \in Watcher |-> Idle]

Prior(f) == records[f][Len(records[f])]

-----------------------------------------------------------------------------
(* The shop floor.                                                         *)

Arise(f) ==
  /\ f \notin holds
  /\ Len(records[f]) < MaxIncidents[f]
  /\ holds' = holds \cup {f}
  /\ UNCHANGED <<records, watcher>>

Clear(f) ==
  /\ f \in holds
  /\ holds' = holds \ {f}
  /\ UNCHANGED <<records, watcher>>

-----------------------------------------------------------------------------
(* Raising and closing records.                                            *)

New == [status |-> "OPEN", condition_active |-> TRUE, row_version |-> 1]

\* Mutant: once it is decided, a condition that goes on counts as a new incident.
StandsUndecided(r) == r.status \in ACTIVE

\* An incident goes on: it is undecided, or its condition never went away.
Stands(r) == r.status \in ACTIVE \/ r.condition_active

\* The records of a fault whose condition was found true.
Confirmed(f) ==
  IF records[f] # <<>> /\ Stands(Prior(f))
  THEN [records[f] EXCEPT ![Len(records[f])].condition_active = TRUE]
  ELSE Append(records[f], New)

\* Mutant: only undecided records are looked at.
LapsedUndecided(f, r) ==
  IF ~r.condition_active \/ r.status \notin ACTIVE THEN r
  ELSE IF f \notin Severe
  THEN [status |-> "AUTO_IGNORED", condition_active |-> FALSE, row_version |-> r.row_version + 1]
  ELSE [r EXCEPT !.condition_active = FALSE]

\* What becomes of a record whose condition was not found true.
Lapsed(f, r) ==
  IF ~r.condition_active THEN r
  ELSE IF r.status \in ACTIVE /\ f \notin Severe
  THEN [status |-> "AUTO_IGNORED", condition_active |-> FALSE, row_version |-> r.row_version + 1]
  ELSE [r EXCEPT !.condition_active = FALSE]

\* Mutant: undecided records are deleted instead.
LapseDeletes(f) == SelectSeq(records[f], LAMBDA r : r.status \notin ACTIVE)

\* The records of a fault whose condition was not found true.
Lapse(f) == [i \in DOMAIN records[f] |-> Lapsed(f, records[f][i])]

\* reconcile(): every fault at once, by what the thread read before.
Reconciled(current) == [f \in Fault |-> IF f \in current THEN Confirmed(f) ELSE Lapse(f)]

\* report_interrupted_quantity_entry, on the kiosk, if the session is still open.
ReportInterrupted(f) ==
  /\ f \in holds \ Detected
  /\ Len(records[f]) < MaxIncidents[f]
  /\ records' = [records EXCEPT ![f] = Confirmed(f)]
  /\ UNCHANGED <<holds, watcher>>

-----------------------------------------------------------------------------
(* Threads that reconcile.                                                 *)

\* detected_conditions(), a query without a lock.
Detect(w) ==
  /\ watcher[w].at \in {"idle", "detect"}
  /\ watcher' = [watcher EXCEPT ![w].at = "apply", ![w].current = holds \cap Detected]
  /\ UNCHANGED <<holds, records>>

Apply(w) ==
  /\ watcher[w].at = "apply"
  /\ records' = Reconciled(watcher[w].current)
  /\ watcher' = [watcher EXCEPT ![w] = IF @.for = "scan" THEN Idle ELSE [@ EXCEPT !.at = "check", !.current = {}]]
  /\ UNCHANGED holds

\* A deadlock makes a thread read again, a failure ends it.
Abort(w) ==
  /\ w # Cron /\ watcher[w].at # "idle"
  /\ watcher' = [watcher EXCEPT ![w] = Idle]
  /\ UNCHANGED <<holds, records>>

-----------------------------------------------------------------------------
(* Decisions.                                                              *)

\* A supervisor asks to resolve an undecided record, in the version he is shown;
\* asking for anything older would only be refused later.
AskResolve(w, f, i) ==
  /\ w # Cron /\ watcher[w].at = "idle"
  /\ i \in DOMAIN records[f]
  /\ records[f][i].status \in ACTIVE
  /\ watcher' = [watcher EXCEPT ![w] = [Idle EXCEPT !.at = "detect", !.for = "resolve", !.fault = f,
                                        !.occurrence = i, !.expected = records[f][i].row_version]]
  /\ UNCHANGED <<holds, records>>

Subject(w) == records[watcher[w].fault][watcher[w].occurrence]

\* After its reconcile(): refused while the condition is still recorded as true.
Verify(w) ==
  /\ watcher[w].at = "check"
  /\ watcher' = [watcher EXCEPT ![w] = IF Subject(w).condition_active /\ Subject(w).status \in ACTIVE
                                       THEN Idle ELSE [@ EXCEPT !.at = "decide"]]
  /\ UNCHANGED <<holds, records>>

\* Mutant: the version the supervisor was shown and the status are not compared.
MayDecideAnyVersion(r, expected) == TRUE

\* transition(): only the version the supervisor was shown, only undecided.
MayDecide(r, expected) == r.row_version = expected /\ r.status \in ACTIVE

Turned(r, status) == [r EXCEPT !.status = status, !.row_version = @ + 1]

Resolve(w) ==
  LET f == watcher[w].fault
      i == watcher[w].occurrence IN
  /\ watcher[w].at = "decide"
  /\ records' = IF MayDecide(Subject(w), watcher[w].expected)
                THEN [records EXCEPT ![f][i] = Turned(@, "RESOLVED")] ELSE records
  /\ watcher' = [watcher EXCEPT ![w] = Idle]
  /\ UNCHANGED holds

\* Acknowledging and ignoring are single transactions, about the version shown.
Acknowledge(f, i) ==
  /\ i \in DOMAIN records[f]
  /\ MayDecide(records[f][i], records[f][i].row_version)
  /\ records[f][i].status = "OPEN"
  /\ records' = [records EXCEPT ![f][i] = Turned(@, "ACKNOWLEDGED")]
  /\ UNCHANGED <<holds, watcher>>

Ignore(f, i) ==
  /\ i \in DOMAIN records[f]
  /\ MayDecide(records[f][i], records[f][i].row_version)
  /\ records' = [records EXCEPT ![f][i] = Turned(@, "MANUAL_IGNORED")]
  /\ UNCHANGED <<holds, watcher>>

\* correct_session(): an undecided record's session is edited, which may or may
\* not remove the fault, and the thread reconciles.  What it then tells the
\* supervisor of the record is read only.
Correct(w, f, i) ==
  /\ w # Cron /\ watcher[w].at = "idle"
  /\ i \in DOMAIN records[f]
  /\ records[f][i].status \in ACTIVE
  /\ holds' \in {holds, holds \ {f}}
  /\ watcher' = [watcher EXCEPT ![w].at = "detect"]
  /\ UNCHANGED records

Next ==
  \/ \E f \in Fault : Arise(f) \/ Clear(f) \/ ReportInterrupted(f)
  \/ \E w \in Watcher : Detect(w) \/ Apply(w) \/ Abort(w) \/ Verify(w) \/ Resolve(w)
  \/ \E f \in Fault : \E i \in DOMAIN records[f] :
       \/ Acknowledge(f, i) \/ Ignore(f, i)
       \/ \E w \in Watcher : AskResolve(w, f, i) \/ Correct(w, f, i)

\* Cron starts a scan at its hour for ever and brings it to its end; one that
\* fails is a scan that did not start.
Fairness == WF_vars(Detect(Cron)) /\ WF_vars(Apply(Cron))

Spec == Init /\ [][Next]_vars /\ Fairness

-----------------------------------------------------------------------------
(* Properties.                                                             *)

\* Whatever threads reconcile, report and decide at the same time, the records of
\* each fault are a log of incidents: one at a time, decisions stand, and nobody
\* but a person puts a severe one aside.
Log == INSTANCE IncidentLog WITH
         log <- [f \in Fault |-> [i \in DOMAIN records[f] |-> records[f][i].status]]
KeepsIncidentLog == Log!LSpec

\* An older incident of a fault is over for good: it is decided, its condition is
\* no longer tracked, so no scan can put it aside or confirm it again.
EarlierAreOver ==
  \A f \in Fault : \A i \in DOMAIN records[f] :
    i < Len(records[f]) => records[f][i].status \notin ACTIVE /\ ~records[f][i].condition_active

\* The records follow the facts: a detected fault that stays has an incident that
\* says so, and one that stays away has none that does.
RecordsCatchUp ==
  \A f \in Detected :
    /\ <>[](f \in holds) => <>[](records[f] # <<>> /\ Prior(f).condition_active)
    /\ <>[](f \notin holds) => <>[](\A i \in DOMAIN records[f] : ~records[f][i].condition_active)
=============================================================================
